-------------------------------- MODULE Panes --------------------------------
(***************************************************************************)
(* The pane and workspace routes of internal/api/handler.go and            *)
(* openurl.go, with the session manager and the loopback forwards they     *)
(* share (internal/session/manager.go, internal/portforward/registry.go).  *)
(*                                                                         *)
(* A request is a process.  cfgMu is held from a snapshot to its save, so  *)
(* a route that only changes the configuration is one step; adding and     *)
(* deleting a workspace hold it over several.  Creating a session may dial *)
(* for long: other requests are served meanwhile.  Creating one and what   *)
(* follows at once is one step, an unregistered session being nobody       *)
(* else's.                                                                 *)
(*                                                                         *)
(* A session is numbered among those its pane ever had.  The caches keyed  *)
(* by pane that the routes clear beside it (git information, working       *)
(* directories) are left out.                                              *)
(***************************************************************************)
EXTENDS PaneConfig, FiniteSets

CONSTANTS
  Generated,      \* panes the server names: those of a new workspace
  FirstWorkspace, \* the one configured at the start
  FirstPane,      \* its only pane
  FirstLook,
  Requests,       \* what may be served at once
  Ports,          \* callback ports
  MaxTotal,       \* Registry.maxTotal
  MaxPerSession,  \* Registry.maxPerSession
  MaxSessions,    \* bound: the sessions each pane may have
  MaxLive,        \* bound: connections proxied by one forward
  NoForward

ASSUME PanesAssumption ==
  /\ Generated \subseteq Panes /\ FirstPane \in Panes
  /\ FirstWorkspace \in Workspaces /\ FirstLook \in Looks
  /\ MaxSessions \in [Panes -> Nat \ {0}] /\ MaxTotal \in Nat /\ MaxPerSession \in Nat /\ MaxLive \in Nat

VARIABLES
  cfg,       \* Handler.cfg
  file,      \* config.yaml
  sessions,  \* Manager.sessions: the number of each pane's session, 0 for none
  made,      \* how many sessions each pane had
  running,   \* sessions created and not closed, as <<pane, number>>
  forwards,  \* Registry.forwards
  closed,    \* Registry.closed
  reqs,      \* the requests being served
  dropped    \* sessions closed with their workspace

configVars  == <<cfg, file>>
sessionVars == <<sessions, made, running>>
forwardVars == <<forwards, closed>>
panesVars == <<configVars, sessionVars, forwardVars, reqs, dropped>>

Idle == [op |-> "none"]

\* cfgMu: only these requests hold it between two steps.
Unlocked == \A r \in Requests : reqs[r].op \notin {"addWorkspace", "deleteWorkspace"}

Become(r, q) == reqs' = [reqs EXCEPT ![r] = q]

-----------------------------------------------------------------------------
(* The configuration.                                                      *)

\* Mutant: a change that was not saved stays.
Kept(c) == cfg' = c /\ file' = file

\* Restore: the configuration is as its snapshot again.
Restored(c) == UNCHANGED configVars

\* SaveWorkspaces, SaveLayout.
Saved(c) == cfg' = NormalizeWorkspaces(c) /\ file' = Written(NormalizeWorkspaces(c))

\* saveWorkspacesOrRollback, saveLayoutOrRollback: a change is saved, or
\* taken back whatever it was.
Configure(c) ==
  /\ Unlocked /\ Saved(c)
  /\ UNCHANGED <<sessionVars, forwardVars, reqs, dropped>>

Rollback ==
  /\ Unlocked /\ Restored(cfg)
  /\ UNCHANGED <<sessionVars, forwardVars, reqs, dropped>>

\* A dashboard saves the layout it shows, which may be an old one, of panes
\* that were created.
Shown == SUBSET {p \in Panes : made[p] > 0}

PutLayout == \E panes \in Shown : Configure(UpdateLayout(cfg, panes))

PutWorkspaceLayout(w) ==
  /\ HasWorkspace(cfg, w)
  /\ \E panes \in Shown : Configure(UpdateWorkspaceLayout(cfg, w, panes))

PutActiveWorkspace(w) == HasWorkspace(cfg, w) /\ Configure(SetActiveWorkspace(cfg, w))

\* PutWorkspace, PutWorkspaceTabPosition, PutWorkspaceVerticalBarWidth.
PutLook(look) == Configure(NormalizeWorkspaces([cfg EXCEPT !.look = look]))

-----------------------------------------------------------------------------
(* Sessions.                                                               *)

Number(p) == made[p] + 1

\* createSession and Manager.Add: whatever is registered there is forgotten.
CreateAndAdd(p) ==
  /\ made[p] < MaxSessions[p]
  /\ made' = [made EXCEPT ![p] = Number(p)]
  /\ running' = running \cup {<<p, Number(p)>>}
  /\ sessions' = [sessions EXCEPT ![p] = Number(p)]

\* Manager.Remove; there may be none.
RemoveSession(p) ==
  /\ sessions' = [sessions EXCEPT ![p] = 0]
  /\ running' = running \ {<<p, sessions[p]>>}
  /\ UNCHANGED made

\* A dashboard makes a name up for a pane it posts, waits for the answer and
\* only then shows the pane; it posts a name again when that failed.
PostSession(r, p) ==
  /\ reqs[r] = Idle
  /\ p \notin Generated /\ made[p] = 0
  /\ \A q \in Requests : reqs[q].op = "post" => reqs[q].pane # p
  /\ Become(r, [op |-> "post", pane |-> p])
  /\ UNCHANGED <<configVars, sessionVars, forwardVars, dropped>>

PostSessionEnd(r) ==
  /\ reqs[r].op = "post"
  /\ CreateAndAdd(reqs[r].pane) \/ UNCHANGED sessionVars
  /\ Become(r, Idle)
  /\ UNCHANGED <<configVars, forwardVars, dropped>>

\* DeleteSession: the pane leaves the layouts first, and its session stays
\* when that cannot be saved.
DeleteSession(r, p) ==
  /\ reqs[r] = Idle /\ sessions[p] # 0 /\ Unlocked
  /\ \/ Saved(RemovePaneFromLayout(cfg, p)) /\ Become(r, [op |-> "delete", at |-> "removing", pane |-> p])
     \/ Restored(RemovePaneFromLayout(cfg, p)) /\ UNCHANGED reqs
  /\ UNCHANGED <<sessionVars, forwardVars, dropped>>

DeleteSessionRemove(r) ==
  /\ reqs[r].op = "delete" /\ reqs[r].at = "removing"
  /\ RemoveSession(reqs[r].pane)
  /\ Become(r, [reqs[r] EXCEPT !.at = "closing"])
  /\ UNCHANGED <<configVars, forwardVars, dropped>>

\* Mutant: no restart is refused.
NoneRestarting(p) == TRUE

\* beginRestart.
NotRestarting(p) == \A r \in Requests : reqs[r].op = "restart" => reqs[r].pane # p

RestartSession(r, p) ==
  /\ reqs[r] = Idle /\ Unlocked
  /\ NotRestarting(p)
  /\ p \in AllPanes(cfg)
  /\ Become(r, [op |-> "restart", at |-> "creating", pane |-> p, sess |-> 0])
  /\ UNCHANGED <<configVars, sessionVars, forwardVars, dropped>>

\* The new session is created, and the old one then removed; or it cannot be.
RestartCreate(r) ==
  /\ reqs[r].op = "restart" /\ reqs[r].at = "creating"
  /\ LET p == reqs[r].pane IN
       \/ /\ made[p] < MaxSessions[p]
          /\ made' = [made EXCEPT ![p] = Number(p)]
          /\ running' = (running \ {<<p, sessions[p]>>}) \cup {<<p, Number(p)>>}
          /\ sessions' = [sessions EXCEPT ![p] = 0]
          /\ Become(r, [reqs[r] EXCEPT !.at = "closing", !.sess = Number(p)])
       \/ Become(r, Idle) /\ UNCHANGED sessionVars
  /\ UNCHANGED <<configVars, forwardVars, dropped>>

RestartAdd(r) ==
  /\ reqs[r].op = "restart" /\ reqs[r].at = "adding"
  /\ sessions' = [sessions EXCEPT ![reqs[r].pane] = reqs[r].sess]
  /\ Become(r, Idle)
  /\ UNCHANGED <<configVars, made, running, forwardVars, dropped>>

-----------------------------------------------------------------------------
(* Workspaces: both routes hold cfgMu over several steps.                  *)

PostWorkspace(r, w, p) ==
  /\ reqs[r] = Idle /\ Unlocked
  /\ ~HasWorkspace(cfg, w) /\ p \in Generated \ AllPanes(cfg)
  /\ cfg' = AddDefaultWorkspace(NormalizeWorkspaces(cfg), w, p)
  /\ Become(r, [op |-> "addWorkspace", at |-> "creating", pane |-> p, before |-> cfg])
  /\ UNCHANGED <<file, sessionVars, forwardVars, dropped>>

PostWorkspaceCreate(r) ==
  /\ reqs[r].op = "addWorkspace" /\ reqs[r].at = "creating"
  /\ \/ CreateAndAdd(reqs[r].pane) /\ Become(r, [reqs[r] EXCEPT !.at = "saving"]) /\ UNCHANGED cfg
     \/ cfg' = reqs[r].before /\ Become(r, Idle) /\ UNCHANGED sessionVars
  /\ UNCHANGED <<file, forwardVars, dropped>>

\* rollbackNewWorkspace, when the file cannot be written.
PostWorkspaceSave(r) ==
  /\ reqs[r].op = "addWorkspace" /\ reqs[r].at = "saving"
  /\ LET p == reqs[r].pane IN
       \/ Saved(cfg) /\ UNCHANGED <<sessionVars, dropped>>
       \/ /\ cfg' = reqs[r].before /\ UNCHANGED file
          /\ RemoveSession(p) /\ dropped' = dropped \cup {<<p, sessions[p]>>}
  /\ Become(r, Idle)
  /\ UNCHANGED forwardVars

\* Mutant: the last workspace can be deleted.
NotLastEver(c) == TRUE

NotLast(c) == Len(c.items) > 1

DeleteWorkspace(r, w) ==
  /\ reqs[r] = Idle /\ Unlocked
  /\ HasWorkspace(cfg, w) /\ NotLast(cfg)
  /\ \/ /\ Saved(RemoveWorkspace(cfg, w))
        /\ Become(r, [op |-> "deleteWorkspace", left |-> cfg.layout[w]])
     \/ Restored(RemoveWorkspace(cfg, w)) /\ UNCHANGED reqs
  /\ UNCHANGED <<sessionVars, forwardVars, dropped>>

\* Its panes' sessions go one by one; their forwards stay.
DeleteWorkspaceRemove(r) ==
  /\ reqs[r].op = "deleteWorkspace"
  /\ \/ \E p \in reqs[r].left :
          /\ RemoveSession(p) /\ dropped' = dropped \cup {<<p, sessions[p]>>}
          /\ Become(r, [reqs[r] EXCEPT !.left = @ \ {p}])
     \/ reqs[r].left = {} /\ Become(r, Idle) /\ UNCHANGED <<sessionVars, dropped>>
  /\ UNCHANGED <<configVars, forwardVars>>

-----------------------------------------------------------------------------
(* Forwards.                                                               *)

Bound == {o \in Ports : forwards[o] # NoForward}

BoundFor(p) == {o \in Bound : forwards[o].pane = p}

CloseSession(p) == forwards' = [o \in Ports |-> IF o \in BoundFor(p) THEN NoForward ELSE forwards[o]]

\* closeSessionForwards, after the session was removed.
DeleteSessionClose(r) ==
  /\ reqs[r].op = "delete" /\ reqs[r].at = "closing"
  /\ CloseSession(reqs[r].pane)
  /\ Become(r, Idle)
  /\ UNCHANGED <<configVars, sessionVars, closed, dropped>>

RestartClose(r) ==
  /\ reqs[r].op = "restart" /\ reqs[r].at = "closing"
  /\ CloseSession(reqs[r].pane)
  /\ Become(r, [reqs[r] EXCEPT !.at = "adding"])
  /\ UNCHANGED <<configVars, sessionVars, closed, dropped>>

PostOpenURL(r, p, o) ==
  /\ reqs[r] = Idle /\ sessions[p] # 0
  /\ Become(r, [op |-> "open", at |-> "ensuring", pane |-> p, sess |-> sessions[p], port |-> o])
  /\ UNCHANGED <<configVars, sessionVars, forwardVars, dropped>>

\* Mutant: a forward can be bound once the registry is closed.
MayBindAlways(p) == Cardinality(Bound) < MaxTotal /\ Cardinality(BoundFor(p)) < MaxPerSession

\* Ensure binds: not closed, and checkLimitsLocked.
MayBind(p) ==
  ~closed /\ Cardinality(Bound) < MaxTotal /\ Cardinality(BoundFor(p)) < MaxPerSession

\* Ensure: the port is bound, is the pane's already, or is refused.
OpenEnsure(r) ==
  /\ reqs[r].op = "open" /\ reqs[r].at = "ensuring"
  /\ LET p == reqs[r].pane
         o == reqs[r].port
         checking == Become(r, [reqs[r] EXCEPT !.at = "checking"])
     IN \/ /\ o \notin Bound /\ MayBind(p)
           /\ forwards' = [forwards EXCEPT ![o] = [pane |-> p, sess |-> reqs[r].sess, live |-> 0]]
           /\ checking
        \/ o \in BoundFor(p) /\ ~closed /\ checking /\ UNCHANGED forwards
        \/ o \notin BoundFor(p) /\ Become(r, Idle) /\ UNCHANGED forwards
  /\ UNCHANGED <<configVars, sessionVars, closed, dropped>>

\* Mutant: it is enough that the pane has a session.
StillTheOneAny(q) == sessions[q.pane] # 0

StillTheOne(q) == sessions[q.pane] = q.sess

\* The session may have gone meanwhile.
OpenCheck(r) ==
  /\ reqs[r].op = "open" /\ reqs[r].at = "checking"
  /\ IF StillTheOne(reqs[r]) THEN UNCHANGED forwards ELSE CloseSession(reqs[r].pane)
  /\ Become(r, Idle)
  /\ UNCHANGED <<configVars, sessionVars, closed, dropped>>

\* serve, beginConn, endConn; a forward's connections end with it.
BeginConn(o) ==
  /\ o \in Bound /\ forwards[o].live < MaxLive
  /\ forwards' = [forwards EXCEPT ![o].live = @ + 1]
  /\ UNCHANGED <<configVars, sessionVars, closed, reqs, dropped>>

EndConn(o) ==
  /\ o \in Bound /\ forwards[o].live > 0
  /\ forwards' = [forwards EXCEPT ![o].live = @ - 1]
  /\ UNCHANGED <<configVars, sessionVars, closed, reqs, dropped>>

\* reapExpired, for a forward that was idle for the TTL.
Reap(o) ==
  /\ o \in Bound /\ forwards[o].live = 0
  /\ forwards' = [forwards EXCEPT ![o] = NoForward]
  /\ UNCHANGED <<configVars, sessionVars, closed, reqs, dropped>>

\* Registry.Close, when the server shuts down.
CloseForwards ==
  /\ ~closed /\ closed' = TRUE
  /\ forwards' = [o \in Ports |-> NoForward]
  /\ UNCHANGED <<configVars, sessionVars, reqs, dropped>>

-----------------------------------------------------------------------------
PanesInit ==
  /\ cfg = [items |-> <<FirstWorkspace>>, active |-> FirstWorkspace, look |-> FirstLook,
            layout |-> [w \in Workspaces |-> IF w = FirstWorkspace THEN {FirstPane} ELSE {}],
            mirror |-> {FirstPane}]
  /\ file = Written(cfg)
  /\ sessions = [p \in Panes |-> IF p = FirstPane THEN 1 ELSE 0]
  /\ made = sessions
  /\ running = {<<FirstPane, 1>>}
  /\ forwards = [o \in Ports |-> NoForward] /\ closed = FALSE
  /\ reqs = [r \in Requests |-> Idle]
  /\ dropped = {}

Layouts ==
  \/ PutLayout \/ Rollback
  \/ \E w \in Workspaces : PutWorkspaceLayout(w) \/ PutActiveWorkspace(w)
  \/ \E look \in Looks : PutLook(look)

Serve(r) ==
  \/ PostSessionEnd(r)
  \/ DeleteSessionRemove(r) \/ DeleteSessionClose(r)
  \/ RestartCreate(r) \/ RestartClose(r) \/ RestartAdd(r)
  \/ PostWorkspaceCreate(r) \/ PostWorkspaceSave(r)
  \/ DeleteWorkspaceRemove(r)
  \/ OpenEnsure(r) \/ OpenCheck(r)

Accept(r) ==
  \/ \E p \in Panes :
       \/ PostSession(r, p) \/ DeleteSession(r, p) \/ RestartSession(r, p)
       \/ \E w \in Workspaces : PostWorkspace(r, w, p)
       \/ \E o \in Ports : PostOpenURL(r, p, o)
  \/ \E w \in Workspaces : DeleteWorkspace(r, w)

Forwarding ==
  \/ CloseForwards
  \/ \E o \in Ports : BeginConn(o) \/ EndConn(o) \/ Reap(o)

PanesNext == Layouts \/ Forwarding \/ \E r \in Requests : Accept(r) \/ Serve(r)

PanesSpec == PanesInit /\ [][PanesNext]_panesVars

-----------------------------------------------------------------------------
RequestType ==
  {Idle} \cup [op : {"post"}, pane : Panes]
    \cup [op : {"delete"}, at : {"removing", "closing"}, pane : Panes]
    \cup [op : {"restart"}, at : {"creating", "closing", "adding"}, pane : Panes, sess : Nat]
    \cup [op : {"open"}, at : {"ensuring", "checking"}, pane : Panes, sess : Nat, port : Ports]
    \cup [op : {"addWorkspace"}, at : {"creating", "saving"}, pane : Panes, before : Configs]
    \cup [op : {"deleteWorkspace"}, left : SUBSET Panes]

PanesTypeOK ==
  /\ cfg \in Configs
  /\ file \in [items : Seq(Workspaces), active : Workspaces, look : Looks,
               layout : [Workspaces -> SUBSET Panes]]
  /\ sessions \in [Panes -> Nat] /\ made \in [Panes -> Nat]
  /\ running \in SUBSET (Panes \X Nat)
  /\ forwards \in [Ports -> {NoForward} \cup [pane : Panes, sess : Nat, live : Nat]]
  /\ closed \in BOOLEAN
  /\ reqs \in [Requests -> RequestType]
  /\ dropped \in SUBSET (Panes \X Nat)

\* Issue 204's rule: what panemux runs is what it said was saved.  While no
\* request is between its snapshot and its save the file holds the running
\* configuration, the top-level layout mirrors the active workspace, and the
\* file loads again (but for the pane IDs).
SavedIsRunning ==
  /\ Unlocked => file = Written(cfg)
  /\ HasWorkspace(cfg, cfg.active) /\ cfg.mirror = cfg.layout[cfg.active]
  /\ Loads(file)

\* A restart made the session and has still to add it.
InHand(p, n) ==
  \E r \in Requests : /\ reqs[r].op = "restart" /\ reqs[r].at \in {"closing", "adding"}
                      /\ reqs[r].pane = p /\ reqs[r].sess = n

\* No session is lost: one that runs is registered, where its pane's close
\* finds it, or about to be; one that was closed is not.  A pane name that
\* the server gives again while a restart of it is under way is no such case.
NoSessionLost ==
  /\ \A x \in running :
       x[1] \notin Generated => sessions[x[1]] = x[2] \/ InHand(x[1], x[2])
  /\ \A p \in Panes : sessions[p] # 0 => <<p, sessions[p]>> \in running

\* A request will close the pane's forwards.
Closing(p) ==
  \E r \in Requests :
    /\ reqs[r].op \in {"delete", "restart", "open"} /\ reqs[r].pane = p
    /\ \/ reqs[r].op # "open" /\ reqs[r].at = "closing"
       \/ reqs[r].op = "open" /\ reqs[r].at = "checking" /\ ~StillTheOne(reqs[r])

\* A forward dials a session that runs, or is about to be closed; those of a
\* deleted workspace's sessions are left to the reaper.  After Close there
\* are none.
ForwardsFollowSessions ==
  /\ \A o \in Bound :
       LET x == <<forwards[o].pane, forwards[o].sess>>
       IN x \in running \cup dropped \/ Closing(forwards[o].pane)
  /\ closed => Bound = {}


\* A pane's session and what was made for it go together (DeleteSession,
\* RestartSession, PostOpenURL).
SessionsKept == NoSessionLost /\ ForwardsFollowSessions
=============================================================================
