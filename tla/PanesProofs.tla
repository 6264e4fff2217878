----------------------------- MODULE PanesProofs -----------------------------
(***************************************************************************)
(* What the pane and workspace routes guarantee for any panes, workspaces  *)
(* and requests: panemux runs the configuration it saved, no session is    *)
(* lost, and a forward never outlives its session unnoticed.               *)
(*                                                                         *)
(* First the operators of PaneConfig: each keeps a configuration sound,    *)
(* that is, one that loads again and whose top-level layout mirrors the    *)
(* active workspace.  Last the output a session keeps for its pane, in the *)
(* ring of ReplayBuffer.                                                   *)
(***************************************************************************)
EXTENDS Panes, ReplayBuffer, SequenceTheorems, TLAPS

Sound(c) ==
  /\ c \in Configs
  /\ IsInjective(c.items) /\ HasWorkspace(c, c.active)
  /\ c.mirror = c.layout[c.active]

\* The panes in a configuration's layouts were made, or named by the server.
Known(c) == \A w \in Workspaces : \A p \in c.layout[w] : p \in Generated \/ made[p] > 0

-----------------------------------------------------------------------------
(* The operators of PaneConfig                                             *)

LEMMA ItemsParts ==
  ASSUME NEW c \in Configs
  PROVE  /\ Len(c.items) \in Nat /\ DOMAIN c.items = 1 .. Len(c.items)
         /\ \A i \in 1 .. Len(c.items) : c.items[i] \in Workspaces
BY LenProperties, ElementOfSeq DEF Configs

\* A configuration by its parts.
LEMMA ConfigParts ==
  ASSUME NEW items \in Seq(Workspaces), NEW active \in Workspaces, NEW look \in Looks,
         NEW layout \in [Workspaces -> SUBSET Panes], NEW mirror \in SUBSET Panes,
         NEW c, c = [items |-> items, active |-> active, look |-> look, layout |-> layout,
                     mirror |-> mirror]
  PROVE  c \in Configs
BY DEF Configs

\* normalizeWorkspaces finds nothing to mend in a sound configuration.
LEMMA NormalizeSound ==
  ASSUME NEW c, Sound(c) PROVE NormalizeWorkspaces(c) = c
BY DEF Sound, NormalizeWorkspaces, Configs

\* and mends a stale top-level layout.
LEMMA NormalizeMends ==
  ASSUME NEW c \in Configs, IsInjective(c.items), HasWorkspace(c, c.active)
  PROVE  /\ Sound(NormalizeWorkspaces(c))
         /\ NormalizeWorkspaces(c).layout = c.layout
<1>1. NormalizeWorkspaces(c) = [c EXCEPT !.mirror = c.layout[c.active]]
  BY DEF NormalizeWorkspaces
<1>2. c.layout[c.active] \in SUBSET Panes
  BY DEF Configs
<1>3. [c EXCEPT !.mirror = c.layout[c.active]] \in Configs
  BY <1>2 DEF Configs
<1> QED BY <1>1, <1>3 DEF Sound, HasWorkspace, Configs

LEMMA SetActiveSound ==
  ASSUME NEW c, Sound(c), NEW w \in Workspaces, HasWorkspace(c, w)
  PROVE  Sound(SetActiveWorkspace(c, w)) /\ SetActiveWorkspace(c, w).layout = c.layout
<1>1. c.layout[w] \in SUBSET Panes
  BY DEF Sound, Configs
<1>2. SetActiveWorkspace(c, w) \in Configs
  BY <1>1 DEF Sound, Configs, SetActiveWorkspace
<1> QED BY <1>2 DEF Sound, HasWorkspace, SetActiveWorkspace, Configs

LEMMA UpdateWorkspaceSound ==
  ASSUME NEW c, Sound(c), NEW w \in Workspaces, NEW panes \in SUBSET Panes
  PROVE  /\ Sound(UpdateWorkspaceLayout(c, w, panes))
         /\ UpdateWorkspaceLayout(c, w, panes).layout = [c.layout EXCEPT ![w] = panes]
<1>1. UpdateWorkspaceLayout(c, w, panes) \in Configs
  BY DEF Sound, Configs, UpdateWorkspaceLayout
<1> QED BY <1>1 DEF Sound, HasWorkspace, UpdateWorkspaceLayout, Configs

LEMMA UpdateSound ==
  ASSUME NEW c, Sound(c), NEW panes \in SUBSET Panes
  PROVE  /\ Sound(UpdateLayout(c, panes))
         /\ UpdateLayout(c, panes).layout = [c.layout EXCEPT ![c.active] = panes]
BY UpdateWorkspaceSound DEF UpdateLayout, Sound, Configs

LEMMA RemovePaneSound ==
  ASSUME NEW c, Sound(c), NEW p \in Panes
  PROVE  /\ Sound(RemovePaneFromLayout(c, p))
         /\ \A w \in Workspaces : RemovePaneFromLayout(c, p).layout[w] \subseteq c.layout[w]
<1> DEFINE d == [c EXCEPT !.layout = [w \in Workspaces |-> @[w] \ {p}]]
<1>1. d \in Configs /\ d.items = c.items /\ d.active = c.active
  BY DEF Sound, Configs
<1>2. d.layout = [w \in Workspaces |-> c.layout[w] \ {p}]
  BY DEF Sound, Configs
<1>3. RemovePaneFromLayout(c, p) = NormalizeWorkspaces(d)
  BY DEF RemovePaneFromLayout
<1>4. IsInjective(d.items) /\ HasWorkspace(d, d.active)
  BY <1>1 DEF Sound, HasWorkspace
<1> HIDE DEF d
<1> QED BY <1>1, <1>2, <1>3, <1>4, NormalizeMends

LEMMA AddSound ==
  ASSUME NEW c, Sound(c), NEW w \in Workspaces, ~HasWorkspace(c, w), NEW p \in Panes
  PROVE  /\ Sound(AddDefaultWorkspace(c, w, p))
         /\ AddDefaultWorkspace(c, w, p).layout = [c.layout EXCEPT ![w] = {p}]
<1> DEFINE n == Len(c.items)
<1> DEFINE d == AddDefaultWorkspace(c, w, p)
<1>1. c \in Configs /\ c.items \in Seq(Workspaces)
  BY DEF Sound, Configs
<1>2. /\ Append(c.items, w) \in Seq(Workspaces)
      /\ Len(Append(c.items, w)) = n + 1
      /\ \A i \in 1 .. n : Append(c.items, w)[i] = c.items[i]
      /\ Append(c.items, w)[n + 1] = w
  BY <1>1, AppendProperties
<1>3. n \in Nat /\ DOMAIN c.items = 1 .. n /\ DOMAIN Append(c.items, w) = 1 .. (n + 1)
  BY <1>1, <1>2, LenProperties
<1>4. \A i \in 1 .. n : c.items[i] # w
  BY <1>3 DEF HasWorkspace, ToSet
<1>5. d \in Configs
  BY <1>1, <1>2 DEF AddDefaultWorkspace, Configs
<1>6. /\ d.items = Append(c.items, w) /\ d.active = w
      /\ d.layout = [c.layout EXCEPT ![w] = {p}] /\ d.mirror = {p}
  BY <1>1 DEF AddDefaultWorkspace, Configs
<1>7. IsInjective(d.items)
  <2> SUFFICES ASSUME NEW i \in 1 .. (n + 1), NEW j \in 1 .. (n + 1),
                      Append(c.items, w)[i] = Append(c.items, w)[j]
               PROVE  i = j
    BY <1>3, <1>6 DEF IsInjective
  <2>1. \A k \in 1 .. (n + 1) : k \in 1 .. n \/ k = n + 1
    BY <1>3
  <2>2. \A k, l \in 1 .. n : c.items[k] = c.items[l] => k = l
    BY <1>3 DEF Sound, IsInjective
  <2> QED BY <1>2, <1>4, <2>1, <2>2
<1>8. HasWorkspace(d, d.active)
  BY <1>2, <1>3, <1>6 DEF HasWorkspace, ToSet
<1>9. d.mirror = d.layout[d.active]
  BY <1>1, <1>6 DEF Configs
<1> QED BY <1>5, <1>6, <1>7, <1>8, <1>9 DEF Sound

LEMMA IndexThere ==
  ASSUME NEW c \in Configs, NEW w, HasWorkspace(c, w)
  PROVE  IndexOfWorkspace(c, w) \in 1 .. Len(c.items) /\ c.items[IndexOfWorkspace(c, w)] = w
BY ItemsParts DEF HasWorkspace, ToSet, IndexOfWorkspace

\* The list without one of its places: what it holds, and where that was.
LEMMA ItemsWithoutParts ==
  ASSUME NEW c \in Configs, NEW w, HasWorkspace(c, w)
  PROVE  LET i    == IndexOfWorkspace(c, w)
             left == ItemsWithout(c, w)
         IN /\ left \in Seq(Workspaces) /\ Len(left) = Len(c.items) - 1
            /\ \A j \in 1 .. Len(left) : left[j] = c.items[IF j < i THEN j ELSE j + 1]
<1> DEFINE i == IndexOfWorkspace(c, w)
<1> DEFINE n == Len(c.items)
<1> DEFINE s == SubSeq(c.items, 1, i - 1)
<1> DEFINE t == SubSeq(c.items, i + 1, n)
<1>1. i \in 1 .. n /\ n \in Nat /\ \A j \in 1 .. n : c.items[j] \in Workspaces
  BY IndexThere, ItemsParts
<1> HIDE DEF i, n
<1>2. /\ s \in Seq(Workspaces) /\ Len(s) = i - 1
      /\ \A j \in 1 .. i - 1 : s[j] = c.items[j]
  <2>1. \A j \in 1 .. i - 1 : c.items[j] \in Workspaces
    BY <1>1
  <2>2. /\ s \in Seq(Workspaces)
        /\ Len(s) = IF 1 <= i - 1 THEN i - 1 - 1 + 1 ELSE 0
        /\ \A j \in 1 .. i - 1 - 1 + 1 : s[j] = c.items[1 + j - 1]
    BY <1>1, <2>1, SubSeqProperties
  <2> HIDE DEF s
  <2> QED BY <1>1, <2>2
<1>3. /\ t \in Seq(Workspaces) /\ Len(t) = n - i
      /\ \A j \in 1 .. n - i : t[j] = c.items[i + j]
  <2>1. \A j \in i + 1 .. n : c.items[j] \in Workspaces
    BY <1>1
  <2>2. /\ t \in Seq(Workspaces)
        /\ Len(t) = IF i + 1 <= n THEN n - (i + 1) + 1 ELSE 0
        /\ \A j \in 1 .. n - (i + 1) + 1 : t[j] = c.items[i + 1 + j - 1]
    BY <1>1, <2>1, SubSeqProperties
  <2> HIDE DEF t
  <2>3. n - (i + 1) + 1 = n - i /\ \A j \in 1 .. n - i : i + 1 + j - 1 = i + j
    BY <1>1
  <2> QED BY <1>1, <2>2, <2>3
<1>4. ItemsWithout(c, w) = s \o t
  BY DEF ItemsWithout, RemoveAt, i, n
<1> HIDE DEF s, t
<1>5. /\ s \o t \in Seq(Workspaces) /\ Len(s \o t) = (i - 1) + (n - i)
      /\ \A j \in 1 .. (i - 1) + (n - i) : (s \o t)[j] = IF j <= i - 1 THEN s[j] ELSE t[j - (i - 1)]
  <2>1. /\ s \o t \in Seq(Workspaces) /\ Len(s \o t) = Len(s) + Len(t)
        /\ \A j \in 1 .. Len(s) + Len(t) : (s \o t)[j] = IF j <= Len(s) THEN s[j] ELSE t[j - Len(s)]
    BY <1>2, <1>3, ConcatProperties
  <2>2. Len(s) = i - 1 /\ Len(t) = n - i
    BY <1>2, <1>3
  <2> QED BY <2>1, <2>2
<1>6. Len(s \o t) = n - 1
  BY <1>1, <1>5
<1>7. ASSUME NEW j \in 1 .. n - 1
      PROVE  (s \o t)[j] = c.items[IF j < i THEN j ELSE j + 1]
  <2>1. CASE j < i
    BY <1>1, <1>2, <1>5, <2>1
  <2>2. CASE ~(j < i)
    <3>1. (s \o t)[j] = t[j - (i - 1)] /\ j - (i - 1) \in 1 .. n - i
      BY <1>1, <1>5, <2>2
    <3>2. t[j - (i - 1)] = c.items[i + (j - (i - 1))] /\ i + (j - (i - 1)) = j + 1
      BY <1>1, <1>3, <3>1
    <3> QED BY <2>2, <3>1, <3>2
  <2> QED BY <2>1, <2>2
<1> QED BY <1>4, <1>5, <1>6, <1>7 DEF i, n

\* What is left has no workspace twice, and of more than one, one is active.
LEMMA NextActiveThere ==
  ASSUME NEW c, Sound(c), NEW w \in Workspaces, HasWorkspace(c, w), NotLast(c)
  PROVE  /\ ItemsWithout(c, w) \in Seq(Workspaces) /\ IsInjective(ItemsWithout(c, w))
         /\ NextActive(c, w) \in ToSet(ItemsWithout(c, w))
<1> DEFINE i    == IndexOfWorkspace(c, w)
<1> DEFINE n    == Len(c.items)
<1> DEFINE left == ItemsWithout(c, w)
<1>1. c \in Configs /\ n \in Nat /\ n > 1 /\ DOMAIN c.items = 1 .. n
  BY ItemsParts DEF Sound, NotLast
<1>2. i \in 1 .. n /\ c.items[i] = w
  BY <1>1, IndexThere
<1>3. /\ left \in Seq(Workspaces) /\ Len(left) = n - 1
      /\ \A j \in 1 .. n - 1 : left[j] = c.items[IF j < i THEN j ELSE j + 1]
  BY <1>1, ItemsWithoutParts
<1> HIDE DEF i, n, left
<1>4. DOMAIN left = 1 .. n - 1 /\ left # <<>>
  BY <1>1, <1>3, LenProperties, EmptySeq
<1>5. \A j, k \in 1 .. n : c.items[j] = c.items[k] => j = k
  BY <1>1 DEF Sound, IsInjective
<1>6. IsInjective(left)
  <2> SUFFICES ASSUME NEW j \in 1 .. n - 1, NEW k \in 1 .. n - 1, left[j] = left[k]
               PROVE  j = k
    BY <1>4 DEF IsInjective
  <2> DEFINE to(l) == IF l < i THEN l ELSE l + 1
  <2>1. to(j) \in 1 .. n /\ to(k) \in 1 .. n
    BY <1>1, <1>2
  <2>2. c.items[to(j)] = c.items[to(k)]
    BY <1>3
  <2>3. to(j) = to(k)
    BY <1>5, <2>1, <2>2
  <2> QED BY <1>1, <1>2, <2>3
<1>7. NextActive(c, w) \in ToSet(left)
  <2>1. CASE c.active # w
    <3>1. PICK k \in 1 .. n : c.items[k] = c.active
      BY <1>1 DEF Sound, HasWorkspace, ToSet
    <3>2. k # i
      BY <1>2, <2>1, <3>1
    <3>3. \E j \in 1 .. n - 1 : left[j] = c.active
      <4>1. CASE k < i
        BY <1>1, <1>2, <1>3, <3>1, <4>1
      <4>2. CASE k > i
        <5>1. k - 1 \in 1 .. n - 1 /\ ~(k - 1 < i) /\ (k - 1) + 1 = k
          BY <1>1, <1>2, <4>2
        <5>2. left[k - 1] = c.items[(k - 1) + 1]
          BY <1>3, <5>1
        <5> QED BY <3>1, <5>1, <5>2
      <4> QED BY <1>1, <1>2, <3>2, <4>1, <4>2
    <3> QED BY <1>4, <2>1, <3>3 DEF NextActive, ToSet
  <2>2. CASE c.active = w
    <3>1. NextActive(c, w) = left[IF i <= Len(left) THEN i ELSE Len(left)]
      BY <1>4, <2>2 DEF NextActive, left, i
    <3>2. (IF i <= Len(left) THEN i ELSE Len(left)) \in 1 .. n - 1
      BY <1>1, <1>2, <1>3
    <3> QED BY <1>4, <3>1, <3>2 DEF ToSet
  <2> QED BY <2>1, <2>2
<1> QED BY <1>3, <1>6, <1>7 DEF left

LEMMA RemoveWorkspaceSound ==
  ASSUME NEW c, Sound(c), NEW w \in Workspaces, HasWorkspace(c, w), NotLast(c)
  PROVE  /\ Sound(RemoveWorkspace(c, w))
         /\ RemoveWorkspace(c, w).layout = [c.layout EXCEPT ![w] = {}]
<1> DEFINE d == [c EXCEPT !.items = ItemsWithout(c, w), !.active = NextActive(c, w), !.layout[w] = {}]
<1>1. c \in Configs
  BY DEF Sound
<1>2. /\ ItemsWithout(c, w) \in Seq(Workspaces) /\ IsInjective(ItemsWithout(c, w))
      /\ NextActive(c, w) \in ToSet(ItemsWithout(c, w))
  BY NextActiveThere
<1>3. NextActive(c, w) \in Workspaces
  <2>1. PICK j \in DOMAIN ItemsWithout(c, w) : NextActive(c, w) = ItemsWithout(c, w)[j]
    BY <1>2 DEF ToSet
  <2> QED BY <1>2, <2>1, LenProperties, ElementOfSeq
<1>4. /\ d \in Configs /\ d.items = ItemsWithout(c, w) /\ d.active = NextActive(c, w)
      /\ d.layout = [c.layout EXCEPT ![w] = {}]
  BY <1>1, <1>2, <1>3 DEF Configs
<1>5. RemoveWorkspace(c, w) = NormalizeWorkspaces(d)
  BY DEF RemoveWorkspace
<1> HIDE DEF d
<1>6. IsInjective(d.items) /\ HasWorkspace(d, d.active)
  BY <1>2, <1>4 DEF HasWorkspace
<1> QED BY <1>4, <1>5, <1>6, NormalizeMends

-----------------------------------------------------------------------------
(* Requests                                                                *)

\* A request by what it is.
LEMMA RequestForms ==
  ASSUME NEW q \in RequestType
  PROVE  /\ q.op \in {"none", "post", "delete", "restart", "open", "addWorkspace", "deleteWorkspace"}
         /\ q.op = "post" => q \in [op : {"post"}, pane : Panes]
         /\ q.op = "delete" => q \in [op : {"delete"}, at : {"removing", "closing"}, pane : Panes]
         /\ q.op = "restart" =>
              q \in [op : {"restart"}, at : {"creating", "closing", "adding"}, pane : Panes, sess : Nat]
         /\ q.op = "open" =>
              q \in [op : {"open"}, at : {"ensuring", "checking"}, pane : Panes, sess : Nat, port : Ports]
         /\ q.op = "addWorkspace" =>
              q \in [op : {"addWorkspace"}, at : {"creating", "saving"}, pane : Panes, before : Configs]
         /\ q.op = "deleteWorkspace" => q \in [op : {"deleteWorkspace"}, left : SUBSET Panes]
BY DEF RequestType, Idle

\* How a request goes on: it is of the same route and for the same pane.
LEMMA DeleteGoesOn ==
  ASSUME NEW q \in RequestType, q.op = "delete"
  PROVE  LET m == [q EXCEPT !.at = "closing"] IN
         m \in RequestType /\ m.op = "delete" /\ m.at = "closing" /\ m.pane = q.pane
BY RequestForms DEF RequestType

LEMMA RestartMakes ==
  ASSUME NEW q \in RequestType, q.op = "restart", NEW n \in Nat
  PROVE  LET m == [q EXCEPT !.at = "closing", !.sess = n] IN
         m \in RequestType /\ m.op = "restart" /\ m.at = "closing" /\ m.pane = q.pane /\ m.sess = n
<1>1. q \in [op : {"restart"}, at : {"creating", "closing", "adding"}, pane : Panes, sess : Nat]
  BY RequestForms
<1> QED BY <1>1 DEF RequestType

LEMMA RestartNumbered ==
  ASSUME NEW q \in RequestType, q.op = "restart"
  PROVE  \A n \in Nat : LET m == [q EXCEPT !.at = "closing", !.sess = n] IN
           m \in RequestType /\ m.op = "restart" /\ m.at = "closing" /\ m.pane = q.pane /\ m.sess = n
BY RestartMakes

LEMMA RestartGoesOn ==
  ASSUME NEW q \in RequestType, q.op = "restart"
  PROVE  LET m == [q EXCEPT !.at = "adding"] IN
         m \in RequestType /\ m.op = "restart" /\ m.at = "adding" /\ m.pane = q.pane /\ m.sess = q.sess
<1>1. q \in [op : {"restart"}, at : {"creating", "closing", "adding"}, pane : Panes, sess : Nat]
  BY RequestForms
<1> QED BY <1>1 DEF RequestType

LEMMA OpenGoesOn ==
  ASSUME NEW q \in RequestType, q.op = "open"
  PROVE  LET m == [q EXCEPT !.at = "checking"] IN
         /\ m \in RequestType /\ m.op = "open" /\ m.at = "checking"
         /\ m.pane = q.pane /\ m.sess = q.sess /\ m.port = q.port
<1>1. q \in [op : {"open"}, at : {"ensuring", "checking"}, pane : Panes, sess : Nat, port : Ports]
  BY RequestForms
<1> QED BY <1>1 DEF RequestType

LEMMA AddGoesOn ==
  ASSUME NEW q \in RequestType, q.op = "addWorkspace"
  PROVE  LET m == [q EXCEPT !.at = "saving"] IN
         /\ m \in RequestType /\ m.op = "addWorkspace" /\ m.at = "saving"
         /\ m.pane = q.pane /\ m.before = q.before
<1>1. q \in [op : {"addWorkspace"}, at : {"creating", "saving"}, pane : Panes, before : Configs]
  BY RequestForms
<1> QED BY <1>1 DEF RequestType

LEMMA DeleteWorkspaceGoesOn ==
  ASSUME NEW q \in RequestType, q.op = "deleteWorkspace", NEW p
  PROVE  LET m == [q EXCEPT !.left = @ \ {p}] IN m \in RequestType /\ m.op = "deleteWorkspace"
<1>1. q \in [op : {"deleteWorkspace"}, left : SUBSET Panes]
  BY RequestForms
<1> QED BY <1>1 DEF RequestType

LEMMA RequestsStart ==
  /\ Idle \in RequestType /\ Idle.op = "none"
  /\ \A p \in Panes :
       /\ [op |-> "post", pane |-> p] \in RequestType
       /\ [op |-> "delete", at |-> "removing", pane |-> p] \in RequestType
       /\ [op |-> "restart", at |-> "creating", pane |-> p, sess |-> 0] \in RequestType
       /\ \A n \in Nat, o \in Ports :
            [op |-> "open", at |-> "ensuring", pane |-> p, sess |-> n, port |-> o] \in RequestType
       /\ \A c \in Configs : [op |-> "addWorkspace", at |-> "creating", pane |-> p, before |-> c] \in RequestType
  /\ \A ps \in SUBSET Panes : [op |-> "deleteWorkspace", left |-> ps] \in RequestType
BY DEF RequestType, Idle

-----------------------------------------------------------------------------
(* The configuration that runs                                             *)

Locks(r) == reqs[r].op \in {"addWorkspace", "deleteWorkspace"}

\* One request at a time holds cfgMu between two steps.  The file holds the
\* configuration that runs, or the one a workspace is being added to.
ConfigInv ==
  /\ Sound(cfg)
  /\ \A r, q \in Requests : Locks(r) /\ Locks(q) => r = q
  /\ \A r \in Requests :
       reqs[r].op = "addWorkspace" => Sound(reqs[r].before) /\ file = Written(reqs[r].before)
  /\ (\A r \in Requests : reqs[r].op # "addWorkspace") => file = Written(cfg)

LEMMA SoundLoads == ASSUME NEW c, Sound(c) PROVE Loads(Written(c))
<1>1. Written(c).items = c.items /\ Written(c).active = c.active
  BY DEF Written
<1>2. c.items # <<>>
  BY DEF Sound, HasWorkspace, ToSet
<1> QED BY <1>1, <1>2 DEF Sound, HasWorkspace, Loads

LEMMA ConfigInvSaved == ConfigInv => SavedIsRunning
<1> SUFFICES ASSUME ConfigInv PROVE SavedIsRunning
  OBVIOUS
<1>1. Unlocked => file = Written(cfg)
  BY DEF ConfigInv, Unlocked
<1>2. Loads(file)
  <2>1. CASE \A r \in Requests : reqs[r].op # "addWorkspace"
    BY <2>1, SoundLoads DEF ConfigInv
  <2>2. CASE \E r \in Requests : reqs[r].op = "addWorkspace"
    BY <2>2, SoundLoads DEF ConfigInv
  <2> QED BY <2>1, <2>2
<1> QED BY <1>1, <1>2 DEF SavedIsRunning, ConfigInv, Sound

\* A route that saves a sound configuration while nobody holds cfgMu.
LEMMA SavedKeeps ==
  ASSUME PanesTypeOK, ConfigInv, Unlocked, NEW c, Sound(c), Saved(c),
         \A r \in Requests : reqs'[r].op # "addWorkspace",
         \A r, q \in Requests : Locks(r)' /\ Locks(q)' => r = q
  PROVE  ConfigInv'
<1>1. cfg' = c /\ file' = Written(c)
  BY NormalizeSound DEF Saved
<1> QED BY <1>1 DEF ConfigInv, Sound, HasWorkspace

\* A route that leaves the configuration alone and takes no lock.
Calm(r, q) ==
  /\ Become(r, q)
  /\ reqs[r].op # "addWorkspace" /\ q.op # "addWorkspace"
  /\ q.op = "deleteWorkspace" => reqs[r].op = "deleteWorkspace"

LEMMA CalmKeeps ==
  ASSUME PanesTypeOK, ConfigInv, UNCHANGED configVars,
         reqs' = reqs \/ \E r \in Requests : \E q \in RequestType : Calm(r, q)
  PROVE  ConfigInv'
<1>0. cfg' = cfg /\ file' = file
  BY DEF configVars
<1>1. CASE reqs' = reqs
  BY <1>0, <1>1 DEF ConfigInv, Sound, HasWorkspace, Locks
<1>2. ASSUME NEW r \in Requests, NEW q \in RequestType, Calm(r, q) PROVE ConfigInv'
  <2>1. reqs' = [reqs EXCEPT ![r] = q] /\ reqs \in [Requests -> RequestType]
    BY <1>2 DEF Calm, Become, PanesTypeOK
  <2>2. \A s \in Requests : /\ Locks(s)' => Locks(s)
                            /\ reqs'[s].op = "addWorkspace" <=> reqs[s].op = "addWorkspace"
                            /\ reqs'[s].op = "addWorkspace" => reqs'[s] = reqs[s]
    BY <1>2, <2>1 DEF Calm, Locks
  <2> QED BY <1>0, <2>2 DEF ConfigInv, Sound, HasWorkspace
<1> QED BY <1>1, <1>2

LEMMA LayoutsConfig ==
  ASSUME PanesTypeOK, ConfigInv, Layouts PROVE ConfigInv'
<1>0. Sound(cfg)
  BY DEF ConfigInv
<1>1. ASSUME NEW c, Sound(c), Configure(c) PROVE ConfigInv'
  <2>1. Unlocked /\ Saved(c) /\ reqs' = reqs
    BY <1>1 DEF Configure
  <2> QED BY <1>1, <2>1, SavedKeeps DEF Unlocked, Locks
<1>2. CASE PutLayout
  <2>1. PICK ps \in Shown : Configure(UpdateLayout(cfg, ps))
    BY <1>2 DEF PutLayout
  <2>2. ps \in SUBSET Panes
    BY DEF Shown
  <2> QED BY <1>0, <1>1, <2>1, <2>2, UpdateSound
<1>3. CASE Rollback
  BY <1>3, CalmKeeps DEF Rollback, Restored
<1>4. ASSUME NEW w \in Workspaces, PutWorkspaceLayout(w) PROVE ConfigInv'
  <2>1. PICK ps \in Shown : Configure(UpdateWorkspaceLayout(cfg, w, ps))
    BY <1>4 DEF PutWorkspaceLayout
  <2>2. ps \in SUBSET Panes
    BY DEF Shown
  <2> QED BY <1>0, <1>1, <2>1, <2>2, UpdateWorkspaceSound
<1>5. ASSUME NEW w \in Workspaces, PutActiveWorkspace(w) PROVE ConfigInv'
  BY <1>0, <1>1, <1>5, SetActiveSound DEF PutActiveWorkspace
<1>6. ASSUME NEW look \in Looks, PutLook(look) PROVE ConfigInv'
  <2> DEFINE d == [cfg EXCEPT !.look = look]
  <2>1. Sound(d)
    BY <1>0 DEF Sound, Configs, HasWorkspace
  <2>2. NormalizeWorkspaces(d) = d
    BY <2>1, NormalizeSound
  <2>3. Configure(d)
    BY <1>6, <2>2 DEF PutLook
  <2> HIDE DEF d
  <2> QED BY <1>1, <2>1, <2>3
<1> QED BY <1>2, <1>3, <1>4, <1>5, <1>6 DEF Layouts

\* The routes that finish without touching the configuration.
LEMMA ServeCalm ==
  ASSUME PanesTypeOK, NEW r \in Requests,
         \/ PostSessionEnd(r) \/ DeleteSessionRemove(r) \/ DeleteSessionClose(r)
         \/ RestartCreate(r) \/ RestartClose(r) \/ RestartAdd(r)
         \/ DeleteWorkspaceRemove(r) \/ OpenEnsure(r) \/ OpenCheck(r)
  PROVE  UNCHANGED configVars /\ \E q \in RequestType : Calm(r, q)
<1>0. reqs[r] \in RequestType
  BY DEF PanesTypeOK
<1>1. CASE \/ PostSessionEnd(r) \/ DeleteSessionClose(r) \/ RestartAdd(r) \/ OpenCheck(r)
  <2>1. UNCHANGED configVars /\ Become(r, Idle) /\ reqs[r].op # "addWorkspace"
    BY <1>1 DEF PostSessionEnd, DeleteSessionClose, RestartAdd, OpenCheck
  <2> QED BY <2>1, RequestsStart DEF Calm
<1>2. CASE DeleteSessionRemove(r)
  <2>1. UNCHANGED configVars /\ reqs[r].op = "delete" /\ Become(r, [reqs[r] EXCEPT !.at = "closing"])
    BY <1>2 DEF DeleteSessionRemove
  <2> QED BY <1>0, <2>1, DeleteGoesOn DEF Calm
<1>3. CASE RestartCreate(r)
  <2>1. UNCHANGED configVars /\ reqs[r].op = "restart"
    BY <1>3 DEF RestartCreate
  <2>2. \/ Become(r, Idle)
        \/ Become(r, [reqs[r] EXCEPT !.at = "closing", !.sess = Number(reqs[r].pane)])
    BY <1>3 DEF RestartCreate
  <2>3. Number(reqs[r].pane) \in Nat
    BY <1>0, <2>1, RequestForms DEF Number, PanesTypeOK
  <2> QED BY <1>0, <2>1, <2>2, <2>3, RestartMakes, RequestsStart DEF Calm
<1>4. CASE RestartClose(r)
  <2>1. UNCHANGED configVars /\ reqs[r].op = "restart" /\ Become(r, [reqs[r] EXCEPT !.at = "adding"])
    BY <1>4 DEF RestartClose
  <2> QED BY <1>0, <2>1, RestartGoesOn DEF Calm
<1>5. CASE DeleteWorkspaceRemove(r)
  <2>1. UNCHANGED configVars /\ reqs[r].op = "deleteWorkspace"
    BY <1>5 DEF DeleteWorkspaceRemove
  <2>2. Become(r, Idle) \/ \E p : Become(r, [reqs[r] EXCEPT !.left = @ \ {p}])
    BY <1>5 DEF DeleteWorkspaceRemove
  <2> QED BY <1>0, <2>1, <2>2, DeleteWorkspaceGoesOn, RequestsStart DEF Calm
<1>6. CASE OpenEnsure(r)
  <2>1. UNCHANGED configVars /\ reqs[r].op = "open"
    BY <1>6 DEF OpenEnsure
  <2>2. Become(r, Idle) \/ Become(r, [reqs[r] EXCEPT !.at = "checking"])
    BY <1>6 DEF OpenEnsure
  <2> QED BY <1>0, <2>1, <2>2, OpenGoesOn, RequestsStart DEF Calm
<1> QED BY <1>1, <1>2, <1>3, <1>4, <1>5, <1>6

\* Adding a workspace: the configuration is what was saved, with it.
LEMMA AddConfig ==
  ASSUME PanesTypeOK, ConfigInv, NEW r \in Requests, PostWorkspaceCreate(r) \/ PostWorkspaceSave(r)
  PROVE  ConfigInv'
<1> DEFINE b == reqs[r].before
<1>0. /\ reqs[r].op = "addWorkspace" /\ reqs[r] \in RequestType
      /\ Sound(cfg) /\ Sound(b) /\ file = Written(b)
      /\ \A q \in Requests : Locks(q) => q = r
      /\ reqs \in [Requests -> RequestType]
  BY DEF PostWorkspaceCreate, PostWorkspaceSave, PanesTypeOK, ConfigInv, Locks
<1>1. ASSUME Become(r, Idle)
      PROVE  \A q \in Requests : reqs'[q].op # "addWorkspace" /\ ~Locks(q)'
  BY <1>0, <1>1, RequestsStart DEF Become, Locks
<1>2. CASE cfg' = b /\ file' = file /\ Become(r, Idle)
  BY <1>0, <1>1, <1>2 DEF ConfigInv, Sound, HasWorkspace
<1>3. CASE Saved(cfg) /\ Become(r, Idle)
  <2>1. cfg' = cfg /\ file' = Written(cfg)
    BY <1>0, <1>3, NormalizeSound DEF Saved
  <2> QED BY <1>0, <1>1, <1>3, <2>1 DEF ConfigInv, Sound, HasWorkspace
<1>4. CASE Become(r, [reqs[r] EXCEPT !.at = "saving"]) /\ UNCHANGED <<cfg, file>>
  <2> DEFINE m == [reqs[r] EXCEPT !.at = "saving"]
  <2>1. m.op = "addWorkspace" /\ m.before = b /\ reqs' = [reqs EXCEPT ![r] = m]
    BY <1>0, <1>4, AddGoesOn DEF Become
  <2> HIDE DEF m
  <2>2. \A q \in Requests : Locks(q)' <=> Locks(q)
    BY <1>0, <2>1 DEF Locks
  <2>3. \A q \in Requests : /\ reqs'[q].op = "addWorkspace" <=> reqs[q].op = "addWorkspace"
                            /\ reqs[q].op = "addWorkspace" => reqs'[q].before = reqs[q].before
    BY <1>0, <2>1
  <2> QED BY <1>4, <2>2, <2>3 DEF ConfigInv, Sound, HasWorkspace
<1>5. \/ cfg' = b /\ file' = file /\ Become(r, Idle)
      \/ Saved(cfg) /\ Become(r, Idle)
      \/ Become(r, [reqs[r] EXCEPT !.at = "saving"]) /\ UNCHANGED <<cfg, file>>
  BY DEF PostWorkspaceCreate, PostWorkspaceSave
<1> QED BY <1>2, <1>3, <1>4, <1>5

LEMMA AcceptConfig ==
  ASSUME PanesTypeOK, ConfigInv, NEW r \in Requests, Accept(r) PROVE ConfigInv'
<1>0. Sound(cfg) /\ cfg \in Configs /\ reqs \in [Requests -> RequestType]
  BY DEF ConfigInv, Sound, PanesTypeOK
<1>1. ASSUME reqs[r] = Idle, NEW q \in RequestType, Become(r, q), q.op \notin {"addWorkspace", "deleteWorkspace"}
      PROVE  Calm(r, q)
  BY <1>1, RequestsStart DEF Calm
<1>2. ASSUME NEW p \in Panes, PostSession(r, p) PROVE ConfigInv'
  BY <1>1, <1>2, RequestsStart, CalmKeeps DEF PostSession
<1>3. ASSUME NEW p \in Panes, RestartSession(r, p) PROVE ConfigInv'
  BY <1>1, <1>3, RequestsStart, CalmKeeps DEF RestartSession
<1>4. ASSUME NEW p \in Panes, NEW o \in Ports, PostOpenURL(r, p, o) PROVE ConfigInv'
  <2>1. sessions[p] \in Nat
    BY DEF PanesTypeOK
  <2> QED BY <1>1, <1>4, <2>1, RequestsStart, CalmKeeps DEF PostOpenURL
<1>5. ASSUME NEW p \in Panes, DeleteSession(r, p) PROVE ConfigInv'
  <2> DEFINE q == [op |-> "delete", at |-> "removing", pane |-> p]
  <2>1. CASE Saved(RemovePaneFromLayout(cfg, p)) /\ Become(r, q)
    <3>1. Unlocked /\ Sound(RemovePaneFromLayout(cfg, p))
      BY <1>0, <1>5, RemovePaneSound DEF DeleteSession
    <3>2. \A s \in Requests : reqs'[s].op # "addWorkspace" /\ ~Locks(s)'
      BY <1>0, <2>1, <3>1 DEF Become, Unlocked, Locks
    <3> QED BY <2>1, <3>1, <3>2, SavedKeeps
  <2>2. CASE Restored(RemovePaneFromLayout(cfg, p)) /\ UNCHANGED reqs
    BY <2>2, CalmKeeps DEF Restored
  <2> QED BY <1>5, <2>1, <2>2 DEF DeleteSession
<1>6. ASSUME NEW p \in Panes, NEW w \in Workspaces, PostWorkspace(r, w, p) PROVE ConfigInv'
  <2> DEFINE q == [op |-> "addWorkspace", at |-> "creating", pane |-> p, before |-> cfg]
  <2>1. /\ Unlocked /\ file' = file /\ reqs' = [reqs EXCEPT ![r] = q]
        /\ cfg' = AddDefaultWorkspace(cfg, w, p) /\ ~HasWorkspace(cfg, w)
    BY <1>0, <1>6, NormalizeSound DEF PostWorkspace, Become
  <2>2. Sound(cfg')
    BY <1>0, <2>1, AddSound
  <2>3. file = Written(cfg)
    BY <2>1 DEF ConfigInv, Unlocked
  <2>4. \A s \in Requests : Locks(s)' => s = r
    BY <1>0, <2>1 DEF Unlocked, Locks
  <2>5. \A s \in Requests : reqs'[s].op = "addWorkspace" => reqs'[s] = q
    BY <1>0, <2>1 DEF Unlocked
  <2>6. reqs'[r] = q /\ q.op = "addWorkspace" /\ q.before = cfg
    BY <1>0, <2>1
  <2> HIDE DEF q
  <2>7. \A s \in Requests : reqs'[s].op = "addWorkspace" => reqs'[s].before = cfg
    BY <2>5, <2>6
  <2>8. Sound(cfg)'
    BY <2>2 DEF Sound, HasWorkspace
  <2>9. ASSUME NEW s \in Requests, reqs'[s].op = "addWorkspace"
        PROVE  Sound(reqs[s].before)' /\ file' = Written(reqs[s].before)'
    <3>1. reqs'[s].before = cfg
      BY <2>7, <2>9
    <3> QED BY <1>0, <2>1, <2>3, <3>1 DEF Sound, HasWorkspace, Written
  <2> QED BY <2>4, <2>6, <2>8, <2>9 DEF ConfigInv
<1>7. ASSUME NEW w \in Workspaces, DeleteWorkspace(r, w) PROVE ConfigInv'
  <2> DEFINE q == [op |-> "deleteWorkspace", left |-> cfg.layout[w]]
  <2>1. CASE Saved(RemoveWorkspace(cfg, w)) /\ Become(r, q)
    <3>1. Unlocked /\ Sound(RemoveWorkspace(cfg, w))
      BY <1>0, <1>7, RemoveWorkspaceSound DEF DeleteWorkspace
    <3>2. \A s \in Requests : reqs'[s].op # "addWorkspace" /\ (Locks(s)' => s = r)
      BY <1>0, <2>1, <3>1 DEF Become, Unlocked, Locks
    <3> QED BY <2>1, <3>1, <3>2, SavedKeeps
  <2>2. CASE Restored(RemoveWorkspace(cfg, w)) /\ UNCHANGED reqs
    BY <2>2, CalmKeeps DEF Restored
  <2> QED BY <1>7, <2>1, <2>2 DEF DeleteWorkspace
<1> QED BY <1>2, <1>3, <1>4, <1>5, <1>6, <1>7 DEF Accept

LEMMA ConfigStep ==
  ASSUME PanesTypeOK, ConfigInv, [PanesNext]_panesVars PROVE ConfigInv'
<1>1. CASE Layouts
  BY <1>1, LayoutsConfig
<1>2. CASE Forwarding \/ UNCHANGED panesVars
  <2>1. UNCHANGED <<configVars, reqs>>
    BY <1>2 DEF Forwarding, CloseForwards, BeginConn, EndConn, Reap, panesVars
  <2> QED BY <2>1, CalmKeeps
<1>3. ASSUME NEW r \in Requests, Accept(r) PROVE ConfigInv'
  BY <1>3, AcceptConfig
<1>4. ASSUME NEW r \in Requests, Serve(r) PROVE ConfigInv'
  <2>1. CASE PostWorkspaceCreate(r) \/ PostWorkspaceSave(r)
    BY <2>1, AddConfig
  <2>2. CASE ~(PostWorkspaceCreate(r) \/ PostWorkspaceSave(r))
    BY <1>4, <2>2, ServeCalm, CalmKeeps DEF Serve
  <2> QED BY <2>1, <2>2
<1> QED BY <1>1, <1>2, <1>3, <1>4 DEF PanesNext

-----------------------------------------------------------------------------
(* Types                                                                   *)

\* Every step leaves the requests alone or takes one of them on.
LEMMA RequestsTyped ==
  ASSUME PanesTypeOK, ConfigInv, [PanesNext]_panesVars PROVE reqs' \in [Requests -> RequestType]
<1>0. reqs \in [Requests -> RequestType] /\ cfg \in Configs /\ sessions \in [Panes -> Nat]
  BY DEF PanesTypeOK
<1>1. ASSUME NEW r \in Requests, NEW q \in RequestType, Become(r, q)
      PROVE  reqs' \in [Requests -> RequestType]
  BY <1>0, <1>1 DEF Become
<1>2. CASE Layouts \/ Forwarding \/ UNCHANGED panesVars
  <2>1. reqs' = reqs
    BY <1>2 DEF Layouts, PutLayout, Configure, Rollback, PutWorkspaceLayout, PutActiveWorkspace, PutLook,
                Forwarding, CloseForwards, BeginConn, EndConn, Reap, panesVars
  <2> QED BY <1>0, <2>1
<1>3. ASSUME NEW r \in Requests, Accept(r) PROVE reqs' \in [Requests -> RequestType]
  <2>1. ASSUME NEW p \in Panes, PostSession(r, p) \/ RestartSession(r, p) \/ DeleteSession(r, p)
        PROVE  reqs' \in [Requests -> RequestType]
    BY <1>0, <1>1, <2>1, RequestsStart DEF PostSession, RestartSession, DeleteSession
  <2>2. ASSUME NEW p \in Panes, NEW w \in Workspaces, PostWorkspace(r, w, p)
        PROVE  reqs' \in [Requests -> RequestType]
    BY <1>0, <1>1, <2>2, RequestsStart DEF PostWorkspace
  <2>3. ASSUME NEW p \in Panes, NEW o \in Ports, PostOpenURL(r, p, o)
        PROVE  reqs' \in [Requests -> RequestType]
    BY <1>0, <1>1, <2>3, RequestsStart DEF PostOpenURL
  <2>4. ASSUME NEW w \in Workspaces, DeleteWorkspace(r, w)
        PROVE  reqs' \in [Requests -> RequestType]
    <3>1. cfg.layout[w] \in SUBSET Panes
      BY <1>0 DEF Configs
    <3> QED BY <1>0, <1>1, <2>4, <3>1, RequestsStart DEF DeleteWorkspace
  <2> QED BY <1>3, <2>1, <2>2, <2>3, <2>4 DEF Accept
<1>4. ASSUME NEW r \in Requests, Serve(r) PROVE reqs' \in [Requests -> RequestType]
  <2>1. CASE PostWorkspaceCreate(r) \/ PostWorkspaceSave(r)
    <3>1. reqs[r].op = "addWorkspace" /\ (Become(r, Idle) \/ Become(r, [reqs[r] EXCEPT !.at = "saving"]))
      BY <2>1 DEF PostWorkspaceCreate, PostWorkspaceSave
    <3> QED BY <1>0, <1>1, <3>1, AddGoesOn, RequestsStart
  <2>2. CASE ~(PostWorkspaceCreate(r) \/ PostWorkspaceSave(r))
    BY <1>1, <1>4, <2>2, ServeCalm DEF Serve, Calm
  <2> QED BY <2>1, <2>2
<1> QED BY <1>2, <1>3, <1>4 DEF PanesNext

\* Request by request: whose pane it is.
LEMMA RequestPane ==
  ASSUME PanesTypeOK, NEW r \in Requests,
         reqs[r].op \in {"post", "delete", "restart", "open", "addWorkspace"}
  PROVE  reqs[r].pane \in Panes
BY RequestForms DEF PanesTypeOK

SessionsTyped ==
  /\ sessions \in [Panes -> Nat] /\ made \in [Panes -> Nat]
  /\ running \in SUBSET (Panes \X Nat) /\ dropped \in SUBSET (Panes \X Nat)

ForwardsTyped == forwards \in [Ports -> {NoForward} \cup [pane : Panes, sess : Nat, live : Nat]]

LEMMA SessionMovesTyped ==
  ASSUME PanesTypeOK, NEW p \in Panes
  PROVE  /\ CreateAndAdd(p) /\ UNCHANGED dropped => SessionsTyped'
         /\ RemoveSession(p) /\ dropped' \in {dropped, dropped \cup {<<p, sessions[p]>>}} => SessionsTyped'
<1>1. Number(p) \in Nat /\ sessions[p] \in Nat
  BY DEF Number, PanesTypeOK
<1>2. ASSUME CreateAndAdd(p), UNCHANGED dropped PROVE SessionsTyped'
  BY <1>1, <1>2 DEF CreateAndAdd, PanesTypeOK, SessionsTyped
<1>3. ASSUME RemoveSession(p), dropped' \in {dropped, dropped \cup {<<p, sessions[p]>>}}
      PROVE  SessionsTyped'
  <2>1. running' \in SUBSET (Panes \X Nat) /\ dropped' \in SUBSET (Panes \X Nat)
    BY <1>1, <1>3 DEF RemoveSession, PanesTypeOK
  <2> QED BY <1>1, <1>3, <2>1 DEF RemoveSession, PanesTypeOK, SessionsTyped
<1> QED BY <1>2, <1>3

LEMMA ServeSessionsTyped ==
  ASSUME PanesTypeOK, NEW r \in Requests, Serve(r) PROVE SessionsTyped'
<1>0. SessionsTyped
  BY DEF PanesTypeOK, SessionsTyped
<1>1. ASSUME UNCHANGED <<sessionVars, dropped>> PROVE SessionsTyped'
  BY <1>0, <1>1 DEF SessionsTyped, sessionVars
<1>2. CASE PostSessionEnd(r)
  <2>1. reqs[r].pane \in Panes
    BY <1>2, RequestPane DEF PostSessionEnd
  <2> QED BY <1>1, <1>2, <2>1, SessionMovesTyped DEF PostSessionEnd
<1>3. CASE DeleteSessionRemove(r)
  <2>1. reqs[r].pane \in Panes
    BY <1>3, RequestPane DEF DeleteSessionRemove
  <2> QED BY <1>3, <2>1, SessionMovesTyped DEF DeleteSessionRemove
<1>4. CASE PostWorkspaceCreate(r) \/ PostWorkspaceSave(r)
  <2>1. reqs[r].pane \in Panes
    BY <1>4, RequestPane DEF PostWorkspaceCreate, PostWorkspaceSave
  <2> QED BY <1>1, <1>4, <2>1, SessionMovesTyped DEF PostWorkspaceCreate, PostWorkspaceSave, sessionVars
<1>5. CASE DeleteWorkspaceRemove(r)
  <2>1. CASE \E p \in reqs[r].left : RemoveSession(p) /\ dropped' = dropped \cup {<<p, sessions[p]>>}
    <3>1. reqs[r].left \subseteq Panes
      BY <1>5, RequestForms DEF DeleteWorkspaceRemove, PanesTypeOK
    <3> QED BY <2>1, <3>1, SessionMovesTyped
  <2>2. CASE UNCHANGED <<sessionVars, dropped>>
    BY <1>1, <2>2
  <2> QED BY <1>5, <2>1, <2>2 DEF DeleteWorkspaceRemove
<1>6. CASE RestartCreate(r)
  <2> DEFINE p == reqs[r].pane
  <2>1. p \in Panes /\ Number(p) \in Nat
    <3>1. p \in Panes
      BY <1>6, RequestPane DEF RestartCreate
    <3> HIDE DEF p
    <3>2. made[p] \in Nat
      BY <3>1 DEF PanesTypeOK
    <3> QED BY <3>1, <3>2 DEF Number
  <2>2. CASE UNCHANGED sessionVars
    BY <1>1, <1>6, <2>2 DEF RestartCreate
  <2>3. CASE ~UNCHANGED sessionVars
    <3>1. /\ made' = [made EXCEPT ![p] = Number(p)] /\ sessions' = [sessions EXCEPT ![p] = 0]
          /\ running' = (running \ {<<p, sessions[p]>>}) \cup {<<p, Number(p)>>}
          /\ dropped' = dropped
      BY <1>6, <2>3 DEF RestartCreate
    <3>2. running' \in SUBSET (Panes \X Nat)
      BY <2>1, <3>1 DEF PanesTypeOK
    <3> QED BY <2>1, <3>1, <3>2 DEF PanesTypeOK, SessionsTyped
  <2> QED BY <2>2, <2>3
<1>7. CASE RestartAdd(r)
  <2>1. reqs[r].pane \in Panes /\ reqs[r].sess \in Nat
    BY <1>7, RequestForms DEF RestartAdd, PanesTypeOK
  <2> QED BY <1>0, <1>7, <2>1 DEF RestartAdd, SessionsTyped
<1>8. CASE DeleteSessionClose(r) \/ RestartClose(r) \/ OpenEnsure(r) \/ OpenCheck(r)
  BY <1>1, <1>8 DEF DeleteSessionClose, RestartClose, OpenEnsure, OpenCheck
<1> QED BY <1>2, <1>3, <1>4, <1>5, <1>6, <1>7, <1>8 DEF Serve

\* A step that leaves the sessions, or the forwards, alone.
LEMMA SessionsAlone ==
  ASSUME [PanesNext]_panesVars, \A r \in Requests : ~Serve(r)
  PROVE  UNCHANGED <<sessionVars, dropped>>
<1>1. CASE Layouts \/ Forwarding \/ UNCHANGED panesVars
  BY <1>1 DEF Layouts, PutLayout, Configure, Rollback, PutWorkspaceLayout, PutActiveWorkspace, PutLook,
              Forwarding, CloseForwards, BeginConn, EndConn, Reap, panesVars
<1>2. CASE \E r \in Requests : Accept(r)
  BY <1>2 DEF Accept, PostSession, DeleteSession, RestartSession, PostWorkspace, PostOpenURL, DeleteWorkspace
<1> QED BY <1>1, <1>2 DEF PanesNext

ForwardsMove ==
  \/ UNCHANGED forwardVars
  \/ Forwarding
  \/ \E r \in Requests : DeleteSessionClose(r) \/ RestartClose(r) \/ OpenEnsure(r) \/ OpenCheck(r)

LEMMA ForwardsAlone == ASSUME [PanesNext]_panesVars PROVE ForwardsMove
<1>1. CASE Layouts \/ UNCHANGED panesVars
  BY <1>1 DEF Layouts, PutLayout, Configure, Rollback, PutWorkspaceLayout, PutActiveWorkspace, PutLook,
              panesVars, ForwardsMove
<1>2. CASE \E r \in Requests : Accept(r)
  BY <1>2 DEF Accept, PostSession, DeleteSession, RestartSession, PostWorkspace, PostOpenURL,
              DeleteWorkspace, ForwardsMove
<1>3. CASE \E r \in Requests : Serve(r)
  BY <1>3 DEF Serve, PostSessionEnd, DeleteSessionRemove, RestartCreate, RestartAdd, PostWorkspaceCreate,
              PostWorkspaceSave, DeleteWorkspaceRemove, ForwardsMove
<1> QED BY <1>1, <1>2, <1>3 DEF PanesNext, ForwardsMove

\* A forward that is bound, by its parts.
LEMMA BoundParts ==
  ASSUME ForwardsTyped, NEW o \in Bound
  PROVE  /\ o \in Ports /\ forwards[o] \in [pane : Panes, sess : Nat, live : Nat]
         /\ forwards[o].pane \in Panes /\ forwards[o].sess \in Nat /\ forwards[o].live \in Nat
BY DEF ForwardsTyped, Bound

LEMMA CloseTyped == ASSUME ForwardsTyped, NEW p, CloseSession(p) PROVE ForwardsTyped'
BY DEF ForwardsTyped, CloseSession

LEMMA ForwardsTypedStep ==
  ASSUME PanesTypeOK, ForwardsMove PROVE ForwardsTyped' /\ closed' \in BOOLEAN
<1>0. ForwardsTyped /\ closed \in BOOLEAN
  BY DEF PanesTypeOK, ForwardsTyped
<1>1. ASSUME NEW r \in Requests, DeleteSessionClose(r) \/ RestartClose(r) \/ OpenCheck(r)
      PROVE  ForwardsTyped' /\ closed' = closed
  <2>1. closed' = closed /\ (CloseSession(reqs[r].pane) \/ forwards' = forwards)
    BY <1>1 DEF DeleteSessionClose, RestartClose, OpenCheck
  <2>2. CASE forwards' = forwards
    BY <1>0, <2>1, <2>2 DEF ForwardsTyped
  <2> QED BY <1>0, <2>1, <2>2, CloseTyped
<1>2. ASSUME NEW r \in Requests, OpenEnsure(r) PROVE ForwardsTyped' /\ closed' = closed
  <2>1. reqs[r] \in [op : {"open"}, at : {"ensuring", "checking"}, pane : Panes, sess : Nat, port : Ports]
    BY <1>2, RequestForms DEF OpenEnsure, PanesTypeOK
  <2>2. [pane |-> reqs[r].pane, sess |-> reqs[r].sess, live |-> 0] \in [pane : Panes, sess : Nat, live : Nat]
    BY <2>1
  <2>3. /\ closed' = closed
        /\ \/ forwards' = forwards
           \/ forwards' = [forwards EXCEPT ![reqs[r].port] =
                             [pane |-> reqs[r].pane, sess |-> reqs[r].sess, live |-> 0]]
    BY <1>2 DEF OpenEnsure
  <2> QED BY <1>0, <2>2, <2>3 DEF ForwardsTyped
<1>3. ASSUME NEW o \in Ports, BeginConn(o) \/ EndConn(o) PROVE ForwardsTyped' /\ closed' = closed
  <2>1. o \in Bound /\ closed' = closed
    BY <1>3 DEF BeginConn, EndConn
  <2>2. forwards[o] \in [pane : Panes, sess : Nat, live : Nat]
    BY <1>0, <2>1, BoundParts
  <2>3. [forwards[o] EXCEPT !.live = @ + 1] \in [pane : Panes, sess : Nat, live : Nat]
    BY <2>2
  <2>4. forwards[o].live > 0 => [forwards[o] EXCEPT !.live = @ - 1] \in [pane : Panes, sess : Nat, live : Nat]
    BY <2>2
  <2>5. \/ forwards' = [forwards EXCEPT ![o] = [forwards[o] EXCEPT !.live = @ + 1]]
        \/ forwards[o].live > 0 /\ forwards' = [forwards EXCEPT ![o] = [forwards[o] EXCEPT !.live = @ - 1]]
    BY <1>3 DEF BeginConn, EndConn
  <2> QED BY <1>0, <2>1, <2>3, <2>4, <2>5 DEF ForwardsTyped
<1>4. ASSUME NEW o \in Ports, Reap(o) PROVE ForwardsTyped' /\ closed' = closed
  BY <1>0, <1>4 DEF Reap, ForwardsTyped
<1>5. CASE CloseForwards
  BY <1>5 DEF CloseForwards, ForwardsTyped
<1>6. CASE UNCHANGED forwardVars
  BY <1>0, <1>6 DEF forwardVars, ForwardsTyped
<1> QED BY <1>0, <1>1, <1>2, <1>3, <1>4, <1>5, <1>6 DEF ForwardsMove, Forwarding

LEMMA PanesTypeStep ==
  ASSUME PanesTypeOK, ConfigInv, [PanesNext]_panesVars PROVE PanesTypeOK'
<1>1. cfg' \in Configs /\ file' \in [items : Seq(Workspaces), active : Workspaces, look : Looks,
                                     layout : [Workspaces -> SUBSET Panes]]
  <2>1. ConfigInv'
    BY ConfigStep
  <2>2. ConfigInv' => /\ cfg' \in Configs
                      /\ file' \in [items : Seq(Workspaces), active : Workspaces, look : Looks,
                                    layout : [Workspaces -> SUBSET Panes]]
    <3>1. ASSUME NEW c, Sound(c)
          PROVE  Written(c) \in [items : Seq(Workspaces), active : Workspaces, look : Looks,
                                 layout : [Workspaces -> SUBSET Panes]]
      BY <3>1 DEF Sound, Configs, Written
    <3>2. ASSUME NEW c, Sound(c)' PROVE Sound(c)
      BY <3>2 DEF Sound, HasWorkspace
    <3> QED BY <3>1, <3>2 DEF ConfigInv, Sound, Written
  <2> QED BY <2>1, <2>2
<1>2. SessionsTyped'
  <2>1. CASE \E r \in Requests : Serve(r)
    BY <2>1, ServeSessionsTyped
  <2>2. CASE \A r \in Requests : ~Serve(r)
    BY <2>2, SessionsAlone DEF sessionVars, SessionsTyped, PanesTypeOK
  <2> QED BY <2>1, <2>2
<1>3. ForwardsTyped' /\ closed' \in BOOLEAN
  BY ForwardsAlone, ForwardsTypedStep
<1> QED BY <1>1, <1>2, <1>3, RequestsTyped DEF PanesTypeOK, SessionsTyped, ForwardsTyped

LEMMA FirstSound ==
  ASSUME PanesInit
  PROVE  Sound(cfg) /\ file = Written(cfg)
<1> DEFINE layout == [w \in Workspaces |-> IF w = FirstWorkspace THEN {FirstPane} ELSE {}]
<1>1. /\ FirstPane \in Panes /\ FirstWorkspace \in Workspaces /\ FirstLook \in Looks
      /\ <<FirstWorkspace>> \in Seq(Workspaces) /\ layout \in [Workspaces -> SUBSET Panes]
  BY PanesAssumption
<1>2. /\ cfg = [items |-> <<FirstWorkspace>>, active |-> FirstWorkspace, look |-> FirstLook,
                layout |-> layout, mirror |-> {FirstPane}]
      /\ file = Written(cfg)
  BY DEF PanesInit
<1>3. layout[FirstWorkspace] = {FirstPane}
  BY <1>1
<1> HIDE DEF layout
<1>4. cfg \in Configs
  BY <1>1, <1>2 DEF Configs
<1>5. IsInjective(<<FirstWorkspace>>) /\ FirstWorkspace \in ToSet(<<FirstWorkspace>>)
  <2>1. DOMAIN <<FirstWorkspace>> = {1} /\ <<FirstWorkspace>>[1] = FirstWorkspace
    OBVIOUS
  <2> QED BY <2>1 DEF IsInjective, ToSet
<1> QED BY <1>2, <1>3, <1>4, <1>5 DEF Sound, HasWorkspace

LEMMA ConfigInit == PanesInit => PanesTypeOK /\ ConfigInv
<1> SUFFICES ASSUME PanesInit PROVE PanesTypeOK /\ ConfigInv
  OBVIOUS
<1>1. Sound(cfg) /\ file = Written(cfg)
  BY FirstSound
<1>2. \A r \in Requests : reqs[r].op = "none" /\ reqs[r] \in RequestType
  BY RequestsStart DEF PanesInit
<1>3. ConfigInv
  BY <1>1, <1>2 DEF ConfigInv, Locks
<1>4. file \in [items : Seq(Workspaces), active : Workspaces, look : Looks,
                layout : [Workspaces -> SUBSET Panes]]
  BY <1>1 DEF Sound, Configs, Written
<1>5. /\ sessions \in [Panes -> Nat] /\ made \in [Panes -> Nat]
      /\ running \in SUBSET (Panes \X Nat) /\ dropped \in SUBSET (Panes \X Nat)
      /\ forwards \in [Ports -> {NoForward} \cup [pane : Panes, sess : Nat, live : Nat]]
      /\ closed \in BOOLEAN
  <2>1. FirstPane \in Panes
    BY PanesAssumption
  <2>2. sessions \in [Panes -> Nat] /\ made = sessions
    BY DEF PanesInit
  <2>3. running \in SUBSET (Panes \X Nat) /\ dropped \in SUBSET (Panes \X Nat)
    BY <2>1 DEF PanesInit
  <2>4. forwards \in [Ports -> {NoForward} \cup [pane : Panes, sess : Nat, live : Nat]] /\ closed \in BOOLEAN
    BY DEF PanesInit
  <2> QED BY <2>2, <2>3, <2>4
<1>6. reqs \in [Requests -> RequestType]
  BY <1>2 DEF PanesInit
<1> QED BY <1>1, <1>3, <1>4, <1>5, <1>6 DEF PanesTypeOK, Sound

LEMMA ConfigAlways == PanesSpec => [](PanesTypeOK /\ ConfigInv)
<1>1. PanesInit => PanesTypeOK /\ ConfigInv
  BY ConfigInit
<1>2. PanesTypeOK /\ ConfigInv /\ [PanesNext]_panesVars => (PanesTypeOK /\ ConfigInv)'
  BY ConfigStep, PanesTypeStep
<1> QED BY <1>1, <1>2, PTL DEF PanesSpec

\* The variables have their types.
THEOREM PanesTypeCorrect == PanesSpec => []PanesTypeOK
BY ConfigAlways, PTL

\* What panemux runs is what it said was saved, whatever requests are served
\* at once and whichever saves fail (saveLayoutOrRollback, PostWorkspace).
THEOREM SavedIsRunningCorrect == PanesSpec => []SavedIsRunning
BY ConfigAlways, ConfigInvSaved, PTL

-----------------------------------------------------------------------------
(* Sessions and their numbers                                              *)

Posts(r)    == reqs[r].op = "post"
Restarts(r) == reqs[r].op = "restart"
Opens(r)    == reqs[r].op = "open"

\* A restart has made its session and not yet registered it.
HasInHand(r) == Restarts(r) /\ reqs[r].at \in {"closing", "adding"}

\* Sessions are among those their pane had.
NumbersInv ==
  /\ \A p \in Panes : sessions[p] <= made[p]
  /\ \A x \in running : x[2] > 0 /\ x[2] <= made[x[1]]

\* The layouts show panes that were made, but for those the server names.
KnownInv ==
  /\ Known(cfg)
  /\ \A r \in Requests :
       reqs[r].op = "addWorkspace" => reqs[r].pane \in Generated /\ Known(reqs[r].before)

\* A name is posted by one request, before there was a session of that name.
PostsInv ==
  /\ \A r \in Requests : Posts(r) => reqs[r].pane \notin Generated /\ made[reqs[r].pane] = 0
  /\ \A r, q \in Requests : Posts(r) /\ Posts(q) /\ reqs[r].pane = reqs[q].pane => r = q

\* One restart per pane, of a pane that was made.
RestartsInv ==
  /\ \A r \in Requests : Restarts(r) => reqs[r].pane \in Generated \/ made[reqs[r].pane] > 0
  /\ \A r, q \in Requests : Restarts(r) /\ Restarts(q) /\ reqs[r].pane = reqs[q].pane => r = q

\* The session a restart has in hand runs, is registered nowhere, and nothing
\* else is registered in its place.
InHandInv ==
  \A r \in Requests : HasInHand(r) =>
    /\ <<reqs[r].pane, reqs[r].sess>> \in running
    /\ sessions[reqs[r].pane] # reqs[r].sess
    /\ reqs[r].pane \notin Generated => sessions[reqs[r].pane] = 0

\* An open-url request found its session registered: no restart has it in hand.
OpensInv ==
  \A r \in Requests : Opens(r) =>
    /\ reqs[r].sess > 0 /\ reqs[r].sess <= made[reqs[r].pane]
    /\ \A q \in Requests : HasInHand(q) /\ reqs[q].pane = reqs[r].pane => reqs[q].sess # reqs[r].sess

NamesInv == NumbersInv /\ KnownInv /\ PostsInv /\ RestartsInv

PanesInv == PanesTypeOK /\ ConfigInv /\ NamesInv /\ InHandInv /\ OpensInv

\* A step takes on one request.
LEMMA OneRequest ==
  ASSUME PanesTypeOK, NEW r \in Requests, Accept(r) \/ Serve(r), NEW q \in Requests \ {r}
  PROVE  reqs'[q] = reqs[q]
<1>1. reqs' = reqs \/ \E m : Become(r, m)
  <2>1. CASE Accept(r)
    BY <2>1 DEF Accept, PostSession, DeleteSession, RestartSession, PostWorkspace, PostOpenURL, DeleteWorkspace
  <2>2. CASE Serve(r)
    BY <2>2 DEF Serve, PostSessionEnd, DeleteSessionRemove, DeleteSessionClose, RestartCreate, RestartClose,
                RestartAdd, PostWorkspaceCreate, PostWorkspaceSave, DeleteWorkspaceRemove, OpenEnsure, OpenCheck
  <2> QED BY <2>1, <2>2
<1> QED BY <1>1 DEF PanesTypeOK, Become

\* The steps of a request, by what they make of it.
RestartMade(r) ==
  /\ RestartCreate(r) /\ Restarts(r) /\ Restarts(r)' /\ reqs[r].at = "creating"
  /\ reqs'[r].at = "closing" /\ reqs'[r].pane = reqs[r].pane /\ reqs'[r].sess = Number(reqs[r].pane)
  /\ made[reqs[r].pane] < MaxSessions[reqs[r].pane]
  /\ made' = [made EXCEPT ![reqs[r].pane] = Number(reqs[r].pane)]
  /\ running' = (running \ {<<reqs[r].pane, sessions[reqs[r].pane]>>})
                  \cup {<<reqs[r].pane, Number(reqs[r].pane)>>}
  /\ sessions' = [sessions EXCEPT ![reqs[r].pane] = 0]

SameRequest(r) ==
  /\ reqs'[r].op = reqs[r].op /\ reqs[r].op \in {"restart", "open", "addWorkspace"}
  /\ reqs'[r].pane = reqs[r].pane
  /\ Restarts(r) => RestartClose(r) /\ HasInHand(r) /\ reqs'[r].at = "adding" /\ reqs'[r].sess = reqs[r].sess
  /\ Opens(r) => OpenEnsure(r) /\ reqs'[r].at = "checking" /\ reqs'[r].sess = reqs[r].sess
  /\ reqs[r].op = "addWorkspace" => reqs'[r].before = reqs[r].before

\* Serving a request ends it, or takes it on as what it is.
LEMMA ServeGoesOn ==
  ASSUME PanesTypeOK, NEW r \in Requests, Serve(r)
  PROVE  \/ reqs'[r] = Idle
         \/ DeleteSessionRemove(r) /\ reqs'[r].op = "delete" /\ reqs'[r].at = "closing"
              /\ reqs'[r].pane = reqs[r].pane
         \/ reqs'[r].op = "deleteWorkspace"
         \/ RestartMade(r)
         \/ SameRequest(r)
<1>0. reqs \in [Requests -> RequestType] /\ reqs[r] \in RequestType
  BY DEF PanesTypeOK
<1>1. ASSUME NEW m, Become(r, m) PROVE reqs'[r] = m
  BY <1>0, <1>1 DEF Become
<1>2. CASE PostSessionEnd(r) \/ DeleteSessionClose(r) \/ RestartAdd(r) \/ OpenCheck(r) \/ PostWorkspaceSave(r)
  BY <1>1, <1>2 DEF PostSessionEnd, DeleteSessionClose, RestartAdd, OpenCheck, PostWorkspaceSave
<1>3. CASE DeleteSessionRemove(r)
  BY <1>0, <1>1, <1>3, DeleteGoesOn DEF DeleteSessionRemove
<1>4. CASE RestartCreate(r)
  <2>1. reqs[r].op = "restart" /\ reqs[r].at = "creating" /\ Number(reqs[r].pane) \in Nat
    BY <1>0, <1>4, RequestForms DEF RestartCreate, Number, PanesTypeOK
  <2>2. CASE Become(r, Idle)
    BY <1>1, <2>2
  <2>3. CASE ~Become(r, Idle)
    <3>1. reqs'[r] = [reqs[r] EXCEPT !.at = "closing", !.sess = Number(reqs[r].pane)]
      BY <1>1, <1>4, <2>3 DEF RestartCreate
    <3>2. /\ made[reqs[r].pane] < MaxSessions[reqs[r].pane]
          /\ made' = [made EXCEPT ![reqs[r].pane] = Number(reqs[r].pane)]
          /\ running' = (running \ {<<reqs[r].pane, sessions[reqs[r].pane]>>})
                          \cup {<<reqs[r].pane, Number(reqs[r].pane)>>}
          /\ sessions' = [sessions EXCEPT ![reqs[r].pane] = 0]
      BY <1>4, <2>3 DEF RestartCreate
    <3>3. Restarts(r)' /\ reqs'[r].at = "closing" /\ reqs'[r].pane = reqs[r].pane
          /\ reqs'[r].sess = Number(reqs[r].pane)
      <4>1. \A n \in Nat : LET m == [reqs[r] EXCEPT !.at = "closing", !.sess = n] IN
              m.op = "restart" /\ m.at = "closing" /\ m.pane = reqs[r].pane /\ m.sess = n
        <5>1. reqs[r] \in RequestType
          BY <1>0
        <5> QED BY <5>1, <2>1, RestartNumbered
      <4> QED BY <2>1, <3>1, <4>1 DEF Restarts
    <3> QED BY <1>4, <2>1, <3>2, <3>3 DEF RestartMade, Restarts
  <2> QED BY <2>2, <2>3
<1>5. CASE RestartClose(r)
  <2>1. reqs[r].op = "restart" /\ reqs[r].at = "closing" /\ reqs'[r] = [reqs[r] EXCEPT !.at = "adding"]
    BY <1>1, <1>5 DEF RestartClose
  <2>2. reqs'[r].op = "restart" /\ reqs'[r].at = "adding" /\ reqs'[r].pane = reqs[r].pane
        /\ reqs'[r].sess = reqs[r].sess
    BY <1>0, <2>1, RestartGoesOn
  <2> QED BY <1>5, <2>1, <2>2 DEF SameRequest, Restarts, Opens, HasInHand
<1>6. CASE PostWorkspaceCreate(r)
  <2>1. reqs[r].op = "addWorkspace" /\ (Become(r, Idle) \/ Become(r, [reqs[r] EXCEPT !.at = "saving"]))
    BY <1>6 DEF PostWorkspaceCreate
  <2> QED BY <1>0, <1>1, <2>1, AddGoesOn DEF SameRequest, Restarts, Opens
<1>7. CASE DeleteWorkspaceRemove(r)
  <2>1. reqs[r].op = "deleteWorkspace" /\ (Become(r, Idle) \/ \E p : Become(r, [reqs[r] EXCEPT !.left = @ \ {p}]))
    BY <1>7 DEF DeleteWorkspaceRemove
  <2> QED BY <1>0, <1>1, <2>1, DeleteWorkspaceGoesOn
<1>8. CASE OpenEnsure(r)
  <2>1. reqs[r].op = "open" /\ (Become(r, Idle) \/ Become(r, [reqs[r] EXCEPT !.at = "checking"]))
    BY <1>8 DEF OpenEnsure
  <2> QED BY <1>0, <1>1, <1>8, <2>1, OpenGoesOn DEF SameRequest, Restarts, Opens
<1> QED BY <1>2, <1>3, <1>4, <1>5, <1>6, <1>7, <1>8 DEF Serve

\* Accepting a request starts it, unless the change it begins with is taken back.
LEMMA AcceptStarts ==
  ASSUME PanesTypeOK, NEW r \in Requests, Accept(r)
  PROVE  \/ reqs' = reqs
         \/ reqs'[r].op = "delete" /\ reqs'[r].at = "removing"
         \/ reqs'[r].op = "deleteWorkspace"
         \/ \E p \in Panes : PostSession(r, p) /\ Posts(r)' /\ reqs'[r].pane = p
         \/ \E p \in Panes : /\ RestartSession(r, p)
                             /\ Restarts(r)' /\ reqs'[r].pane = p /\ reqs'[r].at = "creating"
         \/ \E p \in Panes, o \in Ports : /\ PostOpenURL(r, p, o)
                                          /\ Opens(r)' /\ reqs'[r].at = "ensuring"
                                          /\ reqs'[r].pane = p /\ reqs'[r].sess = sessions[p]
         \/ \E p \in Panes, w \in Workspaces :
              /\ PostWorkspace(r, w, p)
              /\ reqs'[r].op = "addWorkspace" /\ reqs'[r].pane = p /\ reqs'[r].before = cfg
<1>0. reqs \in [Requests -> RequestType]
  BY DEF PanesTypeOK
<1>1. ASSUME NEW m, Become(r, m) PROVE reqs'[r] = m
  BY <1>0, <1>1 DEF Become
<1>2. ASSUME NEW p \in Panes, PostSession(r, p) PROVE Posts(r)' /\ reqs'[r].pane = p
  BY <1>1, <1>2 DEF PostSession, Posts
<1>3. ASSUME NEW p \in Panes, RestartSession(r, p)
      PROVE  Restarts(r)' /\ reqs'[r].pane = p /\ reqs'[r].at = "creating"
  BY <1>1, <1>3 DEF RestartSession, Restarts
<1>4. ASSUME NEW p \in Panes, NEW o \in Ports, PostOpenURL(r, p, o)
      PROVE  Opens(r)' /\ reqs'[r].at = "ensuring" /\ reqs'[r].pane = p /\ reqs'[r].sess = sessions[p]
  BY <1>1, <1>4 DEF PostOpenURL, Opens
<1>5. ASSUME NEW p \in Panes, NEW w \in Workspaces, PostWorkspace(r, w, p)
      PROVE  reqs'[r].op = "addWorkspace" /\ reqs'[r].pane = p /\ reqs'[r].before = cfg
  BY <1>1, <1>5 DEF PostWorkspace
<1>6. ASSUME NEW p \in Panes, DeleteSession(r, p)
      PROVE  reqs' = reqs \/ (reqs'[r].op = "delete" /\ reqs'[r].at = "removing")
  BY <1>1, <1>6 DEF DeleteSession
<1>7. ASSUME NEW w \in Workspaces, DeleteWorkspace(r, w)
      PROVE  reqs' = reqs \/ reqs'[r].op = "deleteWorkspace"
  BY <1>1, <1>7 DEF DeleteWorkspace
<1> QED BY <1>2, <1>3, <1>4, <1>5, <1>6, <1>7 DEF Accept

\* No other step touches the requests.
LEMMA RequestsAlone ==
  ASSUME Layouts \/ Forwarding \/ UNCHANGED panesVars PROVE reqs' = reqs
BY DEF Layouts, PutLayout, Configure, Rollback, PutWorkspaceLayout, PutActiveWorkspace, PutLook,
       Forwarding, CloseForwards, BeginConn, EndConn, Reap, panesVars

\* Where a request of each kind comes from.
LEMMA WhereFrom ==
  ASSUME PanesTypeOK, [PanesNext]_panesVars, NEW r \in Requests
  PROVE  /\ Posts(r)' => \/ Posts(r) /\ reqs'[r] = reqs[r]
                         \/ \E p \in Panes : PostSession(r, p) /\ reqs'[r].pane = p
         /\ Restarts(r)' => \/ Restarts(r) /\ reqs'[r].pane = reqs[r].pane
                            \/ \E p \in Panes : RestartSession(r, p) /\ reqs'[r].pane = p
         /\ HasInHand(r)' => \/ /\ HasInHand(r)
                                /\ reqs'[r].pane = reqs[r].pane /\ reqs'[r].sess = reqs[r].sess
                             \/ RestartMade(r)
         /\ Opens(r)' => \/ /\ Opens(r)
                            /\ reqs'[r].pane = reqs[r].pane /\ reqs'[r].sess = reqs[r].sess
                         \/ \E p \in Panes, o \in Ports :
                              PostOpenURL(r, p, o) /\ reqs'[r].pane = p /\ reqs'[r].sess = sessions[p]
         /\ reqs'[r].op = "addWorkspace" =>
              \/ /\ reqs[r].op = "addWorkspace"
                 /\ reqs'[r].pane = reqs[r].pane /\ reqs'[r].before = reqs[r].before
              \/ \E p \in Panes, w \in Workspaces :
                   PostWorkspace(r, w, p) /\ reqs'[r].pane = p /\ reqs'[r].before = cfg
<1> USE DEF Posts, Restarts, HasInHand, Opens
<1>1. CASE reqs'[r] = reqs[r]
  BY <1>1
<1>2. CASE Accept(r)
  BY <1>1, <1>2, AcceptStarts
<1>3. CASE Serve(r)
  <2>1. Idle.op = "none"
    BY DEF Idle
  <2> QED BY <1>3, <2>1, ServeGoesOn DEF SameRequest, RestartMade
<1>4. CASE Layouts \/ Forwarding \/ UNCHANGED panesVars
  BY <1>1, <1>4, RequestsAlone
<1>5. ASSUME NEW q \in Requests, q # r, Accept(q) \/ Serve(q) PROVE reqs'[r] = reqs[r]
  BY <1>5, OneRequest
<1> QED BY <1>1, <1>2, <1>3, <1>4, <1>5 DEF PanesNext

\* What a step does with the sessions: one is made and registered, removed,
\* made by a restart or registered by it.
SessionsMove(r) ==
  \/ UNCHANGED sessionVars
  \/ /\ CreateAndAdd(reqs[r].pane)
     /\ (Posts(r) /\ ~Posts(r)') \/ reqs[r].op = "addWorkspace"
  \/ \E p \in Panes : RemoveSession(p)
  \/ RestartMade(r)
  \/ RestartAdd(r)

LEMMA SessionsMoveSo == ASSUME PanesTypeOK, NEW r \in Requests, Serve(r) PROVE SessionsMove(r)
<1>0. reqs \in [Requests -> RequestType] /\ Idle.op = "none"
  BY DEF PanesTypeOK, Idle
<1>1. CASE PostSessionEnd(r)
  <2>1. Posts(r) /\ ~Posts(r)'
    BY <1>0, <1>1 DEF PostSessionEnd, Become, Posts
  <2> QED BY <1>1, <2>1 DEF PostSessionEnd, SessionsMove
<1>2. CASE DeleteSessionRemove(r)
  BY <1>2, RequestPane DEF DeleteSessionRemove, SessionsMove
<1>3. CASE RestartCreate(r)
  <2>1. CASE UNCHANGED sessionVars
    BY <2>1 DEF SessionsMove
  <2>2. CASE ~UNCHANGED sessionVars
    <3>1. reqs[r].op = "restart" /\ Become(r, [reqs[r] EXCEPT !.at = "closing", !.sess = Number(reqs[r].pane)])
      BY <1>3, <2>2 DEF RestartCreate
    <3>2. reqs'[r].op = "restart"
      <4>1. Number(reqs[r].pane) \in Nat
        BY <1>0, <3>1, RequestForms DEF Number, PanesTypeOK
      <4>2. reqs'[r] = [reqs[r] EXCEPT !.at = "closing", !.sess = Number(reqs[r].pane)]
        BY <1>0, <3>1 DEF Become
      <4>3. \A n \in Nat : [reqs[r] EXCEPT !.at = "closing", !.sess = n].op = "restart"
        <5>1. reqs[r] \in RequestType
          BY <1>0
        <5> QED BY <5>1, <3>1, RestartNumbered
      <4> QED BY <4>1, <4>2, <4>3
    <3>3. ~SameRequest(r)
      <4>1. ~HasInHand(r)
        BY <1>3 DEF RestartCreate, HasInHand
      <4> QED BY <3>1, <4>1 DEF SameRequest, Restarts
    <3> QED BY <1>0, <1>3, <3>2, <3>3, ServeGoesOn DEF SessionsMove, Serve
  <2> QED BY <2>1, <2>2
<1>4. CASE RestartAdd(r)
  BY <1>4 DEF SessionsMove
<1>5. CASE PostWorkspaceCreate(r)
  BY <1>5 DEF PostWorkspaceCreate, SessionsMove
<1>6. CASE PostWorkspaceSave(r)
  <2>1. reqs[r].pane \in Panes
    BY <1>6, RequestPane DEF PostWorkspaceSave
  <2> QED BY <1>6, <2>1 DEF PostWorkspaceSave, SessionsMove
<1>7. CASE DeleteWorkspaceRemove(r)
  <2>1. reqs[r].left \subseteq Panes
    BY <1>7, RequestForms DEF DeleteWorkspaceRemove, PanesTypeOK
  <2> QED BY <1>7, <2>1 DEF DeleteWorkspaceRemove, SessionsMove
<1>8. CASE DeleteSessionClose(r) \/ RestartClose(r) \/ OpenEnsure(r) \/ OpenCheck(r)
  BY <1>8 DEF DeleteSessionClose, RestartClose, OpenEnsure, OpenCheck, SessionsMove
<1> QED BY <1>1, <1>2, <1>3, <1>4, <1>5, <1>6, <1>7, <1>8 DEF Serve

\* The same of any step.
LEMMA SessionsStep ==
  ASSUME PanesTypeOK, [PanesNext]_panesVars
  PROVE  UNCHANGED sessionVars \/ \E r \in Requests : Serve(r) /\ SessionsMove(r)
BY SessionsAlone, SessionsMoveSo

\* Whose pane a request that makes a session is for.
LEMMA MakersPane ==
  ASSUME PanesTypeOK, NEW r \in Requests, Posts(r) \/ Restarts(r) \/ reqs[r].op = "addWorkspace"
  PROVE  reqs[r].pane \in Panes
BY RequestPane DEF Posts, Restarts

LEMMA MadeGrows ==
  ASSUME PanesTypeOK, [PanesNext]_panesVars, NEW p \in Panes
  PROVE  /\ made[p] \in Nat /\ made'[p] \in Nat /\ made'[p] >= made[p]
         /\ made'[p] # made[p] =>
              \E r \in Requests : /\ Serve(r) /\ reqs[r].pane = p
                                  /\ (Posts(r) /\ ~Posts(r)') \/ Restarts(r) \/ reqs[r].op = "addWorkspace"
<1>0. made \in [Panes -> Nat]
  BY DEF PanesTypeOK
<1>1. CASE UNCHANGED sessionVars
  BY <1>0, <1>1 DEF sessionVars
<1>2. ASSUME NEW r \in Requests, Serve(r),
             made' = [made EXCEPT ![reqs[r].pane] = Number(reqs[r].pane)],
             (Posts(r) /\ ~Posts(r)') \/ Restarts(r) \/ reqs[r].op = "addWorkspace"
      PROVE  /\ made'[p] \in Nat /\ made'[p] >= made[p]
             /\ made'[p] # made[p] =>
                  \E q \in Requests : /\ Serve(q) /\ reqs[q].pane = p
                                      /\ (Posts(q) /\ ~Posts(q)') \/ Restarts(q) \/ reqs[q].op = "addWorkspace"
  <2>1. reqs[r].pane \in Panes
    BY <1>2, MakersPane
  <2>2. CASE reqs[r].pane = p
    BY <1>0, <1>2, <2>1, <2>2 DEF Number
  <2>3. CASE reqs[r].pane # p
    BY <1>0, <1>2, <2>1, <2>3
  <2> QED BY <2>2, <2>3
<1>3. ASSUME NEW r \in Requests, Serve(r), SessionsMove(r)
      PROVE  \/ made' = made
             \/ /\ made' = [made EXCEPT ![reqs[r].pane] = Number(reqs[r].pane)]
                /\ (Posts(r) /\ ~Posts(r)') \/ Restarts(r) \/ reqs[r].op = "addWorkspace"
  BY <1>3 DEF SessionsMove, CreateAndAdd, RemoveSession, RestartMade, RestartAdd, sessionVars
<1> QED BY <1>0, <1>1, <1>2, <1>3, SessionsStep

-----------------------------------------------------------------------------
(* Names                                                                   *)

\* A configuration that shows less, or panes that were made, is known still.
LEMMA KnownKept ==
  ASSUME PanesTypeOK, [PanesNext]_panesVars, NEW c \in Configs, Known(c)
  PROVE  Known(c)'
<1>1. \A w \in Workspaces : c.layout[w] \subseteq Panes
  BY DEF Configs
<1> QED BY <1>1, MadeGrows DEF Known

LEMMA KnownChanges ==
  ASSUME PanesTypeOK, ConfigInv, KnownInv, [PanesNext]_panesVars
  PROVE  \/ Known(cfg')
         \/ \E r \in Requests : reqs[r].op = "addWorkspace" /\ cfg' = reqs[r].before
<1>0. /\ Sound(cfg) /\ Known(cfg) /\ cfg \in Configs /\ cfg.active \in Workspaces
      /\ cfg.layout \in [Workspaces -> SUBSET Panes]
  BY DEF ConfigInv, KnownInv, Sound, Configs
<1>1. ASSUME cfg' = cfg PROVE Known(cfg')
  BY <1>0, <1>1
<1>2. ASSUME NEW c, Sound(c), Saved(c), Known(c) PROVE Known(cfg')
  BY <1>2, NormalizeSound DEF Saved
<1>3. ASSUME NEW c, NEW w \in Workspaces, NEW ps \in Shown, c.layout = [cfg.layout EXCEPT ![w] = ps]
      PROVE  Known(c)
  BY <1>0, <1>3 DEF Known, Shown
<1>4. CASE Layouts
  <2>1. CASE PutLayout
    <3>1. PICK ps \in Shown : Saved(UpdateLayout(cfg, ps))
      BY <2>1 DEF PutLayout, Configure
    <3>2. ps \in SUBSET Panes
      BY DEF Shown
    <3>3. /\ Sound(UpdateLayout(cfg, ps))
          /\ UpdateLayout(cfg, ps).layout = [cfg.layout EXCEPT ![cfg.active] = ps]
      BY <1>0, <3>2, UpdateSound
    <3>4. Known(UpdateLayout(cfg, ps))
      BY <1>0, <1>3, <3>3
    <3> QED BY <1>2, <3>1, <3>3, <3>4
  <2>2. CASE Rollback
    BY <1>1, <2>2 DEF Rollback, Restored, configVars
  <2>3. ASSUME NEW w \in Workspaces, PutWorkspaceLayout(w) PROVE Known(cfg')
    <3>1. PICK ps \in Shown : Saved(UpdateWorkspaceLayout(cfg, w, ps))
      BY <2>3 DEF PutWorkspaceLayout, Configure
    <3>2. ps \in SUBSET Panes
      BY DEF Shown
    <3>3. /\ Sound(UpdateWorkspaceLayout(cfg, w, ps))
          /\ UpdateWorkspaceLayout(cfg, w, ps).layout = [cfg.layout EXCEPT ![w] = ps]
      BY <1>0, <3>2, UpdateWorkspaceSound
    <3>4. Known(UpdateWorkspaceLayout(cfg, w, ps))
      BY <1>3, <3>3
    <3> QED BY <1>2, <3>1, <3>3, <3>4
  <2>4. ASSUME NEW w \in Workspaces, PutActiveWorkspace(w) PROVE Known(cfg')
    <3>1. Saved(SetActiveWorkspace(cfg, w)) /\ HasWorkspace(cfg, w)
      BY <2>4 DEF PutActiveWorkspace, Configure
    <3>2. Sound(SetActiveWorkspace(cfg, w)) /\ SetActiveWorkspace(cfg, w).layout = cfg.layout
      BY <1>0, <3>1, SetActiveSound
    <3> QED BY <1>0, <1>2, <3>1, <3>2 DEF Known
  <2>5. ASSUME NEW look \in Looks, PutLook(look) PROVE Known(cfg')
    <3> DEFINE d == [cfg EXCEPT !.look = look]
    <3>1. Sound(d) /\ d.layout = cfg.layout
      BY <1>0 DEF Sound, Configs, HasWorkspace
    <3>2. NormalizeWorkspaces(d) = d
      BY <3>1, NormalizeSound
    <3>3. Saved(d)
      BY <2>5, <3>2 DEF PutLook, Configure
    <3>4. Known(d)
      BY <1>0, <3>1 DEF Known
    <3> HIDE DEF d
    <3> QED BY <1>2, <3>1, <3>3, <3>4
  <2> QED BY <1>4, <2>1, <2>2, <2>3, <2>4, <2>5 DEF Layouts
<1>5. CASE Forwarding \/ UNCHANGED panesVars
  BY <1>1, <1>5 DEF Forwarding, CloseForwards, BeginConn, EndConn, Reap, panesVars, configVars
<1>6. ASSUME NEW r \in Requests, Accept(r) PROVE Known(cfg')
  <2>1. ASSUME NEW p \in Panes, DeleteSession(r, p) PROVE Known(cfg')
    <3>1. CASE Saved(RemovePaneFromLayout(cfg, p))
      <4>1. /\ Sound(RemovePaneFromLayout(cfg, p))
            /\ \A w \in Workspaces : RemovePaneFromLayout(cfg, p).layout[w] \subseteq cfg.layout[w]
        BY <1>0, RemovePaneSound
      <4>2. Known(RemovePaneFromLayout(cfg, p))
        BY <1>0, <4>1 DEF Known
      <4> QED BY <1>2, <3>1, <4>1, <4>2
    <3>2. CASE Restored(RemovePaneFromLayout(cfg, p))
      BY <1>1, <3>2 DEF Restored, configVars
    <3> QED BY <2>1, <3>1, <3>2 DEF DeleteSession
  <2>2. ASSUME NEW w \in Workspaces, DeleteWorkspace(r, w) PROVE Known(cfg')
    <3>1. CASE Saved(RemoveWorkspace(cfg, w))
      <4>1. /\ Sound(RemoveWorkspace(cfg, w))
            /\ RemoveWorkspace(cfg, w).layout = [cfg.layout EXCEPT ![w] = {}]
        BY <1>0, <2>2, RemoveWorkspaceSound DEF DeleteWorkspace
      <4>2. Known(RemoveWorkspace(cfg, w))
        BY <1>0, <4>1 DEF Known
      <4> QED BY <1>2, <3>1, <4>1, <4>2
    <3>2. CASE Restored(RemoveWorkspace(cfg, w))
      BY <1>1, <3>2 DEF Restored, configVars
    <3> QED BY <2>2, <3>1, <3>2 DEF DeleteWorkspace
  <2>3. ASSUME NEW p \in Panes, NEW w \in Workspaces, PostWorkspace(r, w, p) PROVE Known(cfg')
    <3>1. cfg' = AddDefaultWorkspace(cfg, w, p) /\ p \in Generated /\ ~HasWorkspace(cfg, w)
      BY <1>0, <2>3, NormalizeSound DEF PostWorkspace
    <3>2. cfg'.layout = [cfg.layout EXCEPT ![w] = {p}]
      BY <1>0, <3>1, AddSound
    <3> QED BY <1>0, <3>1, <3>2 DEF Known
  <2>4. ASSUME NEW p \in Panes, NEW o \in Ports,
               PostSession(r, p) \/ RestartSession(r, p) \/ PostOpenURL(r, p, o)
        PROVE  Known(cfg')
    BY <1>1, <2>4 DEF PostSession, RestartSession, PostOpenURL, configVars
  <2>5. ASSUME NEW p \in Panes, PostSession(r, p) \/ RestartSession(r, p) PROVE Known(cfg')
    BY <1>1, <2>5 DEF PostSession, RestartSession, configVars
  <2> QED BY <1>6, <2>1, <2>2, <2>3, <2>4, <2>5 DEF Accept
<1>7. ASSUME NEW r \in Requests, Serve(r)
      PROVE  Known(cfg') \/ (reqs[r].op = "addWorkspace" /\ cfg' = reqs[r].before)
  <2>1. CASE PostWorkspaceCreate(r)
    BY <1>1, <2>1 DEF PostWorkspaceCreate
  <2>2. CASE PostWorkspaceSave(r)
    <3>1. CASE Saved(cfg)
      BY <1>0, <1>2, <3>1
    <3> QED BY <2>2, <3>1 DEF PostWorkspaceSave
  <2>3. CASE ~(PostWorkspaceCreate(r) \/ PostWorkspaceSave(r))
    BY <1>1, <1>7, <2>3, ServeCalm DEF Serve, configVars
  <2> QED BY <2>1, <2>2, <2>3
<1> QED BY <1>4, <1>5, <1>6, <1>7 DEF PanesNext

LEMMA KnownStep ==
  ASSUME PanesTypeOK, ConfigInv, KnownInv, [PanesNext]_panesVars PROVE KnownInv'
<1>0. cfg \in Configs /\ PanesTypeOK'
  BY PanesTypeStep DEF PanesTypeOK
<1>1. Known(cfg)'
  <2>1. cfg' \in Configs
    BY <1>0 DEF PanesTypeOK
  <2>2. ASSUME Known(cfg') PROVE Known(cfg)'
    <3>1. \A w \in Workspaces : cfg'.layout[w] \subseteq Panes
      BY <2>1 DEF Configs
    <3> QED BY <2>2, <3>1, MadeGrows DEF Known
  <2>3. ASSUME NEW r \in Requests, reqs[r].op = "addWorkspace", cfg' = reqs[r].before PROVE Known(cfg')
    BY <2>3 DEF KnownInv
  <2> QED BY <2>2, <2>3, KnownChanges
<1>2. ASSUME NEW r \in Requests, reqs'[r].op = "addWorkspace"
      PROVE  reqs'[r].pane \in Generated /\ Known(reqs[r].before)'
  <2>1. CASE reqs[r].op = "addWorkspace" /\ reqs'[r].pane = reqs[r].pane /\ reqs'[r].before = reqs[r].before
    <3>1. reqs[r].before \in Configs
      BY <2>1, RequestForms DEF PanesTypeOK
    <3>2. reqs[r].pane \in Generated /\ Known(reqs[r].before)
      BY <2>1 DEF KnownInv
    <3>3. PICK c \in Configs : c = reqs[r].before
      BY <3>1
    <3>4. Known(c)'
      BY <3>2, <3>3, KnownKept
    <3> QED BY <2>1, <3>2, <3>3, <3>4 DEF Known
  <2>2. ASSUME NEW p \in Panes, NEW w \in Workspaces, PostWorkspace(r, w, p),
               reqs'[r].pane = p, reqs'[r].before = cfg
        PROVE  reqs'[r].pane \in Generated /\ Known(reqs[r].before)'
    <3>1. p \in Generated
      BY <2>2 DEF PostWorkspace
    <3>2. PICK c \in Configs : c = cfg
      BY <1>0
    <3>3. Known(c)'
      BY <3>2, KnownKept DEF KnownInv
    <3> QED BY <2>2, <3>1, <3>2, <3>3 DEF Known
  <2> QED BY <1>2, <2>1, <2>2, WhereFrom
<1> QED BY <1>1, <1>2 DEF KnownInv

LEMMA PostsStep ==
  ASSUME PanesTypeOK, KnownInv, PostsInv, RestartsInv, [PanesNext]_panesVars PROVE PostsInv'
<1>1. ASSUME NEW r \in Requests, Posts(r)'
      PROVE  reqs'[r].pane \notin Generated /\ made'[reqs'[r].pane] = 0
  <2>1. CASE Posts(r) /\ reqs'[r] = reqs[r]
    <3> DEFINE p == reqs[r].pane
    <3>1. p \in Panes /\ p \notin Generated /\ made[p] = 0
      BY <2>1, MakersPane DEF PostsInv
    <3>2. ASSUME NEW q \in Requests, Serve(q), reqs[q].pane = p,
                 (Posts(q) /\ ~Posts(q)') \/ Restarts(q) \/ reqs[q].op = "addWorkspace"
          PROVE  FALSE
      <4>1. CASE Posts(q) /\ ~Posts(q)'
        BY <1>1, <2>1, <3>2, <4>1 DEF PostsInv
      <4>2. CASE Restarts(q)
        BY <3>1, <3>2, <4>2 DEF RestartsInv
      <4>3. CASE reqs[q].op = "addWorkspace"
        BY <3>1, <3>2, <4>3 DEF KnownInv
      <4> QED BY <3>2, <4>1, <4>2, <4>3
    <3>3. made'[p] = made[p]
      BY <3>1, <3>2, MadeGrows
    <3> QED BY <2>1, <3>1, <3>3
  <2>2. ASSUME NEW p \in Panes, PostSession(r, p), reqs'[r].pane = p
        PROVE  reqs'[r].pane \notin Generated /\ made'[reqs'[r].pane] = 0
    BY <2>2 DEF PostSession, sessionVars
  <2> QED BY <1>1, <2>1, <2>2, WhereFrom
<1>2. ASSUME NEW r \in Requests, NEW q \in Requests, Posts(r)', Posts(q)', reqs'[r].pane = reqs'[q].pane
      PROVE  r = q
  <2>1. CASE reqs'[r] = reqs[r] /\ reqs'[q] = reqs[q]
    BY <1>2, <2>1 DEF PostsInv, Posts
  <2>2. ASSUME NEW s \in Requests, NEW t \in Requests, s # t, NEW p \in Panes, PostSession(s, p),
               reqs'[s].pane = p, Posts(t)'
        PROVE  reqs'[t].pane # p
    <3>1. reqs'[t] = reqs[t]
      BY <2>2, OneRequest DEF Accept
    <3> QED BY <2>2, <3>1 DEF PostSession, Posts
  <2> QED BY <1>2, <2>1, <2>2, WhereFrom
<1> QED BY <1>1, <1>2 DEF PostsInv

LEMMA RestartsStep ==
  ASSUME PanesTypeOK, ConfigInv, KnownInv, RestartsInv, [PanesNext]_panesVars PROVE RestartsInv'
<1>1. ASSUME NEW r \in Requests, Restarts(r)'
      PROVE  reqs'[r].pane \in Generated \/ made'[reqs'[r].pane] > 0
  <2>1. CASE Restarts(r) /\ reqs'[r].pane = reqs[r].pane
    BY <2>1, MakersPane, MadeGrows DEF RestartsInv
  <2>2. ASSUME NEW p \in Panes, RestartSession(r, p), reqs'[r].pane = p
        PROVE  p \in Generated \/ made'[p] > 0
    <3>1. p \in AllPanes(cfg) /\ made' = made
      BY <2>2 DEF RestartSession, sessionVars
    <3>2. PICK w \in ToSet(cfg.items) : p \in cfg.layout[w]
      BY <3>1 DEF AllPanes
    <3>3. w \in Workspaces
      <4>1. cfg \in Configs
        BY DEF PanesTypeOK
      <4>2. PICK i \in DOMAIN cfg.items : w = cfg.items[i]
        BY DEF ToSet
      <4> QED BY <4>1, <4>2, ItemsParts
    <3> QED BY <3>1, <3>2, <3>3 DEF KnownInv, Known
  <2> QED BY <1>1, <2>1, <2>2, WhereFrom
<1>2. ASSUME NEW r \in Requests, NEW q \in Requests, Restarts(r)', Restarts(q)',
             reqs'[r].pane = reqs'[q].pane
      PROVE  r = q
  <2>1. CASE /\ Restarts(r) /\ reqs'[r].pane = reqs[r].pane
             /\ Restarts(q) /\ reqs'[q].pane = reqs[q].pane
    BY <1>2, <2>1 DEF RestartsInv
  <2>2. ASSUME NEW s \in Requests, NEW t \in Requests, s # t, NEW p \in Panes, RestartSession(s, p),
               reqs'[s].pane = p, Restarts(t)'
        PROVE  reqs'[t].pane # p
    <3>1. reqs'[t] = reqs[t]
      BY <2>2, OneRequest DEF Accept
    <3> QED BY <2>2, <3>1 DEF RestartSession, NotRestarting, Restarts
  <2> QED BY <1>2, <2>1, <2>2, WhereFrom
<1> QED BY <1>1, <1>2 DEF RestartsInv

-----------------------------------------------------------------------------
(* Sessions                                                                *)

\* The sessions a step leaves, for a pane it is about and for the others.
LEMMA SessionsAfter ==
  ASSUME PanesTypeOK, [PanesNext]_panesVars
  PROVE  \/ UNCHANGED sessionVars
         \/ \E r \in Requests : LET p == reqs[r].pane IN
              /\ p \in Panes /\ made[p] \in Nat /\ Serve(r) /\ CreateAndAdd(p)
              /\ (Posts(r) /\ ~Posts(r)') \/ reqs[r].op = "addWorkspace"
         \/ \E p \in Panes : RemoveSession(p)
         \/ \E r \in Requests : LET p == reqs[r].pane IN
              p \in Panes /\ made[p] \in Nat /\ Serve(r) /\ RestartMade(r)
         \/ \E r \in Requests : LET p == reqs[r].pane IN
              p \in Panes /\ reqs[r].sess \in Nat /\ Serve(r) /\ RestartAdd(r) /\ HasInHand(r)
<1>1. ASSUME NEW r \in Requests, Serve(r), SessionsMove(r), CreateAndAdd(reqs[r].pane),
             (Posts(r) /\ ~Posts(r)') \/ reqs[r].op = "addWorkspace"
      PROVE  reqs[r].pane \in Panes /\ made[reqs[r].pane] \in Nat
  BY <1>1, MakersPane DEF PanesTypeOK
<1>2. ASSUME NEW r \in Requests, RestartMade(r)
      PROVE  reqs[r].pane \in Panes /\ made[reqs[r].pane] \in Nat
  BY <1>2, MakersPane DEF PanesTypeOK, RestartMade
<1>3. ASSUME NEW r \in Requests, RestartAdd(r)
      PROVE  reqs[r].pane \in Panes /\ reqs[r].sess \in Nat /\ HasInHand(r)
  BY <1>3, RequestForms DEF RestartAdd, HasInHand, Restarts, PanesTypeOK
<1> QED BY <1>1, <1>2, <1>3, SessionsStep DEF SessionsMove

LEMMA NumbersStep ==
  ASSUME PanesTypeOK, NumbersInv, InHandInv, [PanesNext]_panesVars PROVE NumbersInv'
<1>0. /\ sessions \in [Panes -> Nat] /\ made \in [Panes -> Nat] /\ running \in SUBSET (Panes \X Nat)
      /\ \A p \in Panes : made'[p] \in Nat /\ made'[p] >= made[p]
  BY MadeGrows DEF PanesTypeOK
<1>1. CASE UNCHANGED sessionVars
  BY <1>1 DEF NumbersInv, sessionVars
<1>2. ASSUME NEW r \in Requests, reqs[r].pane \in Panes, CreateAndAdd(reqs[r].pane) PROVE NumbersInv'
  <2> DEFINE p == reqs[r].pane
  <2>1. /\ made'[p] = made[p] + 1 /\ sessions'[p] = made[p] + 1
        /\ \A q \in Panes \ {p} : sessions'[q] = sessions[q]
        /\ running' = running \cup {<<p, made[p] + 1>>}
    BY <1>0, <1>2 DEF CreateAndAdd, Number
  <2> HIDE DEF p
  <2>2. p \in Panes
    BY <1>2 DEF p
  <2>3. ASSUME NEW x \in running' PROVE x[2] > 0 /\ x[2] <= made'[x[1]]
    <3>1. CASE x \in running
      <4>1. x[1] \in Panes /\ x[2] \in Nat /\ x[2] > 0 /\ x[2] <= made[x[1]]
        BY <1>0, <3>1 DEF NumbersInv
      <4> QED BY <1>0, <4>1
    <3>2. CASE x = <<p, made[p] + 1>>
      BY <1>0, <2>1, <2>2, <3>2
    <3> QED BY <2>1, <3>1, <3>2
  <2>4. ASSUME NEW q \in Panes PROVE sessions'[q] <= made'[q]
    <3>1. CASE q = p
      BY <1>0, <2>1, <3>1
    <3>2. CASE q # p
      BY <1>0, <2>1, <3>2 DEF NumbersInv
    <3> QED BY <3>1, <3>2
  <2> QED BY <2>3, <2>4 DEF NumbersInv
<1>3. ASSUME NEW p \in Panes, RemoveSession(p) PROVE NumbersInv'
  BY <1>0, <1>3 DEF NumbersInv, RemoveSession
<1>4. ASSUME NEW r \in Requests, reqs[r].pane \in Panes, RestartMade(r) PROVE NumbersInv'
  <2> DEFINE p == reqs[r].pane
  <2>1. /\ made'[p] = made[p] + 1 /\ sessions'[p] = 0
        /\ \A q \in Panes \ {p} : sessions'[q] = sessions[q]
        /\ running' \subseteq running \cup {<<p, made[p] + 1>>}
    BY <1>0, <1>4 DEF RestartMade, Number
  <2> HIDE DEF p
  <2>2. p \in Panes
    BY <1>4 DEF p
  <2>3. ASSUME NEW x \in running' PROVE x[2] > 0 /\ x[2] <= made'[x[1]]
    <3>1. CASE x \in running
      <4>1. x[1] \in Panes /\ x[2] \in Nat /\ x[2] > 0 /\ x[2] <= made[x[1]]
        BY <1>0, <3>1 DEF NumbersInv
      <4> QED BY <1>0, <4>1
    <3>2. CASE x = <<p, made[p] + 1>>
      BY <1>0, <2>1, <2>2, <3>2
    <3> QED BY <2>1, <3>1, <3>2
  <2>4. ASSUME NEW q \in Panes PROVE sessions'[q] <= made'[q]
    <3>1. CASE q = p
      BY <1>0, <2>1, <3>1
    <3>2. CASE q # p
      BY <1>0, <2>1, <3>2 DEF NumbersInv
    <3> QED BY <3>1, <3>2
  <2> QED BY <2>3, <2>4 DEF NumbersInv
<1>5. ASSUME NEW r \in Requests, reqs[r].pane \in Panes, RestartAdd(r), HasInHand(r) PROVE NumbersInv'
  <2>1. <<reqs[r].pane, reqs[r].sess>> \in running
    BY <1>5 DEF InHandInv
  <2>2. reqs[r].sess <= made[reqs[r].pane]
    BY <2>1 DEF NumbersInv
  <2>3. /\ made' = made /\ running' = running
        /\ sessions' = [sessions EXCEPT ![reqs[r].pane] = reqs[r].sess]
    BY <1>5 DEF RestartAdd
  <2>4. \A p \in Panes : sessions'[p] <= made[p]
    BY <1>0, <2>2, <2>3 DEF NumbersInv
  <2> QED BY <2>3, <2>4 DEF NumbersInv
<1> QED BY <1>1, <1>2, <1>3, <1>4, <1>5, SessionsAfter

LEMMA InHandStep ==
  ASSUME PanesTypeOK, NamesInv, InHandInv, [PanesNext]_panesVars PROVE InHandInv'
<1>0. /\ sessions \in [Panes -> Nat] /\ made \in [Panes -> Nat] /\ running \in SUBSET (Panes \X Nat)
      /\ NumbersInv /\ KnownInv /\ PostsInv /\ RestartsInv
  BY DEF PanesTypeOK, NamesInv
<1> SUFFICES ASSUME NEW r \in Requests, HasInHand(r)'
             PROVE  /\ <<reqs'[r].pane, reqs'[r].sess>> \in running'
                    /\ sessions'[reqs'[r].pane] # reqs'[r].sess
                    /\ reqs'[r].pane \notin Generated => sessions'[reqs'[r].pane] = 0
  BY DEF InHandInv
<1>1. CASE RestartMade(r)
  <2>1. reqs[r].pane \in Panes /\ Number(reqs[r].pane) > 0
    BY <1>0, <1>1, MakersPane DEF RestartMade, Number
  <2>2. sessions'[reqs[r].pane] = 0
    BY <1>0, <1>1, <2>1 DEF RestartMade
  <2> QED BY <1>1, <2>1, <2>2 DEF RestartMade
<1>2. CASE HasInHand(r) /\ reqs'[r].pane = reqs[r].pane /\ reqs'[r].sess = reqs[r].sess
  <2> DEFINE p == reqs[r].pane
  <2> DEFINE n == reqs[r].sess
  <2>1. /\ p \in Panes /\ Restarts(r) /\ reqs[r].at # "creating"
        /\ <<p, n>> \in running /\ sessions[p] # n /\ (p \notin Generated => sessions[p] = 0)
    BY <1>2, MakersPane DEF HasInHand, InHandInv
  <2>2. n \in Nat /\ n > 0 /\ n <= made[p] /\ made[p] \in Nat
    BY <1>0, <2>1 DEF NumbersInv
  <2> HIDE DEF p, n
  <2>3. ASSUME <<p, n>> \in running', sessions'[p] # n, p \notin Generated => sessions'[p] = 0
        PROVE  /\ <<reqs'[r].pane, reqs'[r].sess>> \in running'
               /\ sessions'[reqs'[r].pane] # reqs'[r].sess
               /\ reqs'[r].pane \notin Generated => sessions'[reqs'[r].pane] = 0
    BY <1>2, <2>3 DEF p, n
  <2>4. CASE UNCHANGED sessionVars
    BY <2>1, <2>3, <2>4 DEF sessionVars
  <2>5. ASSUME NEW q \in Requests, reqs[q].pane \in Panes, CreateAndAdd(reqs[q].pane),
               Posts(q) \/ reqs[q].op = "addWorkspace"
        PROVE  <<p, n>> \in running' /\ sessions'[p] # n /\ (p \notin Generated => sessions'[p] = 0)
    <3>1. <<p, n>> \in running'
      BY <2>1, <2>5 DEF CreateAndAdd
    <3>2. CASE reqs[q].pane # p
      BY <1>0, <2>1, <2>5, <3>1, <3>2 DEF CreateAndAdd
    <3>3. CASE reqs[q].pane = p
      <4>1. p \in Generated
        BY <1>0, <2>2, <2>5, <3>3 DEF PostsInv, KnownInv
      <4>2. sessions'[p] = made[p] + 1
        BY <1>0, <2>1, <2>5, <3>3 DEF CreateAndAdd, Number
      <4> QED BY <2>2, <3>1, <4>1, <4>2
    <3> QED BY <3>2, <3>3
  <2>6. ASSUME NEW p2 \in Panes, RemoveSession(p2)
        PROVE  <<p, n>> \in running' /\ sessions'[p] # n /\ (p \notin Generated => sessions'[p] = 0)
    <3>1. <<p, n>> # <<p2, sessions[p2]>>
      BY <2>1
    <3>2. sessions'[p] \in {0, sessions[p]}
      BY <1>0, <2>1, <2>6 DEF RemoveSession
    <3> QED BY <2>1, <2>2, <2>6, <3>1, <3>2 DEF RemoveSession
  <2>7. ASSUME NEW q \in Requests, reqs[q].pane \in Panes,
               RestartMade(q) \/ (RestartAdd(q) /\ HasInHand(q))
        PROVE  <<p, n>> \in running' /\ sessions'[p] # n /\ (p \notin Generated => sessions'[p] = 0)
    <3>1. q # r
      <4>1. RestartAdd(r) => reqs'[r] = Idle
        BY DEF RestartAdd, Become, PanesTypeOK
      <4>2. Idle.op = "none"
        BY DEF Idle
      <4> QED BY <2>1, <2>7, <4>1, <4>2 DEF RestartMade, HasInHand, Restarts
    <3>2. reqs[q].pane # p
      BY <1>0, <2>1, <2>7, <3>1 DEF RestartsInv, RestartMade, HasInHand, p
    <3>3. sessions'[p] = sessions[p]
      BY <1>0, <2>1, <2>7, <3>2 DEF RestartMade, RestartAdd
    <3>4. <<p, n>> \in running'
      BY <2>1, <2>7, <3>2 DEF RestartMade, RestartAdd
    <3> QED BY <2>1, <3>3, <3>4
  <2> QED BY <2>3, <2>4, <2>5, <2>6, <2>7, SessionsAfter
<1> QED BY <1>1, <1>2, WhereFrom

LEMMA OpensStep ==
  ASSUME PanesTypeOK, NumbersInv, InHandInv, OpensInv, [PanesNext]_panesVars PROVE OpensInv'
<1>0. /\ sessions \in [Panes -> Nat] /\ made \in [Panes -> Nat]
      /\ \A p \in Panes : made'[p] \in Nat /\ made'[p] >= made[p]
  BY MadeGrows DEF PanesTypeOK
<1> SUFFICES ASSUME NEW r \in Requests, Opens(r)'
             PROVE  /\ reqs'[r].sess > 0 /\ reqs'[r].sess <= made'[reqs'[r].pane]
                    /\ \A q \in Requests : HasInHand(q)' /\ reqs'[q].pane = reqs'[r].pane
                                             => reqs'[q].sess # reqs'[r].sess
  BY DEF OpensInv
<1>1. CASE Opens(r) /\ reqs'[r].pane = reqs[r].pane /\ reqs'[r].sess = reqs[r].sess
  <2>1. /\ reqs[r].pane \in Panes /\ reqs[r].sess \in Nat
        /\ reqs[r].sess > 0 /\ reqs[r].sess <= made[reqs[r].pane]
    BY <1>1, RequestForms DEF PanesTypeOK, Opens, OpensInv
  <2>2. reqs[r].sess <= made'[reqs[r].pane]
    BY <1>0, <2>1
  <2>3. ASSUME NEW q \in Requests, HasInHand(q)', reqs'[q].pane = reqs'[r].pane
        PROVE  reqs'[q].sess # reqs'[r].sess
    <3>1. CASE HasInHand(q) /\ reqs'[q].pane = reqs[q].pane /\ reqs'[q].sess = reqs[q].sess
      BY <1>1, <2>3, <3>1 DEF OpensInv
    <3>2. CASE RestartMade(q)
      <4>1. reqs'[q].sess = made[reqs[r].pane] + 1
        BY <1>1, <2>3, <3>2 DEF RestartMade, Number
      <4> QED BY <1>0, <1>1, <2>1, <4>1
    <3> QED BY <2>3, <3>1, <3>2, WhereFrom
  <2> QED BY <1>1, <2>1, <2>2, <2>3
<1>2. ASSUME NEW p \in Panes, NEW o \in Ports, PostOpenURL(r, p, o),
             reqs'[r].pane = p, reqs'[r].sess = sessions[p]
      PROVE  /\ reqs'[r].sess > 0 /\ reqs'[r].sess <= made'[reqs'[r].pane]
             /\ \A q \in Requests : HasInHand(q)' /\ reqs'[q].pane = reqs'[r].pane
                                      => reqs'[q].sess # reqs'[r].sess
  <2>1. sessions[p] # 0 /\ made' = made /\ Accept(r)
    BY <1>2 DEF PostOpenURL, sessionVars, Accept
  <2>2. sessions[p] > 0 /\ sessions[p] <= made'[p]
    BY <1>0, <2>1 DEF NumbersInv
  <2>3. ASSUME NEW q \in Requests, HasInHand(q)', reqs'[q].pane = p PROVE reqs'[q].sess # sessions[p]
    <3>1. q # r
      <4>1. reqs'[r].op = "open"
        BY <1>2 DEF PostOpenURL, Become, PanesTypeOK
      <4> QED BY <2>3, <4>1 DEF HasInHand, Restarts
    <3>2. reqs'[q] = reqs[q]
      BY <2>1, <3>1, OneRequest
    <3> QED BY <2>3, <3>2 DEF InHandInv, HasInHand, Restarts
  <2> QED BY <1>2, <2>2, <2>3
<1> QED BY <1>1, <1>2, WhereFrom

-----------------------------------------------------------------------------
(* No session is lost                                                      *)

\* A restart keeps its session until it registers it.
LEMMA InHandStays ==
  ASSUME PanesTypeOK, [PanesNext]_panesVars, NEW r \in Requests, HasInHand(r)
  PROVE  \/ HasInHand(r)' /\ reqs'[r].pane = reqs[r].pane /\ reqs'[r].sess = reqs[r].sess
         \/ Serve(r) /\ RestartAdd(r)
<1>1. CASE reqs'[r] = reqs[r]
  BY <1>1 DEF HasInHand, Restarts
<1>2. CASE Accept(r)
  <2>1. reqs[r] = Idle
    BY <1>2 DEF Accept, PostSession, DeleteSession, RestartSession, PostWorkspace, PostOpenURL, DeleteWorkspace
  <2> QED BY <2>1 DEF HasInHand, Restarts, Idle
<1>3. CASE Serve(r)
  <2>1. RestartClose(r) \/ RestartAdd(r)
    BY <1>3 DEF Serve, PostSessionEnd, DeleteSessionRemove, DeleteSessionClose, RestartCreate,
                PostWorkspaceCreate, PostWorkspaceSave, DeleteWorkspaceRemove, OpenEnsure, OpenCheck,
                HasInHand, Restarts
  <2>2. CASE RestartClose(r)
    <3>1. reqs[r] \in RequestType /\ reqs[r].op = "restart" /\ reqs'[r] = [reqs[r] EXCEPT !.at = "adding"]
      BY <2>2 DEF RestartClose, Become, PanesTypeOK
    <3>2. reqs'[r].op = "restart" /\ reqs'[r].at = "adding" /\ reqs'[r].pane = reqs[r].pane
          /\ reqs'[r].sess = reqs[r].sess
      BY <3>1, RestartGoesOn
    <3> QED BY <3>2 DEF HasInHand, Restarts
  <2> QED BY <1>3, <2>1, <2>2
<1>4. CASE Layouts \/ Forwarding \/ UNCHANGED panesVars
  BY <1>1, <1>4, RequestsAlone
<1>5. ASSUME NEW q \in Requests, q # r, Accept(q) \/ Serve(q) PROVE reqs'[r] = reqs[r]
  BY <1>5, OneRequest
<1> QED BY <1>1, <1>2, <1>3, <1>4, <1>5 DEF PanesNext

LEMMA InHandHeld ==
  ASSUME PanesTypeOK, [PanesNext]_panesVars, NEW p, NEW n, InHand(p, n),
         \A r \in Requests : reqs[r].pane = p => ~RestartAdd(r)
  PROVE  InHand(p, n)'
<1>1. PICK r \in Requests : HasInHand(r) /\ reqs[r].pane = p /\ reqs[r].sess = n
  BY DEF InHand, HasInHand, Restarts
<1>2. HasInHand(r)' /\ reqs'[r].pane = p /\ reqs'[r].sess = n
  BY <1>1, InHandStays
<1> QED BY <1>2 DEF InHand, HasInHand, Restarts

LEMMA NoSessionLostStep ==
  ASSUME PanesTypeOK, NamesInv, InHandInv, NoSessionLost, [PanesNext]_panesVars PROVE NoSessionLost'
<1>0. /\ sessions \in [Panes -> Nat] /\ made \in [Panes -> Nat] /\ running \in SUBSET (Panes \X Nat)
      /\ NumbersInv /\ KnownInv /\ PostsInv /\ RestartsInv
  BY DEF PanesTypeOK, NamesInv
\* Unless a restart registers its session, what is in hand stays so.
<1>a. ASSUME NEW x \in running, x[1] \notin Generated, sessions'[x[1]] = sessions[x[1]],
             \A r \in Requests : reqs[r].pane = x[1] => ~RestartAdd(r)
      PROVE  sessions'[x[1]] = x[2] \/ InHand(x[1], x[2])'
  <2>1. sessions[x[1]] = x[2] \/ InHand(x[1], x[2])
    BY <1>a DEF NoSessionLost
  <2> QED BY <1>a, <2>1, InHandHeld
<1>1. CASE UNCHANGED sessionVars
  <2>1. sessions' = sessions /\ running' = running
    BY <1>1 DEF sessionVars
  <2>2. \A r \in Requests : ~RestartAdd(r)
    <3> SUFFICES ASSUME NEW r \in Requests, RestartAdd(r) PROVE FALSE
      OBVIOUS
    <3>1. reqs[r].pane \in Panes /\ HasInHand(r) /\ sessions' = [sessions EXCEPT ![reqs[r].pane] = reqs[r].sess]
      BY RequestForms DEF RestartAdd, HasInHand, Restarts, PanesTypeOK
    <3>2. sessions'[reqs[r].pane] = reqs[r].sess
      BY <1>0, <3>1
    <3> QED BY <2>1, <3>1, <3>2 DEF InHandInv
  <2>3. \A x \in running' : x[1] \notin Generated => sessions'[x[1]] = x[2] \/ InHand(x[1], x[2])'
    BY <1>a, <2>1, <2>2
  <2> QED BY <2>1, <2>3 DEF NoSessionLost
<1>2. ASSUME NEW r \in Requests, reqs[r].pane \in Panes, made[reqs[r].pane] \in Nat, Serve(r),
             CreateAndAdd(reqs[r].pane), (Posts(r) /\ ~Posts(r)') \/ reqs[r].op = "addWorkspace"
      PROVE  NoSessionLost'
  <2>0. PICK p \in Panes : p = reqs[r].pane
    BY <1>2
  <2>1. /\ sessions'[p] = made[p] + 1 /\ \A q \in Panes \ {p} : sessions'[q] = sessions[q]
        /\ running' = running \cup {<<p, made[p] + 1>>}
        /\ made' # made
    BY <1>0, <1>2, <2>0 DEF CreateAndAdd, Number
  <2>2. \A q \in Requests : ~RestartAdd(q)
    BY <2>1 DEF RestartAdd
  <2>3. ASSUME NEW x \in running', x[1] \notin Generated
        PROVE  sessions'[x[1]] = x[2] \/ InHand(x[1], x[2])'
    <3>1. CASE x = <<p, made[p] + 1>>
      BY <2>1, <3>1
    <3>2. CASE x \in running /\ x[1] # p
      BY <1>0, <1>a, <2>1, <2>2, <2>3, <3>2
    <3>3. CASE x \in running /\ x[1] = p
      <4>1. x[2] > 0 /\ x[2] <= made[p] /\ x[2] \in Nat
        BY <1>0, <3>3 DEF NumbersInv
      <4>2. made[p] = 0
        BY <1>0, <1>2, <2>0, <2>3, <3>3 DEF PostsInv, KnownInv
      <4> QED BY <4>1, <4>2
    <3> QED BY <2>1, <3>1, <3>2, <3>3
  <2>4. ASSUME NEW q \in Panes, sessions'[q] # 0 PROVE <<q, sessions'[q]>> \in running'
    <3>1. CASE q = p
      BY <2>1, <3>1
    <3>2. CASE q # p
      BY <2>1, <2>4, <3>2 DEF NoSessionLost
    <3> QED BY <3>1, <3>2
  <2> QED BY <2>3, <2>4 DEF NoSessionLost
<1>3. ASSUME NEW p \in Panes, RemoveSession(p) PROVE NoSessionLost'
  <2>1. /\ sessions'[p] = 0 /\ \A q \in Panes \ {p} : sessions'[q] = sessions[q]
        /\ running' = running \ {<<p, sessions[p]>>}
    BY <1>0, <1>3 DEF RemoveSession
  <2>2. \A r \in Requests : ~RestartAdd(r)
    <3> SUFFICES ASSUME NEW r \in Requests, RestartAdd(r) PROVE FALSE
      OBVIOUS
    <3>1. /\ reqs[r].pane \in Panes /\ HasInHand(r) /\ reqs[r].sess \in Nat /\ running' = running
          /\ sessions' = [sessions EXCEPT ![reqs[r].pane] = reqs[r].sess]
      BY RequestForms DEF RestartAdd, HasInHand, Restarts, PanesTypeOK
    <3>2. sessions'[reqs[r].pane] = reqs[r].sess /\ sessions[reqs[r].pane] # reqs[r].sess
      BY <1>0, <3>1 DEF InHandInv
    <3>3. reqs[r].pane = p /\ reqs[r].sess = 0
      BY <2>1, <3>1, <3>2
    <3>4. <<p, 0>> \in running
      BY <3>1, <3>3 DEF InHandInv
    <3> QED BY <1>0, <3>4 DEF NumbersInv
  <2>3. ASSUME NEW x \in running', x[1] \notin Generated
        PROVE  sessions'[x[1]] = x[2] \/ InHand(x[1], x[2])'
    <3>1. x \in running /\ x # <<p, sessions[p]>> /\ x[1] \in Panes /\ x = <<x[1], x[2]>>
      BY <1>0, <2>1
    <3>2. CASE x[1] # p
      BY <1>a, <2>1, <2>2, <2>3, <3>1, <3>2
    <3>3. CASE x[1] = p
      <4>1. InHand(x[1], x[2])
        BY <2>3, <3>1, <3>3 DEF NoSessionLost
      <4> QED BY <2>2, <4>1, InHandHeld
    <3> QED BY <3>2, <3>3
  <2>4. ASSUME NEW q \in Panes, sessions'[q] # 0 PROVE <<q, sessions'[q]>> \in running'
    BY <2>1, <2>4 DEF NoSessionLost
  <2> QED BY <2>3, <2>4 DEF NoSessionLost
<1>4. ASSUME NEW r \in Requests, reqs[r].pane \in Panes, made[reqs[r].pane] \in Nat, RestartMade(r)
      PROVE  NoSessionLost'
  <2>0. PICK p \in Panes : p = reqs[r].pane
    BY <1>4
  <2>1. /\ sessions'[p] = 0 /\ \A q \in Panes \ {p} : sessions'[q] = sessions[q]
        /\ running' = (running \ {<<p, sessions[p]>>}) \cup {<<p, made[p] + 1>>}
        /\ made' # made
    BY <1>0, <1>4, <2>0 DEF RestartMade, Number
  <2>2. \A q \in Requests : ~RestartAdd(q)
    BY <2>1 DEF RestartAdd
  <2>3. ASSUME NEW x \in running', x[1] \notin Generated
        PROVE  sessions'[x[1]] = x[2] \/ InHand(x[1], x[2])'
    <3>1. CASE x = <<p, made[p] + 1>>
      BY <1>4, <2>0, <3>1 DEF InHand, RestartMade, Restarts, Number
    <3>2. CASE x \in running /\ x[1] # p
      BY <1>0, <1>a, <2>1, <2>2, <2>3, <3>2
    <3>3. CASE x \in running /\ x[1] = p /\ x # <<p, sessions[p]>>
      <4>1. x = <<p, x[2]>>
        BY <1>0, <3>3
      <4>2. InHand(p, x[2])
        BY <2>3, <3>3, <4>1 DEF NoSessionLost
      <4>3. PICK q \in Requests : HasInHand(q) /\ reqs[q].pane = p
        BY <4>2 DEF InHand, HasInHand, Restarts
      <4>4. q = r
        BY <1>0, <1>4, <2>0, <4>3 DEF RestartsInv, HasInHand, RestartMade
      <4> QED BY <1>4, <4>3, <4>4 DEF RestartMade, HasInHand
    <3> QED BY <2>1, <3>1, <3>2, <3>3
  <2>4. ASSUME NEW q \in Panes, sessions'[q] # 0 PROVE <<q, sessions'[q]>> \in running'
    BY <2>1, <2>4 DEF NoSessionLost
  <2> QED BY <2>3, <2>4 DEF NoSessionLost
<1>5. ASSUME NEW r \in Requests, reqs[r].pane \in Panes, reqs[r].sess \in Nat, RestartAdd(r), HasInHand(r)
      PROVE  NoSessionLost'
  <2>0. PICK p \in Panes, n \in Nat : p = reqs[r].pane /\ n = reqs[r].sess
    BY <1>5
  <2>1. /\ sessions'[p] = n /\ \A q \in Panes \ {p} : sessions'[q] = sessions[q]
        /\ running' = running /\ <<p, n>> \in running /\ (p \notin Generated => sessions[p] = 0)
    BY <1>0, <1>5, <2>0 DEF RestartAdd, InHandInv
  <2>2. \A q \in Requests : RestartAdd(q) => q = r \/ reqs[q].pane # p
    BY <1>0, <1>5, <2>0 DEF RestartAdd, RestartsInv, HasInHand, Restarts
  <2>3. ASSUME NEW x \in running', x[1] \notin Generated
        PROVE  sessions'[x[1]] = x[2] \/ InHand(x[1], x[2])'
    <3>1. x \in running /\ x[1] \in Panes /\ x[2] \in Nat
      BY <1>0, <2>1
    <3>2. CASE x[1] # p
      <4>1. \A q \in Requests : reqs[q].pane = x[1] => ~RestartAdd(q)
        <5> SUFFICES ASSUME NEW q \in Requests, reqs[q].pane = x[1], RestartAdd(q) PROVE FALSE
          OBVIOUS
        <5>1. sessions' = [sessions EXCEPT ![x[1]] = reqs[q].sess] /\ HasInHand(q)
          BY DEF RestartAdd, HasInHand, Restarts
        <5>2. sessions'[x[1]] = reqs[q].sess /\ sessions[x[1]] # reqs[q].sess
          BY <1>0, <3>1, <5>1 DEF InHandInv
        <5> QED BY <2>1, <3>1, <3>2, <5>2
      <4> QED BY <1>a, <2>1, <2>3, <3>1, <3>2, <4>1
    <3>3. CASE x[1] = p
      <4>1. sessions[p] = 0 /\ x[2] > 0
        BY <1>0, <2>1, <2>3, <3>1, <3>3 DEF NumbersInv
      <4>2. InHand(p, x[2])
        BY <2>3, <3>1, <3>3, <4>1 DEF NoSessionLost
      <4>3. PICK q \in Requests : HasInHand(q) /\ reqs[q].pane = p /\ reqs[q].sess = x[2]
        BY <4>2 DEF InHand, HasInHand, Restarts
      <4>4. q = r
        BY <1>0, <1>5, <2>0, <4>3 DEF RestartsInv, HasInHand
      <4> QED BY <2>0, <2>1, <3>3, <4>3, <4>4
    <3> QED BY <3>2, <3>3
  <2>4. ASSUME NEW q \in Panes, sessions'[q] # 0 PROVE <<q, sessions'[q]>> \in running'
    BY <2>1, <2>4 DEF NoSessionLost
  <2> QED BY <2>3, <2>4 DEF NoSessionLost
<1> QED BY <1>1, <1>2, <1>3, <1>4, <1>5, SessionsAfter

-----------------------------------------------------------------------------
(* Forwards                                                                *)

\* A session that no longer runs was closed with its workspace, or its pane's
\* forwards are about to be closed.
LEMMA RunningLeaves ==
  ASSUME PanesTypeOK, [PanesNext]_panesVars, NEW x \in running \ running'
  PROVE  x \in dropped' \/ Closing(x[1])'
<1>0. reqs \in [Requests -> RequestType] /\ sessions \in [Panes -> Nat]
  BY DEF PanesTypeOK
<1>1. PICK r \in Requests : Serve(r)
  BY SessionsAlone DEF sessionVars
<1>2. CASE DeleteSessionRemove(r)
  <2>1. /\ x = <<reqs[r].pane, sessions[reqs[r].pane]>>
        /\ reqs'[r] = [reqs[r] EXCEPT !.at = "closing"] /\ reqs[r].op = "delete"
    BY <1>0, <1>2 DEF DeleteSessionRemove, RemoveSession, Become
  <2>2. reqs'[r].op = "delete" /\ reqs'[r].at = "closing" /\ reqs'[r].pane = reqs[r].pane
    BY <1>0, <2>1, DeleteGoesOn
  <2> QED BY <2>1, <2>2 DEF Closing
<1>3. CASE RestartCreate(r)
  <2>1. RestartMade(r)
    <3>1. SessionsMove(r) /\ ~UNCHANGED sessionVars
      BY <1>1, SessionsMoveSo DEF sessionVars
    <3>2. ~Posts(r) /\ reqs[r].op # "addWorkspace" /\ ~RestartAdd(r)
      BY <1>3 DEF RestartCreate, RestartAdd, Posts
    <3>3. \A p \in Panes : ~RemoveSession(p)
      <4>1. made' # made
        <5>1. reqs[r].pane \in Panes /\ made \in [Panes -> Nat]
          BY <1>3, RequestPane DEF RestartCreate, PanesTypeOK
        <5>2. made' = [made EXCEPT ![reqs[r].pane] = made[reqs[r].pane] + 1]
          BY <1>3, <3>1 DEF RestartCreate, Number
        <5> QED BY <5>1, <5>2
      <4> QED BY <4>1 DEF RemoveSession
    <3> QED BY <3>1, <3>2, <3>3 DEF SessionsMove
  <2>2. x = <<reqs[r].pane, sessions[reqs[r].pane]>>
    BY <2>1 DEF RestartMade
  <2> QED BY <2>1, <2>2 DEF RestartMade, Restarts, Closing
<1>4. CASE PostWorkspaceSave(r) \/ DeleteWorkspaceRemove(r)
  BY <1>4 DEF PostWorkspaceSave, DeleteWorkspaceRemove, RemoveSession, sessionVars
<1>5. CASE PostSessionEnd(r) \/ PostWorkspaceCreate(r) \/ RestartAdd(r) \/ DeleteSessionClose(r)
             \/ RestartClose(r) \/ OpenEnsure(r) \/ OpenCheck(r)
  BY <1>5 DEF PostSessionEnd, PostWorkspaceCreate, RestartAdd, CreateAndAdd, DeleteSessionClose, RestartClose,
              OpenEnsure, OpenCheck, sessionVars
<1> QED BY <1>1, <1>2, <1>3, <1>4, <1>5 DEF Serve

LEMMA DroppedGrows == ASSUME [PanesNext]_panesVars PROVE dropped \subseteq dropped'
<1>1. CASE \E r \in Requests : Serve(r)
  BY <1>1 DEF Serve, PostSessionEnd, DeleteSessionRemove, DeleteSessionClose, RestartCreate, RestartClose,
              RestartAdd, PostWorkspaceCreate, PostWorkspaceSave, DeleteWorkspaceRemove, OpenEnsure, OpenCheck
<1>2. CASE \A r \in Requests : ~Serve(r)
  BY <1>2, SessionsAlone
<1> QED BY <1>1, <1>2

\* The session an open-url request was for is not registered again.
LEMMA NotTheOneAgain ==
  ASSUME PanesTypeOK, NamesInv, InHandInv, OpensInv, [PanesNext]_panesVars,
         NEW r \in Requests, Opens(r), ~StillTheOne(reqs[r])
  PROVE  sessions'[reqs[r].pane] # reqs[r].sess
<1>0. PICK p \in Panes, n \in Nat : p = reqs[r].pane /\ n = reqs[r].sess
  BY RequestForms DEF PanesTypeOK, Opens
<1>1. /\ sessions[p] # n /\ n > 0 /\ n <= made[p]
      /\ sessions \in [Panes -> Nat] /\ made \in [Panes -> Nat]
  BY <1>0 DEF PanesTypeOK, OpensInv, StillTheOne
<1>2. CASE UNCHANGED sessionVars
  BY <1>0, <1>1, <1>2 DEF sessionVars
<1>3. ASSUME NEW q \in Requests, reqs[q].pane \in Panes, CreateAndAdd(reqs[q].pane)
      PROVE  sessions'[p] # n
  <2>1. sessions'[p] \in {sessions[p], made[p] + 1}
    BY <1>1, <1>3 DEF CreateAndAdd, Number
  <2> QED BY <1>1, <2>1
<1>4. ASSUME NEW q \in Panes, RemoveSession(q) PROVE sessions'[p] # n
  <2>1. sessions'[p] \in {sessions[p], 0}
    BY <1>1, <1>4 DEF RemoveSession
  <2> QED BY <1>1, <2>1
<1>5. ASSUME NEW q \in Requests, reqs[q].pane \in Panes, RestartMade(q) PROVE sessions'[p] # n
  <2>1. sessions'[p] \in {sessions[p], 0}
    BY <1>1, <1>5 DEF RestartMade
  <2> QED BY <1>1, <2>1
<1>6. ASSUME NEW q \in Requests, reqs[q].pane \in Panes, RestartAdd(q), HasInHand(q) PROVE sessions'[p] # n
  <2>1. sessions' = [sessions EXCEPT ![reqs[q].pane] = reqs[q].sess]
    BY <1>6 DEF RestartAdd
  <2>2. reqs[q].pane = p => reqs[q].sess # n
    BY <1>0, <1>6 DEF OpensInv
  <2> QED BY <1>1, <1>6, <2>1, <2>2
<1> QED BY <1>0, <1>2, <1>3, <1>4, <1>5, <1>6, SessionsAfter

\* What was about to be closed still is, or is closed now.
LEMMA ClosingStays ==
  ASSUME PanesTypeOK, NamesInv, InHandInv, OpensInv, [PanesNext]_panesVars, NEW p \in Panes, Closing(p)
  PROVE  Closing(p)' \/ CloseSession(p)
<1>1. PICK r \in Requests :
        /\ reqs[r].op \in {"delete", "restart", "open"} /\ reqs[r].pane = p
        /\ \/ reqs[r].op # "open" /\ reqs[r].at = "closing"
           \/ reqs[r].op = "open" /\ reqs[r].at = "checking" /\ ~StillTheOne(reqs[r])
  BY DEF Closing
<1>2. CASE reqs'[r] = reqs[r]
  <2>1. CASE reqs[r].op # "open"
    BY <1>1, <1>2, <2>1 DEF Closing
  <2>2. CASE reqs[r].op = "open"
    <3>1. sessions'[reqs'[r].pane] # reqs'[r].sess
      BY <1>1, <1>2, <2>2, NotTheOneAgain DEF Opens
    <3> QED BY <1>1, <1>2, <2>2, <3>1 DEF Closing, StillTheOne
  <2> QED BY <2>1, <2>2
<1>3. CASE Accept(r)
  <2>1. reqs[r] = Idle
    BY <1>3 DEF Accept, PostSession, DeleteSession, RestartSession, PostWorkspace, PostOpenURL, DeleteWorkspace
  <2> QED BY <1>1, <2>1 DEF Idle
<1>4. CASE Serve(r)
  <2>1. DeleteSessionClose(r) \/ RestartClose(r) \/ OpenCheck(r)
    BY <1>1, <1>4 DEF Serve, PostSessionEnd, DeleteSessionRemove, RestartCreate, RestartAdd,
                PostWorkspaceCreate, PostWorkspaceSave, DeleteWorkspaceRemove, OpenEnsure
  <2> QED BY <1>1, <2>1 DEF DeleteSessionClose, RestartClose, OpenCheck
<1>5. CASE Layouts \/ Forwarding \/ UNCHANGED panesVars
  BY <1>2, <1>5, RequestsAlone
<1>6. ASSUME NEW q \in Requests, q # r, Accept(q) \/ Serve(q) PROVE reqs'[r] = reqs[r]
  BY <1>6, OneRequest
<1> QED BY <1>2, <1>3, <1>4, <1>5, <1>6 DEF PanesNext

\* A forward that is bound was, for the same session, or was bound now.
LEMMA BoundBefore ==
  ASSUME PanesTypeOK, ForwardsMove, NEW o \in Bound'
  PROVE  \/ /\ o \in Bound /\ ~CloseSession(forwards[o].pane) /\ ~CloseForwards
            /\ forwards'[o].pane = forwards[o].pane /\ forwards'[o].sess = forwards[o].sess
         \/ \E r \in Requests : /\ OpenEnsure(r) /\ reqs'[r] = [reqs[r] EXCEPT !.at = "checking"] /\ ~closed
                                /\ forwards'[o].pane = reqs[r].pane /\ forwards'[o].sess = reqs[r].sess
<1>0. ForwardsTyped /\ o \in Ports /\ forwards'[o] # NoForward /\ forwards \in [Ports -> {NoForward} \cup [pane : Panes, sess : Nat, live : Nat]]
  BY DEF PanesTypeOK, ForwardsTyped, Bound
<1>1. ASSUME NEW p, CloseSession(p)
      PROVE  o \in Bound /\ forwards'[o] = forwards[o] /\ forwards[o].pane # p
  BY <1>0, <1>1 DEF CloseSession, BoundFor, Bound
<1>2. ~CloseForwards
  BY <1>0 DEF CloseForwards
<1>3. ASSUME o \in Bound, forwards'[o].pane = forwards[o].pane, forwards'[o].sess = forwards[o].sess
      PROVE  \/ /\ o \in Bound /\ ~CloseSession(forwards[o].pane) /\ ~CloseForwards
                /\ forwards'[o].pane = forwards[o].pane /\ forwards'[o].sess = forwards[o].sess
  BY <1>1, <1>2, <1>3
<1>4. CASE forwards' = forwards
  BY <1>0, <1>3, <1>4 DEF Bound
<1>5. ASSUME NEW r \in Requests, DeleteSessionClose(r) \/ RestartClose(r) \/ OpenCheck(r)
      PROVE  forwards' = forwards \/ \E p : CloseSession(p)
  BY <1>5 DEF DeleteSessionClose, RestartClose, OpenCheck
<1>6. ASSUME NEW r \in Requests, OpenEnsure(r), forwards' # forwards, forwards'[o] # forwards[o]
      PROVE  /\ reqs'[r] = [reqs[r] EXCEPT !.at = "checking"] /\ ~closed
             /\ forwards'[o].pane = reqs[r].pane /\ forwards'[o].sess = reqs[r].sess
  <2>1. /\ MayBind(reqs[r].pane) /\ Become(r, [reqs[r] EXCEPT !.at = "checking"])
        /\ forwards' = [forwards EXCEPT ![reqs[r].port] =
                          [pane |-> reqs[r].pane, sess |-> reqs[r].sess, live |-> 0]]
    BY <1>6 DEF OpenEnsure
  <2>2. forwards'[o] = [pane |-> reqs[r].pane, sess |-> reqs[r].sess, live |-> 0]
    BY <1>0, <1>6, <2>1
  <2> QED BY <2>1, <2>2 DEF MayBind, Become, PanesTypeOK
<1>7. ASSUME NEW i \in Ports, BeginConn(i) \/ EndConn(i)
      PROVE  o \in Bound /\ forwards'[o].pane = forwards[o].pane /\ forwards'[o].sess = forwards[o].sess
  <2>1. CASE i = o
    <3>1. forwards[o] \in [pane : Panes, sess : Nat, live : Nat] /\ o \in Bound
      BY <1>0, <1>7, <2>1, BoundParts DEF BeginConn, EndConn
    <3>2. CASE BeginConn(o)
      <4>1. forwards'[o] = [forwards[o] EXCEPT !.live = @ + 1]
        BY <1>0, <3>2 DEF BeginConn
      <4> QED BY <3>1, <4>1
    <3>3. CASE EndConn(o)
      <4>1. forwards'[o] = [forwards[o] EXCEPT !.live = @ - 1]
        BY <1>0, <3>3 DEF EndConn
      <4> QED BY <3>1, <4>1
    <3> QED BY <1>7, <2>1, <3>2, <3>3
  <2>2. CASE i # o
    BY <1>0, <1>7, <2>2 DEF BeginConn, EndConn, Bound
  <2> QED BY <2>1, <2>2
<1>8. ASSUME NEW i \in Ports, Reap(i) PROVE o \in Bound /\ forwards'[o] = forwards[o]
  BY <1>0, <1>8 DEF Reap, Bound
<1>9. CASE forwards'[o] = forwards[o]
  BY <1>0, <1>3, <1>9 DEF Bound
<1> QED BY <1>1, <1>2, <1>3, <1>4, <1>5, <1>6, <1>7, <1>8, <1>9 DEF ForwardsMove, Forwarding, forwardVars

LEMMA ForwardsStep ==
  ASSUME PanesTypeOK, NamesInv, InHandInv, OpensInv, SessionsKept, [PanesNext]_panesVars
  PROVE  ForwardsFollowSessions'
<1>0. ForwardsMove /\ ForwardsTyped
  BY ForwardsAlone DEF PanesTypeOK, ForwardsTyped
<1>1. ASSUME NEW o \in Bound'
      PROVE  <<forwards'[o].pane, forwards'[o].sess>> \in running' \cup dropped' \/ Closing(forwards[o].pane)'
  <2>1. CASE /\ o \in Bound /\ ~CloseSession(forwards[o].pane)
             /\ forwards'[o].pane = forwards[o].pane /\ forwards'[o].sess = forwards[o].sess
    <3>1. PICK p \in Panes, n \in Nat : p = forwards[o].pane /\ n = forwards[o].sess
      BY <1>0, <2>1, BoundParts
    <3>2. <<p, n>> \in running \cup dropped \/ Closing(p)
      BY <2>1, <3>1 DEF SessionsKept, ForwardsFollowSessions
    <3>3. CASE Closing(p)
      <4>1. Closing(p)'
        BY <2>1, <3>1, <3>3, ClosingStays
      <4> QED BY <2>1, <3>1, <4>1 DEF Closing, StillTheOne
    <3>4. CASE <<p, n>> \in running \ running'
      <4>1. <<p, n>> \in dropped' \/ Closing(p)'
        BY <3>4, RunningLeaves
      <4> QED BY <2>1, <3>1, <4>1 DEF Closing, StillTheOne
    <3>5. CASE <<p, n>> \in running' \cup dropped
      BY <2>1, <3>1, <3>5, DroppedGrows
    <3> QED BY <3>2, <3>3, <3>4, <3>5
  <2>2. ASSUME NEW r \in Requests, OpenEnsure(r), reqs'[r] = [reqs[r] EXCEPT !.at = "checking"],
               forwards'[o].pane = reqs[r].pane, forwards'[o].sess = reqs[r].sess
        PROVE  <<forwards'[o].pane, forwards'[o].sess>> \in running' \cup dropped' \/ Closing(forwards[o].pane)'
    <3>1. PICK p \in Panes, n \in Nat : p = reqs[r].pane /\ n = reqs[r].sess
      BY <2>2, RequestForms DEF PanesTypeOK, OpenEnsure
    <3>2. sessions' = sessions /\ running' = running /\ reqs[r].op = "open" /\ reqs[r] \in RequestType
      BY <2>2 DEF OpenEnsure, sessionVars, PanesTypeOK
    <3>3. reqs'[r].op = "open" /\ reqs'[r].at = "checking" /\ reqs'[r].pane = p /\ reqs'[r].sess = n
      BY <2>2, <3>1, <3>2, OpenGoesOn
    <3>4. CASE sessions[p] = n
      <4>1. n > 0
        BY <3>1, <3>2 DEF OpensInv, Opens
      <4> QED BY <2>2, <3>1, <3>2, <3>4, <4>1 DEF SessionsKept, NoSessionLost
    <3>5. CASE sessions[p] # n
      BY <2>2, <3>1, <3>2, <3>3, <3>5 DEF Closing, StillTheOne
    <3> QED BY <3>4, <3>5
  <2> QED BY <1>0, <2>1, <2>2, BoundBefore
<1>2. ASSUME closed' PROVE Bound' = {}
  <2>1. CASE closed
    <3>1. Bound = {}
      BY <2>1 DEF SessionsKept, ForwardsFollowSessions
    <3> QED BY <1>0, <2>1, <3>1, BoundBefore
  <2>2. CASE ~closed
    <3>1. CloseForwards
      BY <1>0, <1>2, <2>2 DEF ForwardsMove, Forwarding, forwardVars, DeleteSessionClose, RestartClose,
                              OpenEnsure, OpenCheck, BeginConn, EndConn, Reap
    <3> QED BY <3>1 DEF CloseForwards, Bound
  <2> QED BY <2>1, <2>2
<1> QED BY <1>1, <1>2 DEF ForwardsFollowSessions

-----------------------------------------------------------------------------
(* The invariant                                                           *)

LEMMA PanesInvInit == PanesInit => PanesInv /\ SessionsKept
<1> SUFFICES ASSUME PanesInit PROVE PanesInv /\ SessionsKept
  OBVIOUS
<1>0. PanesTypeOK /\ ConfigInv /\ FirstPane \in Panes
  BY ConfigInit, PanesAssumption
<1>1. /\ sessions = [p \in Panes |-> IF p = FirstPane THEN 1 ELSE 0] /\ made = sessions
      /\ running = {<<FirstPane, 1>>}
      /\ forwards = [o \in Ports |-> NoForward] /\ closed = FALSE
  BY DEF PanesInit
<1>2. \A r \in Requests : reqs[r].op = "none"
  BY DEF PanesInit, Idle
<1>3. NumbersInv
  BY <1>0, <1>1 DEF NumbersInv
<1>4. KnownInv
  <2>1. \A w \in Workspaces : cfg.layout[w] \subseteq {FirstPane}
    BY DEF PanesInit
  <2> QED BY <1>0, <1>1, <1>2, <2>1 DEF KnownInv, Known
<1>5. PostsInv /\ RestartsInv /\ InHandInv /\ OpensInv
  BY <1>2 DEF PostsInv, RestartsInv, InHandInv, OpensInv, Posts, Restarts, HasInHand, Opens
<1>6. NoSessionLost
  BY <1>0, <1>1 DEF NoSessionLost
<1>7. ForwardsFollowSessions
  BY <1>1 DEF ForwardsFollowSessions, Bound
<1> QED BY <1>0, <1>3, <1>4, <1>5, <1>6, <1>7 DEF PanesInv, NamesInv, SessionsKept

LEMMA PanesInvStep ==
  ASSUME PanesInv, SessionsKept, [PanesNext]_panesVars PROVE PanesInv' /\ SessionsKept'
<1>0. PanesTypeOK /\ ConfigInv /\ NamesInv /\ InHandInv /\ OpensInv
  BY DEF PanesInv
<1>1. NamesInv'
  BY <1>0, NumbersStep, KnownStep, PostsStep, RestartsStep DEF NamesInv
<1>2. PanesInv'
  BY <1>0, <1>1, PanesTypeStep, ConfigStep, InHandStep, OpensStep DEF PanesInv, NamesInv
<1>3. SessionsKept'
  BY <1>0, NoSessionLostStep, ForwardsStep DEF SessionsKept
<1> QED BY <1>2, <1>3

\* No session is lost and no forward outlives its session unnoticed, however
\* the routes that make, restart and remove them interleave (CreateSession,
\* RestartSession, DeleteSession, PostOpenURL, Registry.Ensure).
THEOREM SessionsKeptCorrect == PanesSpec => []SessionsKept
<1>1. PanesInit => PanesInv /\ SessionsKept
  BY PanesInvInit
<1>2. PanesInv /\ SessionsKept /\ [PanesNext]_panesVars => (PanesInv /\ SessionsKept)'
  BY PanesInvStep
<1> QED BY <1>1, <1>2, PTL DEF PanesSpec

-----------------------------------------------------------------------------
(***************************************************************************)
(* What a pane's session keeps of its output: the ring of ReplayBuffer     *)
(* holds the newest, for every window and every length of the chunks.      *)
(*                                                                         *)
(* `Retained' says where each byte that is kept lies; `FrontFree' that the *)
(* storage, until it has grown to the window, holds its bytes at the       *)
(* front, which is why Reserve may copy them from there without going      *)
(* around the end.                                                         *)
(***************************************************************************)
Min2(m, n) == IF m < n THEN m ELSE n

\* The i-th retained byte, the oldest first.
At(i) == Wrap(start + i - 1, Len(buf)) + 1

FrontFree == Len(buf) < RingLimit => start = 0

Retained ==
  /\ size = Min2(written, RingLimit)
  /\ \A i \in 1..size : buf[At(i)] = written - size + i

RingInv == RingTypeOK /\ FrontFree /\ Retained

-----------------------------------------------------------------------------
(* The initial state, and an empty chunk.                                  *)

LEMMA RingInitHolds == RingInit => RingInv
  BY RingAssumption DEF RingInit, RingInv, RingTypeOK, FrontFree, Retained, Min2, At, Wrap

\* What Reserve answers for n bytes: storage of n bytes at least and of the
\* window at most, which holds the retained bytes where the buffer did.
LEMMA ReserveKeeps ==
  ASSUME RingInv, NEW n \in 1..RingLimit, size <= n, NEW r \in Reserve(n)
  PROVE  /\ r.bytes \in Seq(Nat) /\ Len(r.bytes) \in n..RingLimit
         /\ r.from \in 0..(Len(r.bytes) - 1)
         /\ Len(r.bytes) < RingLimit => r.from = 0
         /\ \A i \in 1..size : r.bytes[Wrap(r.from + i - 1, Len(r.bytes)) + 1] = written - size + i
<1> USE RingAssumption
<1>1. CASE Len(buf) >= n
  BY <1>1 DEF Reserve, RingInv, RingTypeOK, FrontFree, Retained, At
<1>2. CASE Len(buf) < n
  <2>1. start = 0
    BY <1>2 DEF RingInv, RingTypeOK, FrontFree
  <2>2. PICK c \in n..RingLimit :
          r = [bytes |-> [i \in 1..c |-> IF i <= size THEN buf[start + i] ELSE 0], from |-> 0]
    BY <1>2 DEF Reserve, RingInv, RingTypeOK
  <2>3. size <= Len(buf) /\ size \in Nat /\ buf \in Seq(Nat)
    BY DEF RingInv, RingTypeOK
  <2>4. \A i \in 1..size : start + i \in 1..Len(buf) /\ buf[start + i] \in Nat
    BY <2>1, <2>3
  <2>5. r.bytes \in [1..c -> Nat] /\ c \in Nat
    BY <2>2, <2>4
  <2>6. r.bytes \in Seq(Nat) /\ Len(r.bytes) = c
    BY <2>5
  <2>7. ASSUME NEW i \in 1..size
        PROVE  r.bytes[Wrap(r.from + i - 1, Len(r.bytes)) + 1] = written - size + i
    <3>1. i \in 1..c /\ i \in Nat /\ Wrap(r.from + i - 1, c) + 1 = i
      BY <2>2, <2>3, <1>2 DEF Wrap
    <3>2. At(i) = i
      BY <2>1, <2>3 DEF At, Wrap
    <3>3. r.bytes[i] = buf[i]
      BY <2>2, <2>1, <2>3, <3>1
    <3> QED
      BY <2>6, <3>1, <3>2, <3>3 DEF RingInv, Retained
  <2> QED
    BY <2>2, <2>6, <2>7
<1> QED
  BY <1>1, <1>2 DEF RingInv, RingTypeOK

LEMMA AppendLargeHolds ==
  ASSUME RingInv, NEW n \in Nat, AppendLarge(n), written' = written + n
  PROVE  RingInv'
<1> USE RingAssumption
<1>0. size \in Nat /\ size <= RingLimit /\ written \in Nat /\ n >= RingLimit
  BY DEF RingInv, RingTypeOK, AppendLarge
<1>1. PICK r \in Reserve(RingLimit) :
        buf' = [i \in 1..Len(r.bytes) |-> IF i <= RingLimit THEN written + n - RingLimit + i ELSE r.bytes[i]]
  BY DEF AppendLarge
<1>2. r.bytes \in Seq(Nat) /\ Len(r.bytes) = RingLimit
  BY <1>0, ReserveKeeps
<1>3. buf' = [i \in 1..RingLimit |-> written + n - RingLimit + i]
  BY <1>1, <1>2
<1>4. buf' \in [1..RingLimit -> Nat]
  BY <1>0, <1>3
<1>5. buf' \in Seq(Nat) /\ Len(buf') = RingLimit
  BY <1>4
<1>6. start' = 0 /\ size' = RingLimit /\ written' = written + n
  BY DEF AppendLarge
<1>7. ASSUME NEW i \in 1..RingLimit
      PROVE  At(i)' = i /\ buf'[i] = written' - size' + i
  BY <1>0, <1>3, <1>5, <1>6 DEF At, Wrap
<1>8. RingTypeOK' /\ FrontFree'
  BY <1>0, <1>5, <1>6 DEF RingTypeOK, FrontFree
<1>9. Retained'
  BY <1>0, <1>6, <1>7 DEF Retained, Min2
<1> QED
  BY <1>8, <1>9 DEF RingInv

-----------------------------------------------------------------------------
(* A chunk shorter than the window.                                        *)

\* A storage after n bytes behind w were written to it from `end' on.
Behind(bytes, len, end, n, w) ==
  [i \in 1..len |->
     IF i - 1 >= end /\ i - 1 < end + n THEN w + i - end
     ELSE IF i - 1 + len < end + n THEN w + i + len - end ELSE bytes[i]]

LEMMA SequenceOf ==
  ASSUME NEW len \in Nat, NEW f \in [1..len -> Nat]
  PROVE  f \in Seq(Nat) /\ Len(f) = len
  OBVIOUS

LEMMA BehindIsStorage ==
  ASSUME NEW len \in Nat, NEW bytes \in Seq(Nat), Len(bytes) = len,
         NEW end \in 0..(len - 1), NEW n \in Nat, NEW w \in Nat
  PROVE  Behind(bytes, len, end, n, w) \in [1..len -> Nat]
<1>1. ASSUME NEW i \in 1..len
      PROVE  (IF i - 1 >= end /\ i - 1 < end + n THEN w + i - end
              ELSE IF i - 1 + len < end + n THEN w + i + len - end ELSE bytes[i]) \in Nat
  <2>1. bytes[i] \in Nat
    OBVIOUS
  <2>2. i - 1 >= end => w + i - end \in Nat
    OBVIOUS
  <2>3. w + i + len - end \in Nat
    OBVIOUS
  <2> QED
    BY <2>1, <2>2, <2>3
<1> QED
  BY <1>1 DEF Behind

\* What is read at p is the k-th of the s old bytes and the new ones.
ReadsAs(bytes, len, end, n, w, s, k, p) == Behind(bytes, len, end, n, w)[p + 1] = w - s + k

LEMMA ReadBack ==
  ASSUME NEW len \in Int, NEW bytes, NEW end \in Int, NEW n \in Int, NEW w \in Int,
         NEW s \in Int, NEW k \in Int, NEW p \in Int, 0 <= p, p < len,
         k <= s => /\ bytes[p + 1] = w - s + k
                   /\ p < end \/ p >= end + n
                   /\ p + len >= end + n,
         (k > s /\ p >= end) => p < end + n /\ p - end = k - s - 1,
         (k > s /\ p < end) => p + len < end + n /\ p + len - end = k - s - 1
  PROVE  ReadsAs(bytes, len, end, n, w, s, k, p)
<1>1. Behind(bytes, len, end, n, w)[p + 1] =
        IF p >= end /\ p < end + n THEN w + (p + 1) - end
        ELSE IF p + len < end + n THEN w + (p + 1) + len - end ELSE bytes[p + 1]
  BY DEF Behind
<1>2. CASE k <= s
  BY <1>1, <1>2 DEF ReadsAs
<1>3. CASE k > s /\ p >= end
  BY <1>1, <1>3 DEF ReadsAs
<1>4. CASE k > s /\ p < end
  BY <1>1, <1>4 DEF ReadsAs
<1> QED
  BY <1>2, <1>3, <1>4

\* The i-th of the bytes retained, the oldest at `first' and their number
\* `kept', is in its place after an append of n to s bytes from `from' on.
InPlace(bytes, len, from, s, n, w, end, first, kept, i) ==
  Behind(bytes, len, end, n, w)[Wrap(first + i - 1, len) + 1] = w + n - kept + i

\* It is the k-th of those s and the n new ones, at p: an old byte that the new
\* ones leave alone, or the (k - s)-th of the new, which are written from `end'
\* on and at most once around the end of the storage.
LEMMA WrittenBehind ==
  ASSUME NEW len \in Nat, NEW bytes \in Seq(Nat), Len(bytes) = len,
         NEW from \in Nat, from < len, NEW s \in Nat, s <= len,
         NEW n \in Nat, 1 <= n, n <= len, NEW w \in Nat,
         \A j \in 1..s : bytes[Wrap(from + j - 1, len) + 1] = w - s + j,
         NEW end \in 0..(len - 1), end = Wrap(from + s, len),
         NEW first \in 0..(len - 1), NEW kept \in 1..len,
         s + n > len => first = Wrap(from + (s + n - len), len) /\ kept = len,
         s + n <= len => first = from /\ kept = s + n,
         NEW i \in 1..kept
  PROVE  InPlace(bytes, len, from, s, n, w, end, first, kept, i)
<1>1. PICK p \in Int : p = Wrap(first + i - 1, len)
  <2>1. Wrap(first + i - 1, len) \in Int
    BY DEF Wrap
  <2> QED
    BY <2>1
<1>2. PICK k \in Int : k = i + (s + n) - kept
  OBVIOUS
<1>3. /\ 0 <= p /\ p < len
      /\ k <= s => /\ 1 <= k /\ p = Wrap(from + k - 1, len)
                   /\ p < end \/ p >= end + n
                   /\ p + len >= end + n
      /\ (k > s /\ p >= end) => p < end + n /\ p - end = k - s - 1
      /\ (k > s /\ p < end) => p + len < end + n /\ p + len - end = k - s - 1
  <2>1. CASE s + n > len
    BY <1>1, <1>2, <2>1 DEF Wrap
  <2>2. CASE s + n <= len
    BY <1>1, <1>2, <2>2 DEF Wrap
  <2> QED
    BY <2>1, <2>2
<1>4. k <= s => /\ bytes[p + 1] = w - s + k
                /\ p < end \/ p >= end + n
                /\ p + len >= end + n
  BY <1>3
<1>5. len \in Int /\ end \in Int /\ n \in Int /\ w \in Int /\ s \in Int /\ k \in Int /\ p \in Int
  BY <1>1, <1>2
<1>6. ReadsAs(bytes, len, end, n, w, s, k, p)
  BY <1>3, <1>4, <1>5, ReadBack
<1>7. w - s + k = w + n - kept + i
  BY <1>2
<1> QED
  BY <1>1, <1>6, <1>7 DEF InPlace, ReadsAs

LEMMA AppendSmallHolds ==
  ASSUME RingInv, NEW n \in Nat, AppendSmall(n), written' = written + n
  PROVE  RingInv'
<1> USE RingAssumption
<1>1. PICK need \in Nat : need = IF size + n > RingLimit THEN RingLimit ELSE size + n
  BY DEF RingInv, RingTypeOK
<1>2. /\ size \in Nat /\ size <= RingLimit /\ written \in Nat /\ size <= written
      /\ n \in 1..(RingLimit - 1) /\ size = Min2(written, RingLimit)
      /\ need \in 1..RingLimit /\ size <= need /\ n <= need
  <2>1. /\ size \in Nat /\ size <= RingLimit /\ written \in Nat
        /\ n \in 1..(RingLimit - 1) /\ size = Min2(written, RingLimit)
    BY DEF RingInv, RingTypeOK, AppendSmall, Retained
  <2>2. size <= written
    BY <2>1 DEF Min2
  <2>3. need \in 1..RingLimit /\ size <= need /\ n <= need
    BY <1>1, <2>1
  <2> QED
    BY <2>1, <2>2, <2>3
<1>3. PICK r \in Reserve(need) :
        LET len  == Len(r.bytes)
            end  == Wrap(r.from + size, len)
            over == size + n - len
        IN /\ buf' = [i \in 1..len |->
                        IF i - 1 >= end /\ i - 1 < end + n THEN written + i - end
                        ELSE IF i - 1 + len < end + n THEN written + i + len - end ELSE r.bytes[i]]
           /\ IF over > 0 THEN start' = Wrap(r.from + over, len) /\ size' = len
                          ELSE start' = r.from /\ size' = size + n
  BY <1>1 DEF AppendSmall
<1>4. /\ r.bytes \in Seq(Nat) /\ Len(r.bytes) \in need..RingLimit
      /\ r.from \in 0..(Len(r.bytes) - 1)
      /\ Len(r.bytes) < RingLimit => r.from = 0
      /\ \A i \in 1..size : r.bytes[Wrap(r.from + i - 1, Len(r.bytes)) + 1] = written - size + i
  BY <1>2, ReserveKeeps
<1>5. PICK len \in Nat : len = Len(r.bytes)
  BY <1>4
<1>6. PICK from \in Nat : from = r.from
  BY <1>4, <1>5
<1>7. PICK end : end = Wrap(from + size, len)
  OBVIOUS
<1>8. /\ len \in need..RingLimit /\ from < len /\ (len < RingLimit => from = 0)
      /\ \A i \in 1..size : r.bytes[Wrap(from + i - 1, len) + 1] = written - size + i
  BY <1>2, <1>4, <1>5, <1>6
<1>9. /\ buf' = Behind(r.bytes, len, end, n, written)
      /\ size + n > len => start' = Wrap(from + (size + n - len), len) /\ size' = len
      /\ size + n <= len => start' = from /\ size' = size + n
  BY <1>2, <1>3, <1>5, <1>6, <1>7 DEF Behind
<1>10. /\ buf' \in Seq(Nat) /\ Len(buf') = len
       /\ size' \in 1..len /\ start' \in 0..(len - 1)
       /\ \A i \in 1..size' : buf'[Wrap(start' + i - 1, len) + 1] = written + n - size' + i
  <2>1. end \in 0..(len - 1)
    BY <1>2, <1>7, <1>8 DEF Wrap
  <2>2. buf' \in [1..len -> Nat]
    BY <1>2, <1>4, <1>5, <1>9, <2>1, BehindIsStorage
  <2>3. buf' \in Seq(Nat) /\ Len(buf') = len
    BY <2>2, SequenceOf
  <2>4. size' \in 1..len
    BY <1>2, <1>8, <1>9
  <2>5. start' \in 0..(len - 1)
    BY <1>2, <1>8, <1>9 DEF Wrap
  <2>6. ASSUME NEW i \in 1..size'
        PROVE  buf'[Wrap(start' + i - 1, len) + 1] = written + n - size' + i
    <3>1. /\ len \in Nat /\ r.bytes \in Seq(Nat) /\ Len(r.bytes) = len
          /\ from \in Nat /\ from < len /\ size \in Nat /\ size <= len
          /\ n \in Nat /\ 1 <= n /\ n <= len /\ written \in Nat
      BY <1>2, <1>4, <1>5, <1>8
    <3>2. /\ \A j \in 1..size : r.bytes[Wrap(from + j - 1, len) + 1] = written - size + j
          /\ end \in 0..(len - 1) /\ end = Wrap(from + size, len)
          /\ start' \in 0..(len - 1) /\ size' \in 1..len
          /\ size + n > len => start' = Wrap(from + (size + n - len), len) /\ size' = len
          /\ size + n <= len => start' = from /\ size' = size + n
      BY <1>7, <1>8, <1>9, <2>1, <2>4, <2>5
    <3>3. InPlace(r.bytes, len, from, size, n, written, end, start', size', i)
      BY <3>1, <3>2, WrittenBehind
    <3> QED
      BY <1>9, <3>3 DEF InPlace
  <2> QED
    BY <2>3, <2>4, <2>5, <2>6
<1>11. size' = Min2(written', RingLimit) /\ (len < RingLimit => start' = 0)
  BY <1>1, <1>2, <1>8, <1>9 DEF Min2
<1>12. RingTypeOK' /\ FrontFree'
  BY <1>2, <1>8, <1>10, <1>11 DEF RingTypeOK, FrontFree
<1>13. Retained'
  <2>1. \A i \in 1..size' : At(i)' = Wrap(start' + i - 1, len) + 1
    BY <1>10 DEF At
  <2>2. \A i \in 1..size' : buf'[At(i)'] = written' - size' + i
    <3> SUFFICES ASSUME NEW i \in 1..size' PROVE buf'[At(i)'] = written' - size' + i
      OBVIOUS
    <3>1. written + n - size' + i = written' - size' + i
      BY <1>2, <1>10
    <3> QED
      BY <1>10, <2>1, <3>1
  <2> QED
    BY <1>11, <2>2 DEF Retained
<1> QED
  BY <1>12, <1>13 DEF RingInv

-----------------------------------------------------------------------------
LEMMA RingStepHolds == RingInv /\ [RingNext]_ringVars => RingInv'
<1> SUFFICES ASSUME RingInv, [RingNext]_ringVars PROVE RingInv'
  OBVIOUS
<1> USE RingAssumption
<1>1. ASSUME NEW n \in Lengths, RingAppend(n) PROVE RingInv'
  <2>1. n \in Nat /\ written' = written + n
    BY <1>1 DEF RingAppend
  <2>2. CASE AppendLarge(n)
    BY <2>1, <2>2, AppendLargeHolds
  <2>3. CASE AppendSmall(n)
    BY <2>1, <2>3, AppendSmallHolds
  <2>4. CASE n = 0 /\ UNCHANGED <<buf, start, size>>
    BY <2>1, <2>4 DEF RingInv, RingTypeOK, FrontFree, Retained, At
  <2> QED
    BY <1>1, <2>2, <2>3, <2>4 DEF RingAppend
<1>2. CASE UNCHANGED ringVars
  BY <1>2 DEF ringVars, RingInv, RingTypeOK, FrontFree, Retained, At
<1> QED
  BY <1>1, <1>2 DEF RingNext

\* What a remounted pane replays is the newest output, in order, however long
\* the window and the chunks are (replay_buffer.go, snapshot).
THEOREM SnapshotIsNewestCorrect == RingSpec => []SnapshotIsNewest
<1>1. RingInit => RingInv
  BY RingInitHolds
<1>2. RingInv /\ [RingNext]_ringVars => RingInv'
  BY RingStepHolds
<1>3. RingInv => SnapshotIsNewest
  BY RingAssumption DEF RingInv, RingTypeOK, Retained, Min2, At, SnapshotIsNewest, Snapshot
<1> QED
  BY <1>1, <1>2, <1>3, PTL DEF RingSpec

\* The ring's indices stay within its storage, and that within the window.
THEOREM RingTypeCorrect == RingSpec => []RingTypeOK
<1>1. RingInit => RingInv
  BY RingInitHolds
<1>2. RingInv /\ [RingNext]_ringVars => RingInv'
  BY RingStepHolds
<1>3. RingInv => RingTypeOK
  BY DEF RingInv
<1> QED
  BY <1>1, <1>2, <1>3, PTL DEF RingSpec

=============================================================================
