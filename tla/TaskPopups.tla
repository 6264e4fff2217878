------------------------------ MODULE TaskPopups ------------------------------
(***************************************************************************)
(* The popups of the task dashboard in which a person types into a task's  *)
(* pane or a host's shell (frontend/src/hooks/useTaskInput.ts and          *)
(* useHostTerminal.ts).                                                    *)
(*                                                                         *)
(* The server answers every attach to one task with the same terminal      *)
(* while it lives, and every request for a host with a new one.  Answers   *)
(* and DELETEs arrive in any order, or not at all.                         *)
(***************************************************************************)
EXTENDS Naturals, FiniteSets

CONSTANTS
  Things,      \* tasks, or hosts, a popup may be opened for
  MaxPosts,    \* bound: requests for a terminal
  MaxMounts,   \* bound: times the dashboard is shown
  NoThing

ASSUME TaskPopupsAssumption == MaxPosts \in Nat /\ MaxMounts \in Nat \ {0} /\ NoThing \notin Things

VARIABLES
  shared,    \* the popup is useTaskInput's, not useHostTerminal's
  popup,     \* session: what it is for, how far it is, and the terminal it shows
  newest, sessionRef, openFor,  \* the request of tokenRef's token, sessionIdRef (0: null) and openTaskIdRef
  mount,     \* this showing of the dashboard
  away,      \* the page is hidden, and may come back
  posts,     \* each request: what for, of which showing, and its answer
  live,      \* the server's terminals, each named by the request that made it
  ending,    \* DELETEs under way
  mishap     \* something failed or was lost, or a task's terminal ended while in use

screenRefs == <<popup, newest, sessionRef, openFor>>
pageVars  == <<screenRefs, mount, away>>
wireVars  == <<posts, live, ending>>
popupVars == <<shared, pageVars, wireVars, mishap>>

PostIDs  == 1..MaxPosts
NoPopup  == [of |-> NoThing, phase |-> "none", shows |-> 0]
NoPost   == [at |-> "none", of |-> NoThing, mount |-> 0, ok |-> FALSE, got |-> 0]
Alive    == {s \in PostIDs : live[s]}

-----------------------------------------------------------------------------
(* The popup                                                               *)

\* A DELETE, which outlives the page.
EndsTerminal(s) == ending' = ending \cup ({s} \ {0})

\* request: a newer one makes any earlier one's answer late.
AskFor(x) ==
  /\ popup' = [of |-> x, phase |-> "connecting", shows |-> 0]
  /\ \E i \in PostIDs :
       /\ posts[i].at = "none" /\ (\A j \in PostIDs : j < i => posts[j].at # "none")
       /\ posts' = [posts EXCEPT ![i] = [NoPost EXCEPT !.at = "sent", !.of = x, !.mount = mount]] /\ newest' = i

OpenPopup(x) ==
  /\ ~away /\ popup = NoPopup /\ sessionRef = 0 /\ AskFor(x)
  /\ openFor' = x
  /\ UNCHANGED <<shared, sessionRef, mount, away, live, ending, mishap>>

\* reattach and reopen.  A task's terminal that ended is not DELETEd.
AskAgain ==
  /\ popup # NoPopup /\ AskFor(popup.of) /\ openFor' = popup.of
  /\ IF shared THEN UNCHANGED <<sessionRef, ending>> ELSE sessionRef' = 0 /\ EndsTerminal(sessionRef)

RetryPopup ==
  /\ ~away /\ AskAgain /\ UNCHANGED <<shared, mount, away, live, mishap>>

\* end
End == newest' = 0 /\ openFor' = NoThing /\ sessionRef' = 0 /\ EndsTerminal(sessionRef)

ClosePopup ==
  /\ ~away /\ popup # NoPopup /\ End /\ popup' = NoPopup
  /\ UNCHANGED <<shared, mount, away, posts, live, mishap>>

\* The dashboard goes away, and comes back with refs of its own.
Remount ==
  /\ ~away /\ mount < MaxMounts /\ mount' = mount + 1
  /\ popup' = NoPopup /\ newest' = 0 /\ sessionRef' = 0 /\ openFor' = NoThing /\ EndsTerminal(sessionRef)
  /\ UNCHANGED <<shared, away, posts, live, mishap>>

\* The page goes, with its popup, and may be restored from the cache.
PageHide ==
  /\ ~away /\ away' = TRUE /\ End
  /\ UNCHANGED <<shared, popup, mount, posts, live, mishap>>
PageShow ==
  /\ away /\ away' = FALSE
  /\ IF popup = NoPopup THEN UNCHANGED <<screenRefs, posts, ending>> ELSE AskAgain
  /\ UNCHANGED <<shared, mount, live, mishap>>

-----------------------------------------------------------------------------
(* Answers                                                                 *)

\* Mutant: any answer is shown.
IsCurrentAlways(i) == posts[i].mount = mount /\ popup # NoPopup

IsCurrent(i) == i = newest

\* Mutant: a late answer is left, whatever is open.
LeftAlways(p) == TRUE

\* A late answer is what the popup shows, or will when its own request is
\* answered.  Another showing's refs are empty.
Left(p) == shared /\ p.mount = mount /\ (p.got = sessionRef \/ p.of = openFor)

PostAnswered(i) ==
  LET p == posts[i] IN
  /\ ~away /\ p.at = "answered" /\ posts' = [posts EXCEPT ![i] = [NoPost EXCEPT !.at = "done", !.of = p.of]]
  /\ \/ /\ IsCurrent(i)
        /\ sessionRef' = IF p.ok THEN p.got ELSE sessionRef
        /\ popup' = [popup EXCEPT !.phase = IF p.ok THEN "ready" ELSE "failed", !.shows = p.got]
        /\ UNCHANGED ending
     \/ /\ ~IsCurrent(i) /\ (IF p.ok /\ ~Left(p) THEN EndsTerminal(p.got) ELSE UNCHANGED ending)
        /\ UNCHANGED <<sessionRef, popup>>
  /\ UNCHANGED <<shared, newest, openFor, mount, away, live, mishap>>

\* The server: a terminal that is there, a new one or a refusal.
ServePost(i) ==
  LET p == posts[i]
      Is(s) == posts' = [posts EXCEPT ![i].at = "answered", ![i].ok = TRUE, ![i].got = s]
  IN
  /\ p.at = "sent"
  /\ \/ \E s \in Alive : shared /\ posts[s].of = p.of /\ Is(s) /\ UNCHANGED <<live, mishap>>
     \/ /\ ~(shared /\ \E s \in Alive : posts[s].of = p.of)
        /\ Is(i) /\ live' = [live EXCEPT ![i] = TRUE] /\ UNCHANGED mishap
     \/ posts' = [posts EXCEPT ![i].at = "answered"] /\ mishap' = TRUE /\ UNCHANGED live
  /\ UNCHANGED <<shared, pageVars, ending>>

\* An answer is lost, as one to a page that left may be, and so may a DELETE.
Lose(i) ==
  /\ posts[i].at = "answered" /\ posts[i].ok
  /\ posts' = [posts EXCEPT ![i].ok = FALSE, ![i].got = 0] /\ mishap' = TRUE
  /\ UNCHANGED <<shared, pageVars, live, ending>>

\* A terminal that is shown, or is about to be.
HandedOut(s) == s = sessionRef \/ \E i \in PostIDs : posts[i].at = "answered" /\ posts[i].got = s

\* It may reach the server behind a request that came after it.
Delete(s) ==
  /\ s \in ending /\ ending' = ending \ {s}
  /\ \/ live' = [live EXCEPT ![s] = FALSE] /\ mishap' = (mishap \/ HandedOut(s))
     \/ mishap' = TRUE /\ UNCHANGED live
  /\ UNCHANGED <<shared, pageVars, posts>>

\* The agent's tmux client or the shell ends, or the grace timer fires: the
\* task's next terminal is another.
TerminalEnds(s) ==
  /\ s \in Alive /\ live' = [live EXCEPT ![s] = FALSE] /\ mishap' = (mishap \/ shared)
  /\ UNCHANGED <<shared, pageVars, posts, ending>>

-----------------------------------------------------------------------------
PopupsInit ==
  /\ shared \in BOOLEAN /\ popup = NoPopup /\ newest = 0 /\ sessionRef = 0 /\ openFor = NoThing
  /\ mount = 1 /\ away = FALSE /\ posts = [i \in PostIDs |-> NoPost]
  /\ live = [s \in PostIDs |-> FALSE] /\ ending = {} /\ mishap = FALSE

PopupsNext ==
  \/ (\E x \in Things : OpenPopup(x)) \/ RetryPopup \/ ClosePopup \/ Remount \/ PageHide \/ PageShow
  \/ \E i \in PostIDs : ServePost(i) \/ Lose(i) \/ PostAnswered(i) \/ Delete(i) \/ TerminalEnds(i)

PopupsSpec == PopupsInit /\ [][PopupsNext]_popupVars

PopupsTypeOK ==
  /\ popup \in [of : Things \cup {NoThing}, phase : {"none", "connecting", "ready", "failed"}, shows : 0..MaxPosts]
  /\ sessionRef \in 0..MaxPosts /\ newest \in 0..MaxPosts /\ mount \in 1..MaxMounts /\ ending \subseteq PostIDs
  /\ live \in [PostIDs -> BOOLEAN]

-----------------------------------------------------------------------------
(* Properties                                                              *)

\* A late answer never puts another task's terminal in front of the person
\* who types: a popup shows a terminal that was made for what it was opened
\* for, and the one it will end.
ShownIsAsked ==
  popup.phase = "ready" =>
    /\ popup.shows \in PostIDs /\ posts[popup.shows].of = popup.of
    /\ away \/ sessionRef = popup.shows

\* When all is answered, no terminal runs that no popup shows.  Those of a
\* request or a DELETE that failed, and a task's that replaced one that ended
\* while it was asked for, are left to the grace timer.
NoneLeftOpen ==
  ~mishap /\ ending = {} /\ (\A i \in PostIDs : posts[i].at \in {"none", "done"}) => Alive \subseteq {sessionRef}

\* A host's terminal is not ended while its popup shows it.  A task's may be:
\* the popup is opened again before a DELETE was served, or by a later showing
\* of the dashboard while an answer to an earlier one was under way.
ShownIsKept == ~shared => sessionRef \notin ending

PopupsHold == ShownIsAsked /\ NoneLeftOpen /\ ShownIsKept
=============================================================================
