--------------------------- MODULE BoardAttachProofs ---------------------------
(***************************************************************************)
(* SessionManager keeps Watch's promise, and BoardAttach, which drives it, *)
(* keeps its registry consistent and never ends a terminal somebody reads. *)
(***************************************************************************)
EXTENDS BoardAttach, FiniteSetTheorems, TLAPS

(***************************************************************************)
(* The manager: a count that is current was heard, or its report is still  *)
(* on its way.                                                             *)
(***************************************************************************)
CountOK(s) ==
  /\ delivered[s] <= changes[s]
  /\ \A n \in notices[s] : /\ n.change <= changes[s]
                           /\ n.change = changes[s] => n.count = Cardinality(subs[s])
  /\ (delivered[s] = changes[s] /\ changes[s] > 0) => heard[s] = Cardinality(subs[s])
  /\ (s \in watched /\ changes[s] > since[s])
       => \/ delivered[s] = changes[s]
          \/ \E n \in notices[s] : n.watched /\ n.change = changes[s]

ManagerInv == ManagerTypeOK /\ \A s \in Sessions : CountOK(s)

LEMMA CountType ==
  ASSUME NEW S \in SUBSET Sockets PROVE Cardinality(S) \in Nat
BY FS_Subset, FS_CardinalityType, SessionManagerAssumption

LEMMA InBoolean ==
  ASSUME NEW S, NEW e PROVE (e \in S) \in BOOLEAN
OBVIOUS

LEMMA CountChangedStep ==
  ASSUME ManagerInv, NEW s \in Sessions, NEW now \in SUBSET Sockets,
         CountChanged(s, now)
  PROVE  /\ subs' \in [Sessions -> SUBSET Sockets] /\ changes' \in [Sessions -> Nat]
         /\ notices' \in [Sessions -> SUBSET Notice]
         /\ delivered' \in [Sessions -> Nat] /\ heard' \in [Sessions -> Nat]
         /\ since' \in [Sessions -> Nat] /\ watched' \in SUBSET Sessions
         /\ \A u \in Sessions : CountOK(u)'
<1> DEFINE n == [change |-> changes[s] + 1, count |-> Cardinality(now), watched |-> s \in watched]
<1> USE DEF ManagerInv, ManagerTypeOK
<1>1. Cardinality(now) \in Nat
  BY CountType
<1>2. (s \in watched) \in BOOLEAN
  BY InBoolean
<1>3. n \in Notice
  BY <1>1, <1>2 DEF Notice
<1>4. /\ subs' = [subs EXCEPT ![s] = now] /\ changes' = [changes EXCEPT ![s] = changes[s] + 1]
      /\ notices' = [notices EXCEPT ![s] = notices[s] \cup {n}]
      /\ delivered' = delivered /\ watched' = watched /\ heard' = heard /\ since' = since
  BY DEF CountChanged, Count
<1>5. /\ subs' \in [Sessions -> SUBSET Sockets] /\ changes' \in [Sessions -> Nat]
      /\ delivered' \in [Sessions -> Nat] /\ heard' \in [Sessions -> Nat]
      /\ since' \in [Sessions -> Nat] /\ watched' \in SUBSET Sessions
  BY <1>4
<1>6. notices' \in [Sessions -> SUBSET Notice]
  <2> HIDE DEF n
  <2> QED BY <1>3, <1>4
<1>7. ASSUME NEW u \in Sessions, u # s PROVE CountOK(u)'
  <2>1. /\ subs'[u] = subs[u] /\ changes'[u] = changes[u] /\ notices'[u] = notices[u]
        /\ delivered'[u] = delivered[u] /\ heard'[u] = heard[u] /\ since'[u] = since[u]
        /\ (u \in watched') = (u \in watched)
    BY <1>4, <1>7
  <2>2. CountOK(u)
    OBVIOUS
  <2> QED BY <2>1, <2>2 DEF CountOK
<1>8. CountOK(s)'
  <2>1. /\ subs'[s] = now /\ changes'[s] = changes[s] + 1 /\ notices'[s] = notices[s] \cup {n}
        /\ delivered'[s] = delivered[s] /\ since'[s] = since[s] /\ watched' = watched
    BY <1>4
  <2>2. CountOK(s) /\ changes[s] \in Nat /\ delivered[s] \in Nat /\ notices[s] \subseteq Notice
    OBVIOUS
  <2>3. n.change = changes[s] + 1 /\ n.count = Cardinality(now) /\ n.watched = (s \in watched)
    OBVIOUS
  <2> HIDE DEF n
  <2>4. \A m \in notices'[s] : /\ m.change <= changes'[s]
                               /\ m.change = changes'[s] => m.count = Cardinality(subs'[s])
    <3>1. \A m \in notices[s] : m.change <= changes[s] /\ m.change \in Nat
      BY <2>2 DEF CountOK, Notice
    <3> QED BY <2>1, <2>2, <2>3, <3>1
  <2>5. delivered'[s] <= changes'[s] /\ delivered'[s] # changes'[s]
    BY <2>1, <2>2 DEF CountOK
  <2>6. s \in watched' => \E m \in notices'[s] : m.watched /\ m.change = changes'[s]
    BY <2>1, <2>3
  <2> QED BY <2>4, <2>5, <2>6 DEF CountOK
<1> QED BY <1>5, <1>6, <1>7, <1>8

LEMMA ManagerInvInit == ManagerInit => ManagerInv
BY FS_EmptySet DEF ManagerInit, ManagerInv, ManagerTypeOK, CountOK

LEMMA ManagerInvStutter ==
  ASSUME ManagerInv, UNCHANGED managerVars PROVE ManagerInv'
BY DEF ManagerInv, ManagerTypeOK, CountOK, managerVars, sessionVars, countVars

LEMMA NotifyStep ==
  ASSUME ManagerInv, NEW s \in Sessions, NEW n \in notices[s], Notify(s, n)
  PROVE  ManagerInv'
<1> USE DEF ManagerInv, ManagerTypeOK
<1>1. /\ n \in Notice /\ n.change \in Nat /\ n.count \in Nat
      /\ notices[s] \subseteq Notice /\ CountOK(s)
  BY DEF Notice
<1>2. /\ subs' = subs /\ changes' = changes /\ watched' = watched /\ since' = since
      /\ state' = state /\ managed' = managed /\ pumping' = pumping /\ ended' = ended
      /\ notices' = [notices EXCEPT ![s] = notices[s] \ {n}]
  BY DEF Notify, sessionVars
<1>3. \/ /\ n.watched /\ n.change > delivered[s]
         /\ delivered' = [delivered EXCEPT ![s] = n.change]
         /\ heard' = [heard EXCEPT ![s] = n.count]
      \/ ~(n.watched /\ n.change > delivered[s]) /\ delivered' = delivered /\ heard' = heard
  BY DEF Notify, Believes
<1>4. ManagerTypeOK'
  BY <1>1, <1>2, <1>3
<1>5. ASSUME NEW u \in Sessions, u # s PROVE CountOK(u)'
  <2>1. /\ notices'[u] = notices[u] /\ delivered'[u] = delivered[u] /\ heard'[u] = heard[u]
    BY <1>2, <1>3, <1>5
  <2>2. CountOK(u)
    OBVIOUS
  <2> QED BY <1>2, <2>1, <2>2 DEF CountOK
<1>6. CountOK(s)'
  <2>1. notices'[s] = notices[s] \ {n}
    BY <1>2
  <2>2. CASE n.watched /\ n.change > delivered[s]
    <3>1. delivered'[s] = n.change /\ heard'[s] = n.count
      BY <1>3, <2>2
    <3> QED BY <1>1, <1>2, <2>1, <2>2, <3>1 DEF CountOK
  <2>3. CASE ~(n.watched /\ n.change > delivered[s])
    <3>1. delivered'[s] = delivered[s] /\ heard'[s] = heard[s]
      BY <1>3, <2>3
    <3>2. delivered[s] \in Nat /\ changes[s] \in Nat /\ (n.change = changes[s] => ~n.watched \/ delivered[s] = changes[s])
      BY <1>1, <2>3 DEF CountOK
    <3>3. (s \in watched /\ changes[s] > since[s] /\ delivered[s] # changes[s])
            => \E m \in notices[s] \ {n} : m.watched /\ m.change = changes[s]
      BY <1>1, <3>2 DEF CountOK
    <3>4. \A m \in notices[s] \ {n} : /\ m.change <= changes[s]
                                     /\ m.change = changes[s] => m.count = Cardinality(subs[s])
      BY <1>1 DEF CountOK
    <3>5. delivered[s] <= changes[s] /\ ((delivered[s] = changes[s] /\ changes[s] > 0) => heard[s] = Cardinality(subs[s]))
      BY <1>1 DEF CountOK
    <3> QED BY <1>2, <2>1, <3>1, <3>3, <3>4, <3>5 DEF CountOK
  <2> QED BY <2>2, <2>3
<1> QED BY <1>4, <1>5, <1>6

LEMMA ManagerInvStep ==
  ASSUME ManagerInv, [ManagerNext]_managerVars PROVE ManagerInv'
<1> USE DEF ManagerInv, ManagerTypeOK
<1>1. ASSUME NEW s \in Sessions, CreateSession(s) \/ EndSession(s) \/ Add(s) \/ Remove(s)
      PROVE  ManagerInv'
  <2>1. ManagerTypeOK'
    BY <1>1 DEF CreateSession, EndSession, Add, Remove, countVars
  <2>2. /\ subs' = subs /\ changes' = changes /\ delivered' = delivered /\ watched' = watched
        /\ notices' = notices /\ heard' = heard /\ since' = since
    BY <1>1 DEF CreateSession, EndSession, Add, Remove, countVars
  <2>3. \A u \in Sessions : CountOK(u)'
    BY <2>2 DEF CountOK
  <2> QED BY <2>1, <2>3
<1>2. ASSUME NEW s \in Sessions, Watch(s) PROVE ManagerInv'
  <2>1. ManagerTypeOK'
    BY <1>2 DEF Watch, sessionVars
  <2>2. /\ subs' = subs /\ changes' = changes /\ delivered' = delivered
        /\ notices' = notices /\ heard' = heard
    BY <1>2 DEF Watch
  <2>3. ASSUME NEW u \in Sessions PROVE CountOK(u)'
    <3>1. CountOK(u) /\ changes[u] \in Nat
      OBVIOUS
    <3>2. \/ (u \in watched') = (u \in watched) /\ since'[u] = since[u]
          \/ since'[u] = changes[u]
      BY <1>2 DEF Watch
    <3> QED BY <2>2, <3>1, <3>2 DEF CountOK
  <2> QED BY <2>1, <2>3
<1>3. ASSUME NEW s \in Sessions, NEW k \in Sockets, Subscribe(s, k) PROVE ManagerInv'
  <2>1. CASE UNCHANGED countVars
    BY <1>3, <2>1, ManagerInvStutter DEF Subscribe, managerVars
  <2>2. CASE CountChanged(s, subs[s] \cup {k})
    BY <1>3, <2>2, CountChangedStep DEF Subscribe, sessionVars
  <2> QED BY <1>3, <2>1, <2>2 DEF Subscribe
<1>4. ASSUME NEW s \in Sessions, NEW k \in Sockets, Unsubscribe(s, k) PROVE ManagerInv'
  <2>1. CASE UNCHANGED countVars
    BY <1>4, <2>1, ManagerInvStutter DEF Unsubscribe, managerVars
  <2>2. CASE CountChanged(s, subs[s] \ {k})
    BY <1>4, <2>2, CountChangedStep DEF Unsubscribe, sessionVars
  <2> QED BY <1>4, <2>1, <2>2 DEF Unsubscribe
<1>5. ASSUME NEW s \in Sessions, EndOutput(s) PROVE ManagerInv'
  <2>0. /\ state' = state /\ managed' = managed
        /\ pumping' \in SUBSET Sessions /\ ended' \in SUBSET Sessions
    BY <1>5 DEF EndOutput
  <2>1. CASE UNCHANGED countVars
    <3>1. \A u \in Sessions : CountOK(u)'
      BY <2>1 DEF CountOK, countVars
    <3> QED BY <2>0, <2>1, <3>1 DEF countVars
  <2>2. CASE CountChanged(s, {})
    BY <2>0, <2>2, CountChangedStep
  <2> QED BY <1>5, <2>1, <2>2 DEF EndOutput
<1>6. CASE UNCHANGED managerVars
  BY <1>6, ManagerInvStutter
<1> QED BY <1>1, <1>2, <1>3, <1>4, <1>5, <1>6, NotifyStep DEF ManagerNext

\* Once no report is under way, the watcher knows how many read the session.
THEOREM WatchKeepsItsPromise == ManagerSpec => []LastHeardIsCurrent
<1>1. ManagerInv => LastHeardIsCurrent
  BY DEF ManagerInv, ManagerTypeOK, CountOK, LastHeardIsCurrent
<1> QED BY <1>1, ManagerInvInit, ManagerInvStep, PTL DEF ManagerSpec

(***************************************************************************)
(* The attaches' inductive invariant.                                      *)
(***************************************************************************)
\* A request past its reservation has a target and a session that exists.
SessionsExist ==
  \A r \in Requests :
    /\ requests[r].at \in {"removing", "adding", "watching", "releasing", "answered"}
         => requests[r].session \in Sessions /\ state[requests[r].session] # "absent"
    /\ (Holding(r) \/ At(r, "reserve") \/ At(r, "removing"))
         => requests[r].for \in Tasks \cup Connections

\* A task's attach is created by one request at a time, while it has none.
OneCreator ==
  /\ \A r \in Requests : (Holding(r) /\ requests[r].for \in Tasks) => requests[r].for \in creating
  /\ \A r, q \in Requests :
       (Holding(r) /\ Holding(q) /\ requests[r].for = requests[q].for /\ requests[r].for \in Tasks) => r = q
  /\ \A r \in Requests :
       (At(r, "creating") /\ requests[r].for \in Tasks) => byTask[requests[r].for] = NoSession

Holders(c) == {r \in Requests : requests[r].for = c /\ Holding(r)}

OpeningCounted == \A c \in Connections : opening[c] = Cardinality(Holders(c))

\* Nothing is known of a session that does not exist yet.
Fresh ==
  \A s \in Sessions :
    (state[s] = "absent") =>
      /\ s \notin managed /\ s \notin pumping /\ s \notin bySession
      /\ subs[s] = {} /\ notices[s] = {} /\ heard[s] = 0

\* A timer that fired is not newer than its attach's generation; one of the
\* current generation is of a set timer; a set timer is of an unread terminal.
TimersCurrent ==
  /\ \A x \in fired : /\ x[2] <= generation[x[1]]
                      /\ (x[1] \in bySession /\ x[2] = generation[x[1]]) => x[1] \in timer
  /\ \A s \in bySession \cap timer : heard[s] = 0

BoardInv ==
  TypeOK /\ SessionsExist /\ OneCreator /\ OpeningCounted /\ Fresh /\ RegistryConsistent
  /\ TimersCurrent

LEMMA MoveEffect ==
  ASSUME TypeOK, NEW r \in Requests, NEW at \in {"reserve", "removing", "creating", "adding",
           "watching", "releasing", "answered", "failed"}, Move(r, at)
  PROVE  /\ requests' \in [Requests -> Request]
         /\ requests'[r].at = at /\ requests'[r].for = requests[r].for
         /\ requests'[r].session = requests[r].session
         /\ \A q \in Requests : q # r => requests'[q] = requests[q]
BY DEF TypeOK, Move, Request

LEMMA ForwardEffect ==
  ASSUME TypeOK, NEW r \in Requests, NEW at \in {"reserve", "removing", "creating", "adding",
           "watching", "releasing", "answered", "failed"},
         NEW s \in Sessions \cup {NoSession}, Forward(r, at, s)
  PROVE  /\ requests' \in [Requests -> Request]
         /\ requests'[r].at = at /\ requests'[r].for = requests[r].for
         /\ requests'[r].session = s
         /\ \A q \in Requests : q # r => requests'[q] = requests[q]
<1>1. requests' = [requests EXCEPT ![r] = [requests[r] EXCEPT !.at = at, !.session = s]]
  BY DEF Forward, TypeOK, Request
<1> QED BY <1>1 DEF TypeOK, Request

\* The step of a request, as one change of its record.
RequestMoves(r) ==
  /\ requests' \in [Requests -> Request]
  /\ \A q \in Requests : q # r => requests'[q] = requests[q]

\* How every action treats the requests: all but those of a request leave
\* them alone.
LEMMA ActionCases ==
  ASSUME Next
  PROVE  \/ \E r \in Requests :
              \/ \E for \in Tasks \cup Connections : Post(r, for)
              \/ ReserveTask(r) \/ GiveUp(r) \/ RemoveExited(r) \/ ReserveHost(r)
              \/ CreateFail(r) \/ AddAttach(r) \/ WatchAttach(r) \/ Answer(r)
              \/ \E s \in Sessions : Register(r, s)
         \/ \E s \in Sessions :
              \/ Delete(s) \/ Fire(s) \/ RemoveDoomed(s) \/ SessionStep(s)
              \/ \E n \in notices[s] : Report(s, n)
         \/ \E x \in fired : TimerRun(x)
         \/ \E k \in Sockets : Close(k) \/ \E s \in Sessions : Open(k, s)
BY DEF Next, RequestStep

LEMMA HolderAdded ==
  ASSUME TypeOK, NEW r \in Requests, RequestMoves(r), NEW c \in Connections,
         requests'[r].for = c, Holding(r)', ~(requests[r].for = c /\ Holding(r))
  PROVE  Cardinality(Holders(c))' = Cardinality(Holders(c)) + 1
<1>1. Holders(c)' = Holders(c) \cup {r} /\ r \notin Holders(c)
  BY DEF Holders, RequestMoves, Holding
<1>2. IsFiniteSet(Holders(c))
  BY FS_Subset, BoardAttachAssumption DEF Holders
<1> QED BY <1>1, <1>2, FS_AddElement

LEMMA HolderRemoved ==
  ASSUME TypeOK, NEW r \in Requests, RequestMoves(r), NEW c \in Connections,
         requests[r].for = c, Holding(r), ~(requests'[r].for = c /\ Holding(r)')
  PROVE  /\ Cardinality(Holders(c)) \in Nat /\ Cardinality(Holders(c)') \in Nat
         /\ Cardinality(Holders(c))' = Cardinality(Holders(c)) - 1
<1>1. Holders(c)' = Holders(c) \ {r} /\ r \in Holders(c)
  BY DEF Holders, RequestMoves, Holding
<1>2. IsFiniteSet(Holders(c)) /\ IsFiniteSet(Holders(c)')
  BY FS_Subset, BoardAttachAssumption, <1>1 DEF Holders
<1> QED BY <1>1, <1>2, FS_RemoveElement, FS_CardinalityType

LEMMA HoldersSame ==
  ASSUME TypeOK, NEW r \in Requests, RequestMoves(r), NEW c \in Connections,
         (requests'[r].for = c /\ Holding(r)') = (requests[r].for = c /\ Holding(r))
  PROVE  Holders(c)' = Holders(c)
BY DEF Holders, RequestMoves, Holding

LEMMA ManagerStep ==
  ASSUME TypeOK, SessionsExist, [Next]_vars PROVE [ManagerNext]_managerVars
<1>1. ASSUME NEW r \in Requests,
             \/ \E for \in Tasks \cup Connections : Post(r, for)
             \/ ReserveTask(r) \/ GiveUp(r) \/ ReserveHost(r) \/ CreateFail(r) \/ Answer(r)
      PROVE  UNCHANGED managerVars
  BY <1>1 DEF Post, ReserveTask, GiveUp, ReserveHost, CreateFail, Answer
<1>2. ASSUME NEW r \in Requests, RemoveExited(r) \/ AddAttach(r) \/ WatchAttach(r)
      PROVE  ManagerNext
  <2>1. requests[r].session \in Sessions
    BY <1>2 DEF RemoveExited, AddAttach, WatchAttach, SessionsExist, At
  <2> QED BY <1>2, <2>1 DEF RemoveExited, AddAttach, WatchAttach, ManagerNext
<1>3. ASSUME NEW r \in Requests, NEW s \in Sessions, Register(r, s) PROVE ManagerNext
  BY <1>3 DEF Register, ManagerNext
<1>4. ASSUME NEW s \in Sessions, Delete(s) \/ Fire(s) PROVE UNCHANGED managerVars
  BY <1>4 DEF Delete, Fire
<1>5. ASSUME NEW s \in Sessions,
             RemoveDoomed(s) \/ SessionStep(s) \/ \E n \in notices[s] : Report(s, n)
      PROVE  ManagerNext
  BY <1>5 DEF RemoveDoomed, SessionStep, Report, ManagerNext
<1>6. ASSUME NEW x \in fired, TimerRun(x) PROVE UNCHANGED managerVars
  BY <1>6 DEF TimerRun
<1>7. ASSUME NEW k \in Sockets, NEW s \in Sessions, Open(k, s) PROVE ManagerNext
  BY <1>7 DEF Open, ManagerNext
<1>8. ASSUME NEW k \in Sockets, Close(k) PROVE ManagerNext
  <2>1. socket[k] \in Sessions
    BY <1>8 DEF Close, TypeOK
  <2> QED BY <1>8, <2>1 DEF Close, ManagerNext
<1>9. CASE UNCHANGED vars
  BY <1>9 DEF vars
<1>10. CASE Next
  BY <1>1, <1>2, <1>3, <1>4, <1>5, <1>6, <1>7, <1>8, <1>10, ActionCases
<1> QED BY <1>9, <1>10

\* What each action of a request does to its record.
LEMMA RequestStepEffect ==
  ASSUME TypeOK, NEW r \in Requests
  PROVE  /\ \A for \in Tasks \cup Connections : Post(r, for) =>
              RequestMoves(r) /\ At(r, "idle") /\ requests'[r].at = "reserve" /\ requests'[r].for = for
         /\ ReserveTask(r) => /\ RequestMoves(r) /\ At(r, "reserve")
                              /\ requests'[r].for = requests[r].for
                              /\ requests'[r].at \in {"answered", "removing", "creating"}
         /\ GiveUp(r) => RequestMoves(r) /\ At(r, "reserve") /\ requests'[r].at = "failed"
         /\ RemoveExited(r) => /\ RequestMoves(r) /\ At(r, "removing")
                               /\ requests'[r].at = "reserve" /\ requests'[r].for = requests[r].for
         /\ ReserveHost(r) => /\ RequestMoves(r) /\ At(r, "reserve")
                              /\ requests'[r].at \in {"creating", "failed"}
                              /\ requests'[r].for = requests[r].for
         /\ CreateFail(r) => RequestMoves(r) /\ At(r, "creating") /\ requests'[r].at = "failed"
         /\ AddAttach(r) => /\ RequestMoves(r) /\ At(r, "adding") /\ requests'[r].at = "watching"
                            /\ requests'[r].for = requests[r].for
                            /\ requests'[r].session = requests[r].session
         /\ WatchAttach(r) => /\ RequestMoves(r) /\ At(r, "watching") /\ requests'[r].at = "releasing"
                              /\ requests'[r].for = requests[r].for
                              /\ requests'[r].session = requests[r].session
         /\ Answer(r) => /\ RequestMoves(r) /\ At(r, "releasing") /\ requests'[r].at = "answered"
                         /\ requests'[r].session = requests[r].session
         /\ \A s \in Sessions : Register(r, s) =>
              /\ RequestMoves(r) /\ At(r, "creating") /\ requests'[r].at = "adding"
              /\ requests'[r].for = requests[r].for /\ requests'[r].session = s
<1>1. ASSUME NEW for \in Tasks \cup Connections, Post(r, for)
      PROVE  RequestMoves(r) /\ At(r, "idle") /\ requests'[r].at = "reserve" /\ requests'[r].for = for
  <2>1. requests' = [requests EXCEPT ![r] = [at |-> "reserve", for |-> for, session |-> NoSession]]
    BY <1>1 DEF Post
  <2>2. [at |-> "reserve", for |-> for, session |-> NoSession] \in Request
    BY DEF Request
  <2> QED BY <1>1, <2>1, <2>2 DEF TypeOK, RequestMoves, Post
<1>2. ASSUME ReserveTask(r)
      PROVE  /\ RequestMoves(r) /\ At(r, "reserve") /\ requests'[r].for = requests[r].for
             /\ requests'[r].at \in {"answered", "removing", "creating"}
  <2>1. requests[r].for \in Tasks /\ byTask[requests[r].for] \in Sessions \cup {NoSession}
    BY <1>2 DEF ReserveTask, TypeOK
  <2>2. \/ Forward(r, "answered", byTask[requests[r].for])
        \/ Forward(r, "removing", byTask[requests[r].for])
        \/ Move(r, "creating")
    BY <1>2 DEF ReserveTask
  <2> QED BY <1>2, <2>1, <2>2, ForwardEffect, MoveEffect DEF ReserveTask, RequestMoves
<1>3. GiveUp(r) => RequestMoves(r) /\ At(r, "reserve") /\ requests'[r].at = "failed"
  BY MoveEffect DEF GiveUp, RequestMoves
<1>4. RemoveExited(r) => /\ RequestMoves(r) /\ At(r, "removing")
                         /\ requests'[r].at = "reserve" /\ requests'[r].for = requests[r].for
  BY ForwardEffect DEF RemoveExited, RequestMoves
<1>5. ReserveHost(r) => /\ RequestMoves(r) /\ At(r, "reserve")
                        /\ requests'[r].at \in {"creating", "failed"}
                        /\ requests'[r].for = requests[r].for
  BY MoveEffect DEF ReserveHost, RequestMoves
<1>6. CreateFail(r) => RequestMoves(r) /\ At(r, "creating") /\ requests'[r].at = "failed"
  BY MoveEffect DEF CreateFail, RequestMoves
<1>7. AddAttach(r) => /\ RequestMoves(r) /\ At(r, "adding") /\ requests'[r].at = "watching"
                      /\ requests'[r].for = requests[r].for
                      /\ requests'[r].session = requests[r].session
  BY MoveEffect DEF AddAttach, RequestMoves
<1>8. WatchAttach(r) => /\ RequestMoves(r) /\ At(r, "watching") /\ requests'[r].at = "releasing"
                        /\ requests'[r].for = requests[r].for
                        /\ requests'[r].session = requests[r].session
  BY MoveEffect DEF WatchAttach, RequestMoves
<1>9. Answer(r) => /\ RequestMoves(r) /\ At(r, "releasing") /\ requests'[r].at = "answered"
                   /\ requests'[r].session = requests[r].session
  BY MoveEffect DEF Answer, RequestMoves
<1>10. ASSUME NEW s \in Sessions, Register(r, s)
       PROVE  /\ RequestMoves(r) /\ At(r, "creating") /\ requests'[r].at = "adding"
              /\ requests'[r].for = requests[r].for /\ requests'[r].session = s
  BY <1>10, ForwardEffect DEF Register, RequestMoves
<1> QED BY <1>1, <1>2, <1>3, <1>4, <1>5, <1>6, <1>7, <1>8, <1>9, <1>10

\* The types of the registry and of what is reserved.
RegistryTypeOK ==
  /\ byTask \in [Tasks -> Sessions \cup {NoSession}]
  /\ bySession \in SUBSET Sessions
  /\ target \in [Sessions -> Tasks \cup Connections \cup {NoTarget}]
  /\ timer \in SUBSET Sessions
  /\ generation \in [Sessions -> Nat]

LEMMA ForgetType ==
  ASSUME TypeOK, NEW s \in Sessions, Forget(s) PROVE RegistryTypeOK'
BY DEF TypeOK, RegistryTypeOK, Forget

LEMMA HeardType ==
  ASSUME TypeOK, NEW s \in Sessions, NEW count \in Nat, Heard(s, count) PROVE RegistryTypeOK'
BY DEF TypeOK, RegistryTypeOK, Heard, Stop, Arm

LEMMA RegistrySame ==
  ASSUME TypeOK, UNCHANGED registryVars PROVE RegistryTypeOK'
BY DEF TypeOK, RegistryTypeOK, registryVars

LEMMA ReleaseType ==
  ASSUME TypeOK, OpeningCounted, NEW r \in Requests, Holding(r), ~Holding(r)', RequestMoves(r),
         requests[r].for \in Tasks \cup Connections, Release(requests[r].for)
  PROVE  /\ creating' \in SUBSET (Tasks \cup Connections)
         /\ opening' \in [Connections -> Nat]
         /\ OpeningCounted'
<1> DEFINE t == requests[r].for
<1>1. creating' = creating \ {t}
      /\ opening' = [c \in Connections |-> IF c = t THEN opening[c] - 1 ELSE opening[c]]
  BY DEF Release
<1>2. ASSUME NEW c \in Connections PROVE opening'[c] = Cardinality(Holders(c))' /\ opening'[c] \in Nat
  <2>1. opening[c] = Cardinality(Holders(c)) /\ opening[c] \in Nat
    BY DEF OpeningCounted, TypeOK
  <2>2. CASE c = t
    BY <1>1, <2>1, <2>2, HolderRemoved
  <2>3. CASE c # t
    <3>1. Holders(c)' = Holders(c)
      BY <2>3, HoldersSame
    <3> QED BY <1>1, <2>1, <2>3, <3>1
  <2> QED BY <2>2, <2>3
<1>3. opening' = [c \in Connections |-> opening'[c]]
  BY <1>1
<1> QED BY <1>1, <1>2, <1>3 DEF TypeOK, OpeningCounted

LEMMA OpeningSame ==
  ASSUME TypeOK, OpeningCounted, opening' = opening, NEW r \in Requests, RequestMoves(r),
         \A c \in Connections : (requests'[r].for = c /\ Holding(r)') = (requests[r].for = c /\ Holding(r))
  PROVE  OpeningCounted'
BY HoldersSame DEF OpeningCounted

LEMMA OpeningUnchanged ==
  ASSUME OpeningCounted, opening' = opening, requests' = requests PROVE OpeningCounted'
BY DEF OpeningCounted, Holders, Holding

\* What is reserved is counted.
LEMMA OpeningStep ==
  ASSUME TypeOK, SessionsExist, OpeningCounted, [Next]_vars
  PROVE  OpeningCounted' /\ opening' \in [Connections -> Nat]
<1> USE DEF TypeOK
<1>1. ASSUME NEW r \in Requests, NEW for \in Tasks \cup Connections, Post(r, for)
      PROVE  OpeningCounted' /\ opening' = opening
  <2>1. opening' = opening /\ ~Holding(r) /\ ~Holding(r)' /\ RequestMoves(r)
    BY <1>1, RequestStepEffect DEF Post, Holding, At
  <2> QED BY <2>1, OpeningSame
<1>2. ASSUME NEW r \in Requests, ReserveTask(r) PROVE OpeningCounted' /\ opening' = opening
  <2>1. /\ opening' = opening /\ RequestMoves(r) /\ requests[r].for \in Tasks
        /\ ~Holding(r) /\ requests'[r].for = requests[r].for
    BY <1>2, RequestStepEffect DEF ReserveTask, Holding, At
  <2>2. \A c \in Connections : requests[r].for # c
    BY <2>1, BoardAttachAssumption
  <2> QED BY <2>1, <2>2, OpeningSame
<1>3. ASSUME NEW r \in Requests, GiveUp(r) \/ RemoveExited(r)
      PROVE  OpeningCounted' /\ opening' = opening
  <2>1. opening' = opening /\ ~Holding(r) /\ ~Holding(r)' /\ RequestMoves(r)
    BY <1>3, RequestStepEffect DEF GiveUp, RemoveExited, Holding, At
  <2> QED BY <2>1, OpeningSame
<1>4. ASSUME NEW r \in Requests, ReserveHost(r)
      PROVE  OpeningCounted' /\ opening' \in [Connections -> Nat]
  <2> DEFINE d == requests[r].for
  <2>1. /\ d \in Connections /\ RequestMoves(r) /\ ~Holding(r) /\ requests'[r].for = d
        /\ requests'[r].at \in {"creating", "failed"}
    BY <1>4, RequestStepEffect DEF ReserveHost, Holding, At
  <2>2. CASE Move(r, "failed") /\ opening' = opening
    <3>1. ~Holding(r)'
      BY <2>2, MoveEffect DEF Holding
    <3> QED BY <2>1, <2>2, <3>1, OpeningSame
  <2>3. CASE Move(r, "creating") /\ opening' = [opening EXCEPT ![d] = @ + 1]
    <3>1. Holding(r)'
      BY <2>3, MoveEffect DEF Holding
    <3>2. ASSUME NEW c \in Connections PROVE opening'[c] = Cardinality(Holders(c))'
      <4>1. opening[c] = Cardinality(Holders(c)) /\ opening[c] \in Nat
        BY DEF OpeningCounted
      <4>2. CASE c = d
        BY <2>1, <2>3, <3>1, <4>1, <4>2, HolderAdded
      <4>3. CASE c # d
        BY <2>1, <2>3, <4>1, <4>3, HoldersSame
      <4> QED BY <4>2, <4>3
    <3>3. opening' \in [Connections -> Nat]
      BY <2>1, <2>3
    <3> QED BY <3>2, <3>3 DEF OpeningCounted
  <2> QED BY <1>4, <2>2, <2>3 DEF ReserveHost, Counted
<1>5. ASSUME NEW r \in Requests, CreateFail(r) \/ Answer(r)
      PROVE  OpeningCounted' /\ opening' \in [Connections -> Nat]
  <2>1. Holding(r) /\ ~Holding(r)' /\ RequestMoves(r) /\ Release(requests[r].for)
    BY <1>5, RequestStepEffect DEF CreateFail, Answer, Holding, At
  <2>2. requests[r].for \in Tasks \cup Connections
    BY <2>1 DEF SessionsExist
  <2> QED BY <2>1, <2>2, ReleaseType
<1>6. ASSUME NEW r \in Requests, AddAttach(r) \/ WatchAttach(r) \/ \E s \in Sessions : Register(r, s)
      PROVE  OpeningCounted' /\ opening' = opening
  <2>1. /\ opening' = opening /\ Holding(r) /\ Holding(r)' /\ RequestMoves(r)
        /\ requests'[r].for = requests[r].for
    BY <1>6, RequestStepEffect DEF AddAttach, WatchAttach, Register, Holding, At
  <2> QED BY <2>1, OpeningSame
<1>7. ASSUME NEW s \in Sessions,
             \/ Delete(s) \/ Fire(s) \/ RemoveDoomed(s) \/ SessionStep(s)
             \/ \E n \in notices[s] : Report(s, n)
      PROVE  OpeningCounted' /\ opening' = opening
  BY <1>7, OpeningUnchanged DEF Delete, Fire, RemoveDoomed, SessionStep, Report, requestVars
<1>8. ASSUME NEW x \in fired, TimerRun(x) PROVE OpeningCounted' /\ opening' = opening
  BY <1>8, OpeningUnchanged DEF TimerRun, requestVars
<1>9. ASSUME NEW k \in Sockets, Close(k) \/ \E s \in Sessions : Open(k, s)
      PROVE  OpeningCounted' /\ opening' = opening
  BY <1>9, OpeningUnchanged DEF Close, Open, requestVars
<1>10. CASE UNCHANGED vars
  BY <1>10, OpeningUnchanged DEF vars, requestVars
<1>11. CASE Next
  BY <1>1, <1>2, <1>3, <1>4, <1>5, <1>6, <1>7, <1>8, <1>9, <1>11, ActionCases
<1> QED BY <1>10, <1>11

(***************************************************************************)
(* What exists stays, and nothing is known of what does not exist.         *)
(***************************************************************************)
LEMMA ExistingStays ==
  ASSUME ManagerTypeOK, [ManagerNext]_managerVars, NEW s \in Sessions, state[s] # "absent"
  PROVE  state'[s] # "absent"
<1>1. ASSUME NEW u \in Sessions,
             CreateSession(u) \/ EndSession(u) \/ Add(u) \/ Remove(u) \/ Watch(u) \/ EndOutput(u)
      PROVE  state'[s] # "absent"
  BY <1>1 DEF CreateSession, EndSession, Add, Remove, Watch, EndOutput, ManagerTypeOK, sessionVars
<1>2. ASSUME NEW u \in Sessions, NEW k \in Sockets, Subscribe(u, k) \/ Unsubscribe(u, k)
      PROVE  state'[s] # "absent"
  BY <1>2 DEF Subscribe, Unsubscribe, sessionVars
<1>3. ASSUME NEW u \in Sessions, NEW n \in notices[u], Notify(u, n) PROVE state'[s] # "absent"
  BY <1>3 DEF Notify, sessionVars
<1> QED BY <1>1, <1>2, <1>3 DEF ManagerNext, managerVars, sessionVars

LEMMA SessionsExistStep ==
  ASSUME TypeOK, SessionsExist, RegistryConsistent, Fresh, [Next]_vars
  PROVE  SessionsExist'
<1> DEFINE Good(r) ==
      /\ requests[r].at \in {"removing", "adding", "watching", "releasing", "answered"}
           => requests[r].session \in Sessions /\ state[requests[r].session] # "absent"
      /\ (Holding(r) \/ At(r, "reserve") \/ At(r, "removing"))
           => requests[r].for \in Tasks \cup Connections
<1>0. \A s \in Sessions : state[s] # "absent" => state'[s] # "absent"
  BY ManagerStep, ExistingStays DEF TypeOK
<1>1. ASSUME NEW q \in Requests, requests'[q] = requests[q] PROVE Good(q)'
  BY <1>0, <1>1 DEF SessionsExist, Holding, At
<1>2. ASSUME NEW r \in Requests, RequestMoves(r), Good(r)' PROVE SessionsExist'
  <2> HIDE DEF Good
  <2>1. \A q \in Requests : Good(q)'
    BY <1>1, <1>2 DEF RequestMoves
  <2> QED BY <2>1 DEF Good, SessionsExist
<1>3. ASSUME requests' = requests PROVE SessionsExist'
  <2> HIDE DEF Good
  <2>1. \A q \in Requests : Good(q)'
    BY <1>1, <1>3
  <2> QED BY <2>1 DEF Good, SessionsExist
<1>4. ASSUME NEW r \in Requests, NEW for \in Tasks \cup Connections, Post(r, for)
      PROVE  SessionsExist'
  <2>1. RequestMoves(r) /\ Good(r)'
    BY <1>4, RequestStepEffect DEF Holding, At
  <2> QED BY <1>2, <2>1
<1>5. ASSUME NEW r \in Requests, ReserveTask(r) PROVE SessionsExist'
  <2> DEFINE a == byTask[requests[r].for]
  <2>1. /\ RequestMoves(r) /\ requests[r].for \in Tasks /\ requests'[r].for = requests[r].for
        /\ requests'[r].at \in {"answered", "removing", "creating"}
    BY <1>5, RequestStepEffect DEF ReserveTask
  <2>2. a # NoSession => a \in Sessions /\ state[a] # "absent"
    BY <2>1 DEF RegistryConsistent, Fresh, TypeOK
  <2>3. \/ a # NoSession /\ (Forward(r, "answered", a) \/ Forward(r, "removing", a))
        \/ Move(r, "creating")
    BY <1>5 DEF ReserveTask
  <2>4. requests'[r].at \in {"answered", "removing"} => a # NoSession /\ requests'[r].session = a
    <3>1. CASE a # NoSession /\ (Forward(r, "answered", a) \/ Forward(r, "removing", a))
      BY <2>2, <3>1, ForwardEffect
    <3>2. CASE Move(r, "creating")
      BY <3>2, MoveEffect
    <3> QED BY <2>3, <3>1, <3>2
  <2> HIDE DEF a
  <2>5. Good(r)'
    BY <1>0, <2>1, <2>2, <2>4 DEF Holding, At
  <2> QED BY <1>2, <2>1, <2>5
<1>6. ASSUME NEW r \in Requests, RemoveExited(r) \/ ReserveHost(r) \/ GiveUp(r) \/ CreateFail(r)
      PROVE  SessionsExist'
  <2>1. Good(r)
    BY DEF SessionsExist
  <2>2. RequestMoves(r) /\ Good(r)'
    BY <1>6, <2>1, RequestStepEffect DEF ReserveHost, Holding, At
  <2> QED BY <1>2, <2>2
<1>7. ASSUME NEW r \in Requests, AddAttach(r) \/ WatchAttach(r) \/ Answer(r) PROVE SessionsExist'
  <2>1. Good(r)
    BY DEF SessionsExist
  <2>2. RequestMoves(r) /\ Good(r)'
    BY <1>0, <1>7, <2>1, RequestStepEffect DEF Holding, At
  <2> QED BY <1>2, <2>2
<1>8. ASSUME NEW r \in Requests, NEW s \in Sessions, Register(r, s) PROVE SessionsExist'
  <2>1. Good(r) /\ state'[s] # "absent"
    BY <1>8 DEF SessionsExist, Register, CreateSession, TypeOK, ManagerTypeOK
  <2>2. RequestMoves(r) /\ Good(r)'
    BY <1>8, <2>1, RequestStepEffect DEF Holding, At
  <2> QED BY <1>2, <2>2
<1>9. CASE \/ UNCHANGED vars
           \/ \E s \in Sessions :
                \/ Delete(s) \/ Fire(s) \/ RemoveDoomed(s) \/ SessionStep(s)
                \/ \E n \in notices[s] : Report(s, n)
           \/ \E x \in fired : TimerRun(x)
           \/ \E k \in Sockets : Close(k) \/ \E s \in Sessions : Open(k, s)
  <2>1. requests' = requests
    BY <1>9 DEF vars, Delete, Fire, RemoveDoomed, SessionStep, Report, TimerRun, Close, Open, requestVars
  <2> QED BY <1>3, <2>1
<1>10. CASE Next
  <2> HIDE DEF Good
  <2> QED BY <1>4, <1>5, <1>6, <1>7, <1>8, <1>9, <1>10, ActionCases
<1> QED BY <1>9, <1>10

(***************************************************************************)
(* A task's attach has one creator.                                        *)
(***************************************************************************)
ByTaskShrinks == \A t \in Tasks : byTask'[t] \in {byTask[t], NoSession}

LEMMA ForgetShrinks ==
  ASSUME TypeOK, NEW s \in Sessions, Forget(s) PROVE ByTaskShrinks
BY DEF ByTaskShrinks, Forget, TypeOK

LEMMA CreatorKept ==
  ASSUME OneCreator, requests' = requests, creating' = creating, ByTaskShrinks PROVE OneCreator'
BY DEF OneCreator, Holding, At, ByTaskShrinks

\* A request that does not take anything new.
LEMMA CreatorMoves ==
  ASSUME OneCreator, NEW r \in Requests, RequestMoves(r), creating' = creating, ByTaskShrinks,
         requests'[r].at # "creating",
         Holding(r)' => Holding(r) /\ requests'[r].for = requests[r].for
  PROVE  OneCreator'
BY DEF OneCreator, RequestMoves, Holding, At, ByTaskShrinks

LEMMA CreatorReleases ==
  ASSUME TypeOK, OneCreator, NEW r \in Requests, RequestMoves(r), byTask' = byTask,
         Holding(r), ~Holding(r)', Release(requests[r].for)
  PROVE  OneCreator'
<1>1. creating' = creating \ {requests[r].for}
  BY DEF Release
<1>2. \A q \in Requests : Holding(q)' => q # r /\ Holding(q) /\ requests'[q] = requests[q]
  BY DEF RequestMoves, Holding
<1>3. \A q \in Requests : At(q, "creating")' => Holding(q)'
  BY DEF At, Holding
<1>4. ASSUME NEW q \in Requests, Holding(q)', requests'[q].for \in Tasks
      PROVE  requests'[q].for \in creating'
  BY <1>1, <1>2, <1>4 DEF OneCreator
<1>5. ASSUME NEW q \in Requests, NEW p \in Requests, Holding(q)', Holding(p)',
             requests'[q].for = requests'[p].for, requests'[q].for \in Tasks
      PROVE  q = p
  BY <1>2, <1>5 DEF OneCreator
<1>6. ASSUME NEW q \in Requests, At(q, "creating")', requests'[q].for \in Tasks
      PROVE  byTask'[requests'[q].for] = NoSession
  BY <1>2, <1>3, <1>6 DEF OneCreator, At
<1> QED BY <1>4, <1>5, <1>6 DEF OneCreator

LEMMA OneCreatorStep ==
  ASSUME TypeOK, SessionsExist, OneCreator, [Next]_vars PROVE OneCreator'
<1>0. byTask' = byTask => ByTaskShrinks
  BY DEF ByTaskShrinks
<1>1. ASSUME NEW r \in Requests, NEW for \in Tasks \cup Connections, Post(r, for) PROVE OneCreator'
  <2>1. RequestMoves(r) /\ requests'[r].at = "reserve" /\ creating' = creating /\ byTask' = byTask
    BY <1>1, RequestStepEffect DEF Post, registryVars
  <2> QED BY <1>0, <2>1, CreatorMoves DEF Holding
<1>2. ASSUME NEW r \in Requests, ReserveTask(r) PROVE OneCreator'
  <2> DEFINE t == requests[r].for  a == byTask[t]
  <2>1. RequestMoves(r) /\ t \in Tasks /\ At(r, "reserve") /\ requests'[r].for = t
    BY <1>2, RequestStepEffect DEF ReserveTask
  <2>2. CASE a # NoSession /\ Forward(r, "answered", a) /\ UNCHANGED <<creating, registryVars>>
    <3>1. requests'[r].at = "answered" /\ byTask' = byTask /\ creating' = creating
      BY <2>1, <2>2, ForwardEffect DEF TypeOK, registryVars
    <3> QED BY <1>0, <2>1, <3>1, CreatorMoves DEF Holding
  <2>3. CASE a # NoSession /\ Forget(a) /\ Forward(r, "removing", a) /\ UNCHANGED creating
    <3>1. requests'[r].at = "removing" /\ a \in Sessions
      BY <2>1, <2>3, ForwardEffect DEF TypeOK
    <3>2. ByTaskShrinks
      BY <2>3, <3>1, ForgetShrinks
    <3> QED BY <2>1, <2>3, <3>1, <3>2, CreatorMoves DEF Holding
  <2>4. CASE /\ a = NoSession /\ t \notin creating /\ creating' = creating \cup {t}
             /\ Move(r, "creating") /\ UNCHANGED registryVars
    <3>1. byTask' = byTask /\ ~Holding(r)
      BY <2>1, <2>4 DEF registryVars, Holding, At
    <3>2. \A q \in Requests : q # r => requests'[q] = requests[q]
      BY <2>1 DEF RequestMoves
    <3>3. \A q \in Requests : Holding(q) /\ requests[q].for \in Tasks => requests[q].for # t
      BY <2>4 DEF OneCreator
    <3> QED BY <2>1, <2>4, <3>1, <3>2, <3>3 DEF OneCreator, Holding, At
  <2> QED BY <1>2, <2>2, <2>3, <2>4 DEF ReserveTask
<1>3. ASSUME NEW r \in Requests, GiveUp(r) \/ RemoveExited(r) PROVE OneCreator'
  <2>1. /\ RequestMoves(r) /\ requests'[r].at \in {"failed", "reserve"}
        /\ creating' = creating /\ byTask' = byTask
    BY <1>3, RequestStepEffect DEF GiveUp, RemoveExited, registryVars
  <2> QED BY <1>0, <2>1, CreatorMoves DEF Holding
<1>4. ASSUME NEW r \in Requests, ReserveHost(r) PROVE OneCreator'
  <2>1. /\ RequestMoves(r) /\ requests'[r].for = requests[r].for /\ requests[r].for \in Connections
        /\ creating' = creating /\ byTask' = byTask
    BY <1>4, RequestStepEffect DEF ReserveHost, registryVars
  <2>2. requests'[r].for \notin Tasks
    BY <2>1, BoardAttachAssumption
  <2>3. \A q \in Requests : q # r => requests'[q] = requests[q]
    BY <2>1 DEF RequestMoves
  <2> QED BY <2>1, <2>2, <2>3 DEF OneCreator, Holding, At
<1>5. ASSUME NEW r \in Requests, CreateFail(r) \/ Answer(r) PROVE OneCreator'
  <2>1. /\ Holding(r) /\ ~Holding(r)' /\ RequestMoves(r) /\ Release(requests[r].for)
        /\ byTask' = byTask
    BY <1>5, RequestStepEffect DEF CreateFail, Answer, Holding, At, registryVars
  <2> QED BY <2>1, CreatorReleases
<1>6. ASSUME NEW r \in Requests, AddAttach(r) \/ WatchAttach(r) PROVE OneCreator'
  <2>1. /\ RequestMoves(r) /\ requests'[r].at \in {"watching", "releasing"} /\ Holding(r)
        /\ requests'[r].for = requests[r].for /\ creating' = creating /\ byTask' = byTask
    BY <1>6, RequestStepEffect DEF AddAttach, WatchAttach, Holding, At, registryVars
  <2> QED BY <1>0, <2>1, CreatorMoves
<1>7. ASSUME NEW r \in Requests, NEW s \in Sessions, Register(r, s) PROVE OneCreator'
  <2> DEFINE t == requests[r].for
  <2>1. /\ RequestMoves(r) /\ At(r, "creating") /\ requests'[r].at = "adding"
        /\ requests'[r].for = t
    BY <1>7, RequestStepEffect
  <2>2. /\ creating' = creating
        /\ byTask' = [u \in Tasks |-> IF u = t THEN s ELSE byTask[u]]
    BY <1>7 DEF Register
  <2>3. \A q \in Requests : q # r => requests'[q] = requests[q]
    BY <2>1 DEF RequestMoves
  <2>4. Holding(r) /\ Holding(r)'
    BY <2>1 DEF Holding, At
  <2>5. ASSUME NEW q \in Requests, At(q, "creating")', requests'[q].for \in Tasks
        PROVE  byTask'[requests'[q].for] = NoSession
    <3>1. q # r /\ Holding(q) /\ requests'[q] = requests[q]
      BY <2>1, <2>3, <2>5 DEF At, Holding
    <3>2. requests[q].for # t
      BY <2>4, <2>5, <3>1 DEF OneCreator
    <3> QED BY <2>2, <2>5, <3>1, <3>2 DEF OneCreator, At
  <2>6. \A q \in Requests : Holding(q)' => Holding(q) /\ requests'[q].for = requests[q].for
    BY <2>1, <2>3, <2>4 DEF Holding
  <2> QED BY <2>2, <2>5, <2>6 DEF OneCreator
<1>8. ASSUME NEW s \in Sessions, Delete(s) PROVE OneCreator'
  BY <1>8, ForgetShrinks, CreatorKept DEF Delete, requestVars
<1>9. ASSUME NEW x \in fired, TimerRun(x) PROVE OneCreator'
  <2>1. x[1] \in Sessions
    BY DEF TypeOK
  <2>2. ByTaskShrinks
    BY <1>0, <1>9, <2>1, ForgetShrinks DEF TimerRun, registryVars
  <2> QED BY <1>9, <2>2, CreatorKept DEF TimerRun, requestVars
<1>10. CASE \/ UNCHANGED vars
            \/ \E s \in Sessions :
                 \/ Fire(s) \/ RemoveDoomed(s) \/ SessionStep(s)
                 \/ \E n \in notices[s] : Report(s, n)
            \/ \E k \in Sockets : Close(k) \/ \E s \in Sessions : Open(k, s)
  <2>1. requests' = requests /\ creating' = creating /\ byTask' = byTask
    BY <1>10 DEF vars, Fire, RemoveDoomed, SessionStep, Report, Heard, Close, Open, requestVars,
                 registryVars
  <2> QED BY <1>0, <2>1, CreatorKept
<1>11. CASE Next
  BY <1>1, <1>2, <1>3, <1>4, <1>5, <1>6, <1>7, <1>8, <1>9, <1>10, <1>11, ActionCases
<1> QED BY <1>10, <1>11

(***************************************************************************)
(* A session that does not exist yet is known to nobody.                   *)
(***************************************************************************)
LEMMA FreshStep ==
  ASSUME TypeOK, SessionsExist, Fresh, [Next]_vars PROVE Fresh'
<1> DEFINE Unknown(s) ==
      /\ s \notin managed /\ s \notin pumping /\ s \notin bySession
      /\ subs[s] = {} /\ notices[s] = {} /\ heard[s] = 0
<1>0. \A s \in Sessions : state'[s] = "absent" => state[s] = "absent" /\ Unknown(s)
  BY ManagerStep, ExistingStays DEF TypeOK, Fresh
<1>a. ASSUME NEW s \in Sessions, state'[s] = "absent", UNCHANGED managerVars, bySession' \subseteq bySession
      PROVE  Unknown(s)'
  BY <1>0, <1>a DEF managerVars, sessionVars, countVars
<1>1. ASSUME NEW s \in Sessions, state'[s] = "absent", NEW r \in Requests,
             \/ \E for \in Tasks \cup Connections : Post(r, for)
             \/ ReserveTask(r) \/ GiveUp(r) \/ ReserveHost(r) \/ CreateFail(r) \/ Answer(r)
      PROVE  Unknown(s)'
  <2>1. UNCHANGED managerVars /\ bySession' \subseteq bySession
    BY <1>1 DEF Post, ReserveTask, GiveUp, ReserveHost, CreateFail, Answer, registryVars, Forget
  <2> QED BY <1>1, <1>a, <2>1
<1>2. ASSUME NEW s \in Sessions, state'[s] = "absent", NEW r \in Requests,
             RemoveExited(r) \/ AddAttach(r) \/ WatchAttach(r)
      PROVE  Unknown(s)'
  <2>1. requests[r].session # s
    BY <1>0, <1>2 DEF RemoveExited, AddAttach, WatchAttach, SessionsExist, At
  <2>2. bySession' = bySession
    BY <1>2 DEF RemoveExited, AddAttach, WatchAttach, registryVars
  <2> QED BY <1>0, <1>2, <2>1, <2>2 DEF RemoveExited, AddAttach, WatchAttach, Remove, Add, Watch,
             countVars, sessionVars
<1>3. ASSUME NEW s \in Sessions, state'[s] = "absent", NEW r \in Requests, NEW u \in Sessions,
             Register(r, u)
      PROVE  Unknown(s)'
  <2>1. u # s
    BY <1>3 DEF Register, CreateSession, TypeOK, ManagerTypeOK
  <2> QED BY <1>0, <1>3, <2>1 DEF Register, CreateSession, countVars
<1>4. ASSUME NEW s \in Sessions, state'[s] = "absent", NEW u \in Sessions, Delete(u) \/ Fire(u)
      PROVE  Unknown(s)'
  <2>1. UNCHANGED managerVars /\ bySession' \subseteq bySession
    BY <1>4 DEF Delete, Fire, Forget, registryVars
  <2> QED BY <1>4, <1>a, <2>1
<1>5. ASSUME NEW s \in Sessions, state'[s] = "absent", NEW u \in Sessions, RemoveDoomed(u)
      PROVE  Unknown(s)'
  BY <1>0, <1>5 DEF RemoveDoomed, Remove, countVars, registryVars
<1>6. ASSUME NEW s \in Sessions, state'[s] = "absent", NEW u \in Sessions, SessionStep(u)
      PROVE  Unknown(s)'
  <2>1. bySession' = bySession
    BY <1>6 DEF SessionStep, registryVars
  <2>2. CASE EndSession(u)
    BY <1>0, <1>6, <2>1, <2>2 DEF EndSession, countVars
  <2>3. CASE EndOutput(u)
    <3>1. u # s
      BY <1>0, <1>6, <2>3 DEF EndOutput
    <3> QED BY <1>0, <1>6, <2>1, <2>3, <3>1 DEF EndOutput, CountChanged, countVars, TypeOK, ManagerTypeOK
  <2> QED BY <1>6, <2>2, <2>3 DEF SessionStep
<1>7. ASSUME NEW s \in Sessions, state'[s] = "absent", NEW u \in Sessions, NEW n \in notices[u],
             Report(u, n)
      PROVE  Unknown(s)'
  <2>1. u # s
    BY <1>0, <1>7
  <2>2. bySession' = bySession
    BY <1>7 DEF Report, Heard, registryVars
  <2> QED BY <1>0, <1>7, <2>1, <2>2 DEF Report, Notify, sessionVars, TypeOK, ManagerTypeOK
<1>8. ASSUME NEW s \in Sessions, state'[s] = "absent", NEW x \in fired, TimerRun(x) PROVE Unknown(s)'
  <2>1. UNCHANGED managerVars /\ bySession' \subseteq bySession
    BY <1>8 DEF TimerRun, Forget, registryVars
  <2> QED BY <1>8, <1>a, <2>1
<1>9. ASSUME NEW s \in Sessions, state'[s] = "absent", NEW k \in Sockets, NEW u \in Sessions, Open(k, u)
      PROVE  Unknown(s)'
  <2>1. u # s
    BY <1>0, <1>9 DEF Open, Subscribe
  <2>2. bySession' = bySession
    BY <1>9 DEF Open, registryVars
  <2> QED BY <1>0, <1>9, <2>1, <2>2 DEF Open, Subscribe, CountChanged, countVars, sessionVars, TypeOK,
             ManagerTypeOK
<1>10. ASSUME NEW s \in Sessions, state'[s] = "absent", NEW k \in Sockets, Close(k) PROVE Unknown(s)'
  <2> DEFINE u == socket[k]
  <2>1. u \in Sessions /\ Unsubscribe(u, k) /\ bySession' = bySession
    BY <1>10 DEF Close, TypeOK, registryVars
  <2> HIDE DEF u
  <2>2. CASE UNCHANGED countVars
    BY <1>0, <1>10, <2>1, <2>2 DEF Unsubscribe, countVars, sessionVars
  <2>3. CASE CountChanged(u, subs[u] \ {k}) /\ k \in subs[u]
    <3>1. u # s
      BY <1>0, <1>10, <2>3
    <3> QED BY <1>0, <1>10, <2>1, <2>3, <3>1 DEF Unsubscribe, CountChanged, sessionVars, TypeOK,
               ManagerTypeOK
  <2> QED BY <2>1, <2>2, <2>3 DEF Unsubscribe
<1>11. CASE UNCHANGED vars
  BY <1>a, <1>11 DEF vars, Fresh, registryVars
<1>12. CASE Next
  <2>1. ASSUME NEW s \in Sessions, state'[s] = "absent" PROVE Unknown(s)'
    <3> HIDE DEF Unknown
    <3> QED BY <1>1, <1>2, <1>3, <1>4, <1>5, <1>6, <1>7, <1>8, <1>9, <1>10, <1>12, <2>1, ActionCases
  <2> QED BY <2>1 DEF Fresh
<1> QED BY <1>11, <1>12

(***************************************************************************)
(* The registry's two maps agree.                                          *)
(***************************************************************************)
LEMMA RegistryKept ==
  ASSUME RegistryConsistent, byTask' = byTask, bySession' = bySession, target' = target
  PROVE  RegistryConsistent'
BY DEF RegistryConsistent

LEMMA ForgetRegistry ==
  ASSUME TypeOK, RegistryConsistent, NEW s \in Sessions, Forget(s) PROVE RegistryConsistent'
BY DEF RegistryConsistent, Forget, TypeOK

LEMMA RegistryStep ==
  ASSUME TypeOK, OneCreator, Fresh, RegistryConsistent, [Next]_vars PROVE RegistryConsistent'
<1>1. ASSUME NEW r \in Requests, ReserveTask(r) PROVE RegistryConsistent'
  <2> DEFINE a == byTask[requests[r].for]
  <2>1. a \in Sessions \cup {NoSession}
    BY <1>1 DEF ReserveTask, TypeOK
  <2>2. \/ a # NoSession /\ Forget(a)
        \/ UNCHANGED registryVars
    BY <1>1 DEF ReserveTask
  <2> QED BY <2>1, <2>2, ForgetRegistry, RegistryKept DEF registryVars
<1>2. ASSUME NEW r \in Requests, NEW s \in Sessions, Register(r, s) PROVE RegistryConsistent'
  <2> DEFINE t == requests[r].for
  <2>1. s \notin bySession /\ s # NoSession
    BY <1>2, BoardAttachAssumption DEF Register, CreateSession, Fresh
  <2>2. t \in Tasks => byTask[t] = NoSession
    BY <1>2 DEF Register, OneCreator
  <2>3. /\ byTask' = [u \in Tasks |-> IF u = t THEN s ELSE byTask[u]]
        /\ bySession' = bySession \cup {s}
        /\ target' = [target EXCEPT ![s] = t]
    BY <1>2 DEF Register
  <2> HIDE DEF t
  <2>4. ASSUME NEW u \in Tasks, byTask'[u] # NoSession
        PROVE  byTask'[u] \in bySession' /\ target'[byTask'[u]] = u
    <3>1. CASE u = t
      BY <2>3, <3>1 DEF TypeOK
    <3>2. CASE u # t
      <4>1. byTask'[u] = byTask[u] /\ byTask[u] \in bySession /\ target[byTask[u]] = u
        BY <2>3, <2>4, <3>2 DEF RegistryConsistent
      <4> QED BY <2>1, <2>3, <4>1 DEF TypeOK
    <3> QED BY <3>1, <3>2
  <2>5. ASSUME NEW v \in bySession', target'[v] \in Tasks PROVE byTask'[target'[v]] = v
    <3>1. CASE v = s
      BY <2>3, <2>5, <3>1 DEF TypeOK
    <3>2. CASE v # s
      <4>1. v \in bySession /\ target'[v] = target[v] /\ byTask[target[v]] = v /\ v \in Sessions
        BY <2>3, <2>5, <3>2 DEF RegistryConsistent, TypeOK
      <4>2. target[v] # t
        BY <2>2, <2>5, <4>1, BoardAttachAssumption
      <4> QED BY <2>3, <2>5, <4>1, <4>2
    <3> QED BY <3>1, <3>2
  <2> QED BY <2>4, <2>5 DEF RegistryConsistent
<1>3. ASSUME NEW s \in Sessions, Delete(s) PROVE RegistryConsistent'
  BY <1>3, ForgetRegistry DEF Delete
<1>4. ASSUME NEW x \in fired, TimerRun(x) PROVE RegistryConsistent'
  <2>1. x[1] \in Sessions
    BY DEF TypeOK
  <2> QED BY <1>4, <2>1, ForgetRegistry, RegistryKept DEF TimerRun, registryVars
<1>5. CASE \/ UNCHANGED vars
           \/ \E r \in Requests :
                \/ \E for \in Tasks \cup Connections : Post(r, for)
                \/ GiveUp(r) \/ RemoveExited(r) \/ ReserveHost(r) \/ CreateFail(r)
                \/ AddAttach(r) \/ WatchAttach(r) \/ Answer(r)
           \/ \E s \in Sessions :
                \/ Fire(s) \/ RemoveDoomed(s) \/ SessionStep(s)
                \/ \E n \in notices[s] : Report(s, n)
           \/ \E k \in Sockets : Close(k) \/ \E s \in Sessions : Open(k, s)
  <2>1. byTask' = byTask /\ bySession' = bySession /\ target' = target
    BY <1>5 DEF vars, registryVars, Post, GiveUp, RemoveExited, ReserveHost, CreateFail, AddAttach,
                WatchAttach, Answer, Fire, RemoveDoomed, SessionStep, Report, Heard, Close, Open
  <2> QED BY <2>1, RegistryKept
<1>6. CASE Next
  BY <1>1, <1>2, <1>3, <1>4, <1>5, <1>6, ActionCases
<1> QED BY <1>5, <1>6

(***************************************************************************)
(* A timer of the current generation is of a terminal nobody reads.        *)
(***************************************************************************)
LEMMA TimersKept ==
  ASSUME TimersCurrent, bySession' = bySession, timer' = timer, generation' = generation,
         heard' = heard, fired' \subseteq fired
  PROVE  TimersCurrent'
BY DEF TimersCurrent

LEMMA ForgetTimers ==
  ASSUME TypeOK, TimersCurrent, NEW s \in Sessions, Forget(s), heard' = heard, fired' \subseteq fired
  PROVE  TimersCurrent'
BY DEF TimersCurrent, Forget, TypeOK

LEMMA HeardTimers ==
  ASSUME TypeOK, TimersCurrent, NEW s \in Sessions, NEW count \in Nat, Heard(s, count),
         heard' = [heard EXCEPT ![s] = count], fired' = fired
  PROVE  TimersCurrent'
<1>1. fired \subseteq Sessions \X Nat /\ generation \in [Sessions -> Nat] /\ heard \in [Sessions -> Nat]
      /\ timer \subseteq Sessions /\ bySession \subseteq Sessions /\ bySession' = bySession
  BY DEF TypeOK, ManagerTypeOK, Heard
<1>2. CASE s \notin bySession
  <2>1. timer' = timer /\ generation' = generation
    BY <1>2 DEF Heard
  <2> QED BY <1>1, <1>2, <2>1 DEF TimersCurrent
<1>3. CASE s \in bySession /\ count > 0 /\ s \in timer
  <2>1. timer' = timer \ {s} /\ generation' = [generation EXCEPT ![s] = generation[s] + 1]
    BY <1>3 DEF Heard, Stop
  <2>2. ASSUME NEW x \in fired
        PROVE  /\ x[2] <= generation'[x[1]]
               /\ (x[1] \in bySession /\ x[2] = generation'[x[1]]) => x[1] \in timer'
    <3>1. x[1] \in Sessions /\ x[2] \in Nat /\ x[2] <= generation[x[1]]
          /\ ((x[1] \in bySession /\ x[2] = generation[x[1]]) => x[1] \in timer)
      BY <1>1 DEF TimersCurrent
    <3>2. CASE x[1] = s
      BY <1>1, <2>1, <3>1, <3>2
    <3>3. CASE x[1] # s
      BY <1>1, <2>1, <3>1, <3>3
    <3> QED BY <3>2, <3>3
  <2> QED BY <1>1, <2>1, <2>2 DEF TimersCurrent
<1>4. CASE s \in bySession /\ count = 0 /\ s \notin timer
  <2>1. timer' = timer \cup {s} /\ generation' = [generation EXCEPT ![s] = generation[s] + 1]
    BY <1>4 DEF Heard, Arm
  <2>2. ASSUME NEW x \in fired
        PROVE  /\ x[2] <= generation'[x[1]]
               /\ (x[1] \in bySession /\ x[2] = generation'[x[1]]) => x[1] \in timer'
    <3>1. x[1] \in Sessions /\ x[2] \in Nat /\ x[2] <= generation[x[1]]
          /\ ((x[1] \in bySession /\ x[2] = generation[x[1]]) => x[1] \in timer)
      BY <1>1 DEF TimersCurrent
    <3> QED BY <1>1, <2>1, <3>1
  <2> QED BY <1>1, <1>4, <2>1, <2>2 DEF TimersCurrent
<1>5. CASE s \in bySession /\ ~(count > 0 /\ s \in timer) /\ ~(count = 0 /\ s \notin timer)
  <2>1. timer' = timer /\ generation' = generation
    BY <1>5 DEF Heard
  <2> QED BY <1>1, <1>5, <2>1 DEF TimersCurrent
<1> QED BY <1>2, <1>3, <1>4, <1>5

LEMMA ManagerKeepsHeard ==
  ASSUME TypeOK, NEW s \in Sessions,
         \/ CreateSession(s) \/ EndSession(s) \/ Add(s) \/ Remove(s) \/ Watch(s) \/ EndOutput(s)
         \/ \E k \in Sockets : Subscribe(s, k) \/ Unsubscribe(s, k)
  PROVE  heard' = heard
BY DEF CreateSession, EndSession, Add, Remove, Watch, EndOutput, Subscribe, Unsubscribe, CountChanged,
       countVars

LEMMA TimersStep ==
  ASSUME TypeOK, SessionsExist, Fresh, TimersCurrent, [Next]_vars PROVE TimersCurrent'
<1>1. ASSUME NEW r \in Requests, ReserveTask(r) PROVE TimersCurrent'
  <2> DEFINE a == byTask[requests[r].for]
  <2>1. a \in Sessions \cup {NoSession}
    BY <1>1 DEF ReserveTask, TypeOK
  <2>2. (a # NoSession /\ Forget(a)) \/ UNCHANGED registryVars
    BY <1>1 DEF ReserveTask
  <2>3. heard' = heard /\ fired' = fired
    BY <1>1 DEF ReserveTask, managerVars, countVars
  <2> QED BY <2>1, <2>2, <2>3, ForgetTimers, TimersKept DEF registryVars
<1>2. ASSUME NEW r \in Requests, NEW s \in Sessions, Register(r, s) PROVE TimersCurrent'
  <2>1. s \notin bySession /\ heard[s] = 0
    BY <1>2 DEF Register, CreateSession, Fresh
  <2>2. /\ bySession' = bySession \cup {s} /\ timer' = timer \cup {s}
        /\ generation' = [generation EXCEPT ![s] = generation[s] + 1]
        /\ fired' = fired /\ heard' = heard
    BY <1>2, ManagerKeepsHeard DEF Register, Arm
  <2>3. fired \subseteq Sessions \X Nat /\ generation \in [Sessions -> Nat]
    BY DEF TypeOK
  <2>4. ASSUME NEW x \in fired
        PROVE  /\ x[2] <= generation'[x[1]]
               /\ (x[1] \in bySession' /\ x[2] = generation'[x[1]]) => x[1] \in timer'
    <3>1. x[1] \in Sessions /\ x[2] \in Nat /\ x[2] <= generation[x[1]]
          /\ ((x[1] \in bySession /\ x[2] = generation[x[1]]) => x[1] \in timer)
      BY <2>3 DEF TimersCurrent
    <3> QED BY <2>2, <2>3, <3>1
  <2>5. \A u \in bySession' \cap timer' : heard'[u] = 0
    BY <2>1, <2>2 DEF TimersCurrent
  <2>6. \A x \in fired' : /\ x[2] <= generation'[x[1]]
                          /\ (x[1] \in bySession' /\ x[2] = generation'[x[1]]) => x[1] \in timer'
    <3>1. fired' = fired
      BY <2>2
    <3> QED BY <2>4, <3>1
  <2> QED BY <2>5, <2>6 DEF TimersCurrent
<1>3. ASSUME NEW s \in Sessions, Delete(s) PROVE TimersCurrent'
  BY <1>3, ForgetTimers DEF Delete, managerVars, countVars
<1>4. ASSUME NEW s \in Sessions, Fire(s) PROVE TimersCurrent'
  <2>1. /\ s \in timer /\ fired' = fired \cup {<<s, generation[s]>>} /\ heard' = heard
        /\ bySession' = bySession /\ timer' = timer /\ generation' = generation
    BY <1>4 DEF Fire, registryVars, managerVars, countVars
  <2>2. generation[s] \in Nat
    BY DEF TypeOK
  <2> QED BY <2>1, <2>2 DEF TimersCurrent
<1>5. ASSUME NEW x \in fired, TimerRun(x) PROVE TimersCurrent'
  <2>1. x[1] \in Sessions /\ heard' = heard /\ fired' \subseteq fired
    BY <1>5 DEF TypeOK, TimerRun, managerVars, countVars
  <2> QED BY <1>5, <2>1, ForgetTimers, TimersKept DEF TimerRun, registryVars
<1>6. ASSUME NEW s \in Sessions, NEW n \in notices[s], Report(s, n) PROVE TimersCurrent'
  <2>1. fired' = fired /\ Notify(s, n) /\ n.count \in Nat
    BY <1>6 DEF Report, TypeOK, ManagerTypeOK, Notice
  <2>2. CASE Believes(s, n)
    BY <1>6, <2>1, <2>2, HeardTimers DEF Report, Notify
  <2>3. CASE ~Believes(s, n)
    BY <1>6, <2>1, <2>3, TimersKept DEF Report, Notify, registryVars
  <2> QED BY <2>2, <2>3
<1>7. ASSUME NEW r \in Requests,
             \/ \E for \in Tasks \cup Connections : Post(r, for)
             \/ GiveUp(r) \/ ReserveHost(r) \/ CreateFail(r) \/ Answer(r)
      PROVE  TimersCurrent'
  BY <1>7, TimersKept DEF Post, GiveUp, ReserveHost, CreateFail, Answer, registryVars, managerVars,
                          countVars
<1>8. ASSUME NEW r \in Requests, RemoveExited(r) \/ AddAttach(r) \/ WatchAttach(r) PROVE TimersCurrent'
  <2>1. requests[r].session \in Sessions
    BY <1>8 DEF RemoveExited, AddAttach, WatchAttach, SessionsExist, At
  <2>2. heard' = heard
    BY <1>8, <2>1, ManagerKeepsHeard DEF RemoveExited, AddAttach, WatchAttach
  <2> QED BY <1>8, <2>2, TimersKept DEF RemoveExited, AddAttach, WatchAttach, registryVars
<1>9. ASSUME NEW s \in Sessions, RemoveDoomed(s) \/ SessionStep(s) PROVE TimersCurrent'
  <2>1. heard' = heard
    BY <1>9, ManagerKeepsHeard DEF RemoveDoomed, SessionStep
  <2> QED BY <1>9, <2>1, TimersKept DEF RemoveDoomed, SessionStep, registryVars
<1>10. ASSUME NEW k \in Sockets, Close(k) \/ \E s \in Sessions : Open(k, s) PROVE TimersCurrent'
  <2>1. heard' = heard
    BY <1>10, ManagerKeepsHeard DEF Close, Open, TypeOK
  <2> QED BY <1>10, <2>1, TimersKept DEF Close, Open, registryVars
<1>11. CASE UNCHANGED vars
  BY <1>11, TimersKept DEF vars, registryVars, managerVars, countVars
<1>12. CASE Next
  BY <1>1, <1>2, <1>3, <1>4, <1>5, <1>6, <1>7, <1>8, <1>9, <1>10, <1>12, ActionCases
<1> QED BY <1>11, <1>12

(***************************************************************************)
(* Type correctness.                                                       *)
(***************************************************************************)
LEMMA RequestsStep ==
  ASSUME TypeOK, [Next]_vars
  PROVE  requests' \in [Requests -> Request] /\ creating' \in SUBSET (Tasks \cup Connections)
<1>1. ASSUME NEW r \in Requests,
             \/ \E for \in Tasks \cup Connections : Post(r, for)
             \/ ReserveTask(r) \/ GiveUp(r) \/ RemoveExited(r) \/ ReserveHost(r)
             \/ CreateFail(r) \/ AddAttach(r) \/ WatchAttach(r) \/ Answer(r)
             \/ \E s \in Sessions : Register(r, s)
      PROVE  requests' \in [Requests -> Request] /\ creating' \in SUBSET (Tasks \cup Connections)
  <2>1. requests' \in [Requests -> Request]
    BY <1>1, RequestStepEffect DEF RequestMoves
  <2>2. creating' \in SUBSET (Tasks \cup Connections)
    BY <1>1 DEF Post, ReserveTask, GiveUp, RemoveExited, ReserveHost, CreateFail, AddAttach, WatchAttach,
                Answer, Register, Release, TypeOK
  <2> QED BY <2>1, <2>2
<1>2. CASE \/ UNCHANGED vars
           \/ \E s \in Sessions :
                \/ Delete(s) \/ Fire(s) \/ RemoveDoomed(s) \/ SessionStep(s)
                \/ \E n \in notices[s] : Report(s, n)
           \/ \E x \in fired : TimerRun(x)
           \/ \E k \in Sockets : Close(k) \/ \E s \in Sessions : Open(k, s)
  <2>1. requests' = requests /\ creating' = creating
    BY <1>2 DEF vars, Delete, Fire, RemoveDoomed, SessionStep, Report, TimerRun, Close, Open, requestVars
  <2> QED BY <2>1 DEF TypeOK
<1> QED BY <1>1, <1>2, ActionCases

LEMMA RegistryTypeStep ==
  ASSUME TypeOK, [Next]_vars PROVE RegistryTypeOK'
<1>1. ASSUME NEW r \in Requests, ReserveTask(r) PROVE RegistryTypeOK'
  <2> DEFINE a == byTask[requests[r].for]
  <2>1. a \in Sessions \cup {NoSession}
    BY <1>1 DEF ReserveTask, TypeOK
  <2>2. (a # NoSession /\ Forget(a)) \/ UNCHANGED registryVars
    BY <1>1 DEF ReserveTask
  <2> QED BY <2>1, <2>2, ForgetType, RegistrySame
<1>2. ASSUME NEW r \in Requests, NEW s \in Sessions, Register(r, s) PROVE RegistryTypeOK'
  <2>1. requests[r].for \in Tasks \cup Connections \cup {NoTarget}
    BY DEF TypeOK, Request
  <2> QED BY <1>2, <2>1 DEF Register, Arm, TypeOK, RegistryTypeOK
<1>3. ASSUME NEW s \in Sessions, Delete(s) PROVE RegistryTypeOK'
  BY <1>3, ForgetType DEF Delete
<1>4. ASSUME NEW x \in fired, TimerRun(x) PROVE RegistryTypeOK'
  <2>1. x[1] \in Sessions
    BY DEF TypeOK
  <2> QED BY <1>4, <2>1, ForgetType, RegistrySame DEF TimerRun
<1>5. ASSUME NEW s \in Sessions, NEW n \in notices[s], Report(s, n) PROVE RegistryTypeOK'
  <2>1. n.count \in Nat
    BY DEF TypeOK, ManagerTypeOK, Notice
  <2> QED BY <1>5, <2>1, HeardType, RegistrySame DEF Report
<1>6. CASE \/ UNCHANGED vars
           \/ \E r \in Requests :
                \/ \E for \in Tasks \cup Connections : Post(r, for)
                \/ GiveUp(r) \/ RemoveExited(r) \/ ReserveHost(r) \/ CreateFail(r)
                \/ AddAttach(r) \/ WatchAttach(r) \/ Answer(r)
           \/ \E s \in Sessions : Fire(s) \/ RemoveDoomed(s) \/ SessionStep(s)
           \/ \E k \in Sockets : Close(k) \/ \E s \in Sessions : Open(k, s)
  <2>1. UNCHANGED registryVars
    BY <1>6 DEF vars, Post, GiveUp, RemoveExited, ReserveHost, CreateFail, AddAttach,
                WatchAttach, Answer, Fire, RemoveDoomed, SessionStep, Close, Open
  <2> QED BY <2>1, RegistrySame
<1> QED BY <1>1, <1>2, <1>3, <1>4, <1>5, <1>6, ActionCases

LEMMA OthersTypeStep ==
  ASSUME TypeOK, [Next]_vars
  PROVE  /\ fired' \in SUBSET (Sessions \X Nat)
         /\ doomed' \in SUBSET Sessions
         /\ socket' \in [Sockets -> Sessions \cup {NoSession}]
<1>1. ASSUME NEW s \in Sessions, Fire(s)
      PROVE  fired' \in SUBSET (Sessions \X Nat) /\ doomed' = doomed /\ socket' = socket
  BY <1>1 DEF Fire, TypeOK
<1>2. ASSUME NEW x \in fired, TimerRun(x)
      PROVE  fired' \subseteq fired /\ doomed' \in SUBSET Sessions /\ socket' = socket
  BY <1>2 DEF TimerRun, TypeOK
<1>3. ASSUME NEW s \in Sessions, Delete(s) \/ RemoveDoomed(s)
      PROVE  fired' = fired /\ doomed' \in SUBSET Sessions /\ socket' = socket
  BY <1>3 DEF Delete, RemoveDoomed, TypeOK
<1>4. ASSUME NEW k \in Sockets, Close(k) \/ \E s \in Sessions : Open(k, s)
      PROVE  fired' = fired /\ doomed' = doomed /\ socket' \in [Sockets -> Sessions \cup {NoSession}]
  BY <1>4 DEF Close, Open, TypeOK
<1>5. CASE \/ UNCHANGED vars
           \/ \E r \in Requests :
                \/ \E for \in Tasks \cup Connections : Post(r, for)
                \/ ReserveTask(r) \/ GiveUp(r) \/ RemoveExited(r) \/ ReserveHost(r)
                \/ CreateFail(r) \/ AddAttach(r) \/ WatchAttach(r) \/ Answer(r)
                \/ \E s \in Sessions : Register(r, s)
           \/ \E s \in Sessions : SessionStep(s) \/ \E n \in notices[s] : Report(s, n)
  <2>1. fired' = fired /\ doomed' = doomed /\ socket' = socket
    BY <1>5 DEF vars, Post, ReserveTask, GiveUp, RemoveExited, ReserveHost, CreateFail, AddAttach,
                WatchAttach, Answer, Register, SessionStep, Report
  <2> QED BY <2>1 DEF TypeOK
<1> QED BY <1>1, <1>2, <1>3, <1>4, <1>5, ActionCases DEF TypeOK

(***************************************************************************)
(* The theorems.                                                           *)
(***************************************************************************)
LEMMA BoardInvInit == Init => ManagerInv /\ BoardInv
<1> SUFFICES ASSUME Init PROVE ManagerInv /\ BoardInv
  OBVIOUS
<1>1. ManagerInv
  BY ManagerInvInit DEF Init
<1>2. \A r \in Requests : ~Holding(r) /\ At(r, "idle")
  BY DEF Init, Holding, At
<1>3. TypeOK
  <2>1. [at |-> "idle", for |-> NoTarget, session |-> NoSession] \in Request
    BY DEF Request
  <2> QED BY <1>1, <2>1 DEF Init, TypeOK, ManagerInv
<1>4. OpeningCounted
  <2>1. \A c \in Connections : Holders(c) = {}
    BY <1>2 DEF Holders
  <2> QED BY <2>1, FS_EmptySet DEF Init, OpeningCounted
<1>5. SessionsExist /\ OneCreator
  BY <1>2 DEF SessionsExist, OneCreator, Holding, At
<1>6. Fresh /\ RegistryConsistent /\ TimersCurrent
  BY DEF Init, ManagerInit, Fresh, RegistryConsistent, TimersCurrent
<1> QED BY <1>1, <1>3, <1>4, <1>5, <1>6 DEF BoardInv

LEMMA BoardInvStep ==
  ASSUME ManagerInv, BoardInv, [Next]_vars PROVE ManagerInv' /\ BoardInv'
<1> USE DEF BoardInv
<1>1. ManagerInv'
  BY ManagerStep, ManagerInvStep
<1>2. ManagerTypeOK'
  BY <1>1 DEF ManagerInv
<1>3. OpeningCounted' /\ opening' \in [Connections -> Nat]
  BY OpeningStep
<1>4. TypeOK'
  BY <1>2, <1>3, RequestsStep, RegistryTypeStep, OthersTypeStep DEF TypeOK, RegistryTypeOK
<1>5. SessionsExist' /\ OneCreator' /\ Fresh' /\ RegistryConsistent' /\ TimersCurrent'
  BY SessionsExistStep, OneCreatorStep, FreshStep, RegistryStep, TimersStep
<1> QED BY <1>1, <1>3, <1>4, <1>5

LEMMA BoardInvAlways == Spec => [](ManagerInv /\ BoardInv)
BY BoardInvInit, BoardInvStep, PTL DEF Spec

\* Every variable keeps to its type; in particular no reservation of a
\* connection is given back twice.
THEOREM BoardTypeCorrect == Spec => []TypeOK
<1>1. BoardInv => TypeOK
  BY DEF BoardInv
<1> QED BY <1>1, BoardInvAlways, PTL

\* The attaches use the session manager by its operations only, so that what
\* holds of it holds of them.
THEOREM ManagerImplemented == Spec => ManagerSpec
<1>1. Init => ManagerInit
  BY DEF Init
<1>2. BoardInv /\ [Next]_vars => [ManagerNext]_managerVars
  BY ManagerStep DEF BoardInv
<1> QED BY <1>1, <1>2, BoardInvAlways, PTL DEF Spec, ManagerSpec

\* boardAttachSubscribers hears the current number of readers, in the end.
THEOREM LastHeardIsCurrentCorrect == Spec => []LastHeardIsCurrent
BY ManagerImplemented, WatchKeepsItsPromise, PTL

\* A task never has two registered attaches, and both maps name the same ones.
THEOREM RegistryConsistentCorrect == Spec => []RegistryConsistent
<1>1. BoardInv => RegistryConsistent
  BY DEF BoardInv
<1> QED BY <1>1, BoardInvAlways, PTL

\* A grace timer, however late it gets the mutex, never ends a terminal whose
\* watcher last heard that somebody reads it.
THEOREM TimerEndsUnreadCorrect == Spec => TimerEndsUnread
<1> DEFINE A == \A x \in fired :
                  (TimerRun(x) /\ x[1] \in bySession /\ x[1] \notin bySession') => heard[x[1]] = 0
<1>1. ASSUME BoardInv, NEW x \in fired, TimerRun(x), x[1] \in bySession, x[1] \notin bySession'
      PROVE  heard[x[1]] = 0
  <2>1. generation[x[1]] = x[2]
    BY <1>1 DEF TimerRun, registryVars
  <2>2. x[1] \in timer
    BY <1>1, <2>1 DEF BoardInv, TimersCurrent
  <2> QED BY <1>1, <2>2 DEF BoardInv, TimersCurrent
<1>2. BoardInv /\ [Next]_vars => [A]_vars
  BY <1>1
<1> HIDE DEF A
<1>3. Spec => [][A]_vars
  BY <1>2, BoardInvAlways, PTL DEF Spec
<1> QED BY <1>3 DEF TimerEndsUnread, A

(***************************************************************************)
(* What bounds the terminals: their readers and the cap.                   *)
(***************************************************************************)
\* The watcher has heard that nobody reads exactly the terminals whose timer
\* is set; it has heard nothing of one that nobody ever read.
TimersFollow ==
  /\ timer \subseteq bySession /\ \A s \in bySession \ timer : heard[s] # 0
  /\ \A s \in Sessions : changes[s] = 0 => subs[s] = {} /\ heard[s] = 0

\* A request that has its session, and has not given back its reservation.
HasSession(r) == requests[r].at \in {"adding", "watching", "releasing"}
Has(r, s) == HasSession(r) /\ requests[r].session = s

\* A terminal is its request's alone until it is answered; it is not taken out
\* of the registry before it is added to the manager.
HostSessions ==
  /\ \A r \in Requests : HasSession(r) => target[requests[r].session] = requests[r].for
  /\ \A r, q \in Requests :
       /\ HasSession(r) \/ At(r, "answered")
       /\ HasSession(q) \/ At(q, "answered")
       /\ requests[r].session = requests[q].session
       /\ target[requests[r].session] \in Connections
       => r = q
  /\ \A r \in Requests : At(r, "adding") =>
       /\ target[requests[r].session] \in Connections => requests[r].session \in bySession
       /\ \A x \in fired : x[1] # requests[r].session

\* What fired is of a session that exists; a terminal the manager has is
\* registered, or about to be removed.
HostRegistry ==
  /\ \A x \in fired : state[x[1]] # "absent"
  /\ \A s \in managed : target[s] \in Connections => s \in bySession \/ s \in doomed
  /\ IsFiniteSet(bySession)

\* Terminals no request has a reservation for.
Settled(c) == {s \in bySession : target[s] = c /\ Usable(s) /\ \A r \in Requests : ~Has(r, s)}

CapKept == \A c \in Connections : opening[c] + Cardinality(Settled(c)) <= MaxHostTerminals

BoundsInv == TimersFollow /\ HostSessions /\ HostRegistry /\ CapKept

LEMMA SettledFinite ==
  ASSUME HostRegistry, NEW c \in Connections
  PROVE  IsFiniteSet(Settled(c)) /\ Cardinality(Settled(c)) \in Nat
<1>1. Settled(c) \subseteq bySession
  BY DEF Settled
<1> QED BY <1>1, FS_Subset, FS_CardinalityType DEF HostRegistry

LEMMA CapShrinks ==
  ASSUME TypeOK, HostRegistry, CapKept, NEW c \in Connections,
         opening'[c] = opening[c], Settled(c)' \subseteq Settled(c)
  PROVE  opening'[c] + Cardinality(Settled(c))' <= MaxHostTerminals
<1>1. /\ IsFiniteSet(Settled(c)) /\ Cardinality(Settled(c)) \in Nat
      /\ opening[c] + Cardinality(Settled(c)) <= MaxHostTerminals
  BY SettledFinite DEF CapKept
<1>2. Cardinality(Settled(c)') <= Cardinality(Settled(c)) /\ Cardinality(Settled(c)') \in Nat
  BY <1>1, FS_Subset, FS_CardinalityType
<1> QED BY <1>1, <1>2, BoardAttachAssumption DEF TypeOK

LEMMA CapSame ==
  ASSUME TypeOK, HostRegistry, CapKept, opening' = opening,
         bySession' \subseteq bySession, target' = target,
         \A s \in Sessions : Usable(s)' => Usable(s),
         \A r \in Requests, s \in Sessions : Has(r, s) => Has(r, s)'
  PROVE  CapKept'
<1>1. ASSUME NEW c \in Connections PROVE Settled(c)' \subseteq Settled(c)
  <2>1. bySession \subseteq Sessions
    BY DEF TypeOK
  <2> QED BY <2>1 DEF Settled
<1> QED BY <1>1, CapShrinks DEF CapKept

LEMMA UsableKept ==
  ASSUME TypeOK, NEW s \in Sessions,
         \/ CreateSession(s) /\ s \notin managed
         \/ EndSession(s) \/ Remove(s) \/ Watch(s) \/ EndOutput(s)
         \/ \E k \in Sockets : Subscribe(s, k) \/ Unsubscribe(s, k)
         \/ \E n \in notices[s] : Notify(s, n)
  PROVE  \A u \in Sessions : Usable(u)' => Usable(u)
BY DEF Usable, TypeOK, ManagerTypeOK, CreateSession, EndSession, Remove, Watch, EndOutput, Subscribe,
       Unsubscribe, Notify, sessionVars

\* What a session is usable after, whatever the step: what was, or what a
\* request has just added.
LEMMA CapStep ==
  ASSUME TypeOK, TypeOK', SessionsExist, Fresh, HostSessions, HostRegistry, CapKept, [Next]_vars
  PROVE  CapKept'
<1>0. /\ (UNCHANGED managerVars => \A s \in Sessions : Usable(s)' => Usable(s))
      /\ (requests' = requests => \A r \in Requests, s \in Sessions : Has(r, s) => Has(r, s)')
  BY DEF Usable, Has, HasSession, At, managerVars, sessionVars
<1>a. ASSUME NEW r \in Requests, RequestMoves(r), ~HasSession(r)
      PROVE  \A q \in Requests, s \in Sessions : Has(q, s) => Has(q, s)'
  BY <1>a DEF RequestMoves, Has, HasSession
<1>1. ASSUME NEW r \in Requests,
             \/ \E for \in Tasks \cup Connections : Post(r, for)
             \/ ReserveTask(r) \/ GiveUp(r)
      PROVE  CapKept'
  <2>1. /\ RequestMoves(r) /\ ~HasSession(r)
    BY <1>1, RequestStepEffect DEF HasSession, At
  <2>2. /\ opening' = opening /\ bySession' \subseteq bySession /\ target' = target
        /\ UNCHANGED managerVars
    BY <1>1 DEF Post, ReserveTask, GiveUp, Forget, registryVars
  <2> QED BY <1>0, <1>a, <2>1, <2>2, CapSame
<1>2. ASSUME NEW r \in Requests, RemoveExited(r) PROVE CapKept'
  <2>1. /\ RequestMoves(r) /\ ~HasSession(r) /\ requests[r].session \in Sessions
    BY <1>2, RequestStepEffect DEF HasSession, At, SessionsExist
  <2>2. \A s \in Sessions : Usable(s)' => Usable(s)
    BY <1>2, <2>1, UsableKept DEF RemoveExited
  <2>3. /\ opening' = opening /\ bySession' = bySession /\ target' = target
    BY <1>2 DEF RemoveExited, registryVars
  <2> QED BY <1>a, <2>1, <2>2, <2>3, CapSame
<1>3. ASSUME NEW r \in Requests, ReserveHost(r) PROVE CapKept'
  <2>0. PICK d \in Connections : d = requests[r].for
    BY <1>3 DEF ReserveHost
  <2>1. /\ RequestMoves(r) /\ ~HasSession(r) /\ UNCHANGED <<managerVars, registryVars>>
    BY <1>3, RequestStepEffect DEF HasSession, At, ReserveHost
  <2>2. \A c \in Connections : Settled(c)' \subseteq Settled(c)
    <3>1. \A q \in Requests, s \in Sessions : Has(q, s) => Has(q, s)'
      BY <1>a, <2>1
    <3>2. bySession' = bySession /\ target' = target /\ bySession \subseteq Sessions
          /\ \A s \in Sessions : Usable(s)' => Usable(s)
      BY <1>0, <2>1 DEF registryVars, TypeOK
    <3> QED BY <3>1, <3>2 DEF Settled
  <2>3. CASE opening' = opening
    BY <2>2, <2>3, CapShrinks DEF CapKept
  <2>4. CASE Terminals(d) < MaxHostTerminals /\ opening' = Counted(d)
    <3> DEFINE All == {s \in bySession : target[s] = d /\ Usable(s)}
    <3>1. \A c \in Connections : opening'[c] = IF c = d THEN opening[c] + 1 ELSE opening[c]
      BY <2>4 DEF Counted, TypeOK
    <3>2. IsFiniteSet(All) /\ Cardinality(All) \in Nat
      BY FS_Subset, FS_CardinalityType DEF HostRegistry
    <3>3. Settled(d)' \subseteq All
      <4>1. Settled(d)' \subseteq Settled(d)
        BY <2>1, <2>2
      <4>2. Settled(d) \subseteq All
        BY DEF Settled
      <4> QED BY <4>1, <4>2
    <3>4. Cardinality(Settled(d)') <= Cardinality(All) /\ Cardinality(Settled(d)') \in Nat
      BY <3>2, <3>3, FS_Subset, FS_CardinalityType
    <3>5. opening[d] + Cardinality(All) < MaxHostTerminals /\ opening[d] \in Nat
      BY <2>1, <2>4 DEF Terminals, TypeOK
    <3>6. opening'[d] + Cardinality(Settled(d))' <= MaxHostTerminals
      <4> HIDE DEF All
      <4> QED BY <3>1, <3>2, <3>4, <3>5, BoardAttachAssumption
    <3>7. ASSUME NEW c \in Connections, c # d
          PROVE  opening'[c] + Cardinality(Settled(c))' <= MaxHostTerminals
      BY <2>2, <3>1, <3>7, CapShrinks
    <3>8. \A c \in Connections : opening'[c] + Cardinality(Settled(c))' <= MaxHostTerminals
      BY <3>6, <3>7
    <3> QED BY <3>8 DEF CapKept
  <2>5. opening' = opening \/ (Terminals(d) < MaxHostTerminals /\ opening' = Counted(d))
    <3>1. Terminals(d) \in Nat
      <4>1. IsFiniteSet({s \in bySession : target[s] = d /\ Usable(s)})
        BY FS_Subset DEF HostRegistry
      <4> QED BY <2>1, <4>1, FS_CardinalityType DEF Terminals, TypeOK
    <3> QED BY <1>3, <2>0, <3>1, BoardAttachAssumption DEF ReserveHost
  <2> QED BY <2>3, <2>4, <2>5
<1>4. ASSUME NEW r \in Requests, CreateFail(r) \/ Answer(r) PROVE CapKept'
  <2> DEFINE d == requests[r].for
  <2>1. /\ RequestMoves(r) /\ Release(d) /\ UNCHANGED <<managerVars, registryVars>>
    BY <1>4, RequestStepEffect DEF CreateFail, Answer
  <2>2. bySession' = bySession /\ target' = target /\ bySession \subseteq Sessions
        /\ \A s \in Sessions : Usable(s)' => Usable(s)
    BY <1>0, <2>1 DEF registryVars, TypeOK
  <2>3. \A c \in Connections :
          opening'[c] = (IF c = d THEN opening[c] - 1 ELSE opening[c]) /\ opening'[c] \in Nat
    BY <2>1 DEF Release, TypeOK
  <2>4. ASSUME NEW c \in Connections PROVE Settled(c)' \subseteq Settled(c) \cup {requests[r].session}
    BY <2>1, <2>2 DEF Settled, RequestMoves, Has, HasSession
  <2>5. ASSUME NEW c \in Connections, c # d PROVE Settled(c)' \subseteq Settled(c)
    <3>1. CASE HasSession(r)
      <4>1. target[requests[r].session] = d
        BY <3>1 DEF HostSessions
      <4>2. requests[r].session \notin Settled(c)'
        BY <2>2, <2>5, <4>1 DEF Settled
      <4> QED BY <2>4, <4>2
    <3>2. CASE ~HasSession(r)
      BY <1>a, <2>1, <2>2, <3>2 DEF Settled
    <3> QED BY <3>1, <3>2
  <2>6. ASSUME NEW c \in Connections, c = d
        PROVE  opening'[c] + Cardinality(Settled(c))' <= MaxHostTerminals
    <3>1. /\ IsFiniteSet(Settled(c)) /\ Cardinality(Settled(c)) \in Nat
          /\ opening[c] + Cardinality(Settled(c)) <= MaxHostTerminals
      BY SettledFinite DEF CapKept
    <3>2. /\ IsFiniteSet(Settled(c) \cup {requests[r].session})
          /\ Cardinality(Settled(c) \cup {requests[r].session}) <= Cardinality(Settled(c)) + 1
      <4>1. ASSUME NEW S, IsFiniteSet(S), Cardinality(S) \in Nat, NEW x
            PROVE  IsFiniteSet(S \cup {x}) /\ Cardinality(S \cup {x}) <= Cardinality(S) + 1
        <5>1. IsFiniteSet(S \cup {x}) /\ Cardinality(S \cup {x}) = IF x \in S THEN Cardinality(S) ELSE Cardinality(S) + 1
          BY <4>1, FS_AddElement, Zenon
        <5> QED BY <4>1, <5>1
      <4> QED BY <3>1, <4>1
    <3>3. /\ Cardinality(Settled(c)') <= Cardinality(Settled(c) \cup {requests[r].session})
          /\ Cardinality(Settled(c)') \in Nat
      BY <2>4, <3>2, FS_Subset, FS_CardinalityType
    <3>4. Cardinality(Settled(c) \cup {requests[r].session}) \in Nat
      BY <3>2, FS_CardinalityType
    <3> QED BY <2>3, <2>6, <3>1, <3>2, <3>3, <3>4, BoardAttachAssumption DEF TypeOK
  <2> QED BY <2>3, <2>5, <2>6, CapShrinks DEF CapKept
<1>5. ASSUME NEW r \in Requests, NEW s \in Sessions, Register(r, s) PROVE CapKept'
  <2>1. /\ RequestMoves(r) /\ At(r, "creating") /\ Has(r, s)'
    BY <1>5, RequestStepEffect DEF Has, HasSession
  <2>2. /\ opening' = opening /\ bySession' = bySession \cup {s} /\ managed' = managed
        /\ \A u \in Sessions \ {s} : target'[u] = target[u] /\ state'[u] = state[u]
    BY <1>5 DEF Register, CreateSession, TypeOK, ManagerTypeOK
  <2>3. ASSUME NEW c \in Connections, NEW u \in Settled(c)' PROVE u \in Settled(c)
    <3>1. u # s /\ u \in bySession /\ u \in Sessions
      BY <2>1, <2>2 DEF Settled, TypeOK
    <3>2. \A q \in Requests : ~Has(q, u)
      BY <2>1, <2>3 DEF Settled, Has, HasSession, At, RequestMoves
    <3> QED BY <2>2, <2>3, <3>1, <3>2 DEF Settled, Usable
  <2> QED BY <2>2, <2>3, CapShrinks DEF CapKept
<1>6. ASSUME NEW r \in Requests, AddAttach(r) PROVE CapKept'
  <2> DEFINE s == requests[r].session
  <2>1. /\ RequestMoves(r) /\ Has(r, s) /\ Has(r, s)' /\ s \in Sessions
        /\ requests'[r].session = requests[r].session
    BY <1>6, RequestStepEffect DEF Has, HasSession, At, SessionsExist
  <2>2. /\ opening' = opening /\ bySession' = bySession /\ managed' = managed \cup {s}
        /\ target' = target /\ state' = state
    BY <1>6 DEF AddAttach, Add, registryVars
  <2>3. ASSUME NEW c \in Connections, NEW u \in Settled(c)' PROVE u \in Settled(c)
    <3>1. u # s
      BY <2>1, <2>3 DEF Settled
    <3>2. \A q \in Requests : ~Has(q, u)
      BY <2>1, <2>3, <3>1 DEF Settled, Has, HasSession, At, RequestMoves
    <3> QED BY <2>2, <2>3, <3>1, <3>2 DEF Settled, Usable
  <2> QED BY <2>2, <2>3, CapShrinks DEF CapKept
<1>7. ASSUME NEW r \in Requests, WatchAttach(r) PROVE CapKept'
  <2>1. /\ RequestMoves(r) /\ HasSession(r)' /\ requests[r].session \in Sessions
        /\ requests'[r].session = requests[r].session
    BY <1>7, RequestStepEffect DEF HasSession, At, SessionsExist
  <2>2. \A s \in Sessions : Usable(s)' => Usable(s)
    BY <1>7, <2>1, UsableKept DEF WatchAttach
  <2>3. /\ opening' = opening /\ bySession' = bySession /\ target' = target
    BY <1>7 DEF WatchAttach, registryVars
  <2>4. \A q \in Requests, s \in Sessions : Has(q, s) => Has(q, s)'
    BY <2>1 DEF RequestMoves, Has, HasSession
  <2> QED BY <2>2, <2>3, <2>4, CapSame
<1>8. ASSUME NEW s \in Sessions,
             \/ RemoveDoomed(s) \/ SessionStep(s)
             \/ \E n \in notices[s] : Report(s, n)
      PROVE  CapKept'
  <2>1. \A u \in Sessions : Usable(u)' => Usable(u)
    BY <1>8, UsableKept DEF RemoveDoomed, SessionStep, Report
  <2>2. /\ opening' = opening /\ bySession' = bySession /\ target' = target /\ requests' = requests
    BY <1>8 DEF RemoveDoomed, SessionStep, Report, Heard, registryVars, requestVars
  <2> QED BY <1>0, <2>1, <2>2, CapSame
<1>9. CASE \/ UNCHANGED vars
           \/ \E s \in Sessions : Delete(s) \/ Fire(s)
           \/ \E x \in fired : TimerRun(x)
  <2>1. /\ opening' = opening /\ bySession' \subseteq bySession /\ target' = target
        /\ requests' = requests /\ UNCHANGED managerVars
    BY <1>9 DEF vars, Delete, Fire, TimerRun, Forget, registryVars, requestVars
  <2> QED BY <1>0, <2>1, CapSame
<1>10. ASSUME NEW k \in Sockets, Close(k) \/ \E s \in Sessions : Open(k, s) PROVE CapKept'
  <2>1. \A u \in Sessions : Usable(u)' => Usable(u)
    BY <1>10, UsableKept DEF Close, Open, TypeOK
  <2>2. /\ opening' = opening /\ bySession' = bySession /\ target' = target /\ requests' = requests
    BY <1>10 DEF Close, Open, registryVars, requestVars
  <2> QED BY <1>0, <2>1, <2>2, CapSame
<1> QED BY <1>1, <1>2, <1>3, <1>4, <1>5, <1>6, <1>7, <1>8, <1>9, <1>10, ActionCases

LEMMA RegistryHostsKept ==
  ASSUME HostRegistry, managed' \subseteq managed, bySession' = bySession, doomed' = doomed,
         target' = target, fired' \subseteq fired,
         \A x \in fired : state[x[1]] # "absent" => state'[x[1]] # "absent"
  PROVE  HostRegistry'
BY DEF HostRegistry

\* What is forgotten was a task's, or is about to be removed.
LEMMA ForgetHosts ==
  ASSUME TypeOK, HostRegistry, NEW s \in Sessions, Forget(s), managed' = managed, state' = state,
         fired' \subseteq fired, doomed \subseteq doomed',
         target[s] \in Connections => s \in doomed'
  PROVE  HostRegistry'
<1>1. bySession' = bySession \ {s} /\ target' = target
  BY DEF Forget
<1>2. IsFiniteSet(bySession')
  BY <1>1, FS_Subset DEF HostRegistry
<1> QED BY <1>1, <1>2 DEF HostRegistry

LEMMA HostRegistryStep ==
  ASSUME TypeOK, SessionsExist, Fresh, RegistryConsistent, TimersFollow, HostSessions, HostRegistry,
         [Next]_vars
  PROVE  HostRegistry'
<1>0. \A s \in Sessions : state[s] # "absent" => state'[s] # "absent"
  BY ManagerStep, ExistingStays DEF TypeOK
<1>a. \A x \in fired : state[x[1]] # "absent" => state'[x[1]] # "absent"
  BY <1>0 DEF TypeOK
<1>1. ASSUME NEW r \in Requests, ReserveTask(r) PROVE HostRegistry'
  <2> DEFINE a == byTask[requests[r].for]
  <2>1. a \in Sessions \cup {NoSession} /\ requests[r].for \in Tasks
    BY <1>1 DEF ReserveTask, TypeOK
  <2>2. /\ (a # NoSession /\ Forget(a)) \/ UNCHANGED registryVars
        /\ managed' = managed /\ state' = state /\ fired' = fired /\ doomed' = doomed
    BY <1>1 DEF ReserveTask, managerVars, sessionVars
  <2>3. a # NoSession => target[a] \notin Connections
    BY <2>1, BoardAttachAssumption DEF RegistryConsistent
  <2> QED BY <1>a, <2>1, <2>2, <2>3, ForgetHosts, RegistryHostsKept DEF registryVars
<1>2. ASSUME NEW r \in Requests, NEW s \in Sessions, Register(r, s) PROVE HostRegistry'
  <2>1. /\ bySession' = bySession \cup {s} /\ managed' = managed /\ fired' = fired /\ doomed' = doomed
        /\ \A u \in Sessions \ {s} : target'[u] = target[u]
    BY <1>2 DEF Register, CreateSession, TypeOK
  <2>2. IsFiniteSet(bySession')
    BY <2>1, FS_AddElement DEF HostRegistry
  <2>3. managed \subseteq Sessions
    BY DEF TypeOK, ManagerTypeOK
  <2> QED BY <1>a, <2>1, <2>2, <2>3 DEF HostRegistry
<1>3. ASSUME NEW r \in Requests, AddAttach(r) PROVE HostRegistry'
  <2>1. /\ bySession' = bySession /\ target' = target /\ fired' = fired /\ doomed' = doomed
        /\ managed' = managed \cup {requests[r].session} /\ At(r, "adding")
    BY <1>3 DEF AddAttach, Add, registryVars
  <2> QED BY <1>a, <2>1 DEF HostRegistry, HostSessions
<1>4. ASSUME NEW s \in Sessions, Delete(s) PROVE HostRegistry'
  BY <1>4, ForgetHosts DEF Delete, managerVars, sessionVars
<1>5. ASSUME NEW x \in fired, TimerRun(x) PROVE HostRegistry'
  <2>1. x[1] \in Sessions /\ managed' = managed /\ state' = state /\ fired' \subseteq fired
    BY <1>5 DEF TypeOK, TimerRun, managerVars, sessionVars
  <2>2. \/ Forget(x[1]) /\ doomed' = doomed \cup {x[1]}
        \/ UNCHANGED registryVars /\ doomed' = doomed
    BY <1>5 DEF TimerRun
  <2> QED BY <1>a, <2>1, <2>2, ForgetHosts, RegistryHostsKept DEF registryVars
<1>6. ASSUME NEW s \in Sessions, Fire(s) PROVE HostRegistry'
  <2>1. /\ fired' = fired \cup {<<s, generation[s]>>} /\ managed' = managed /\ state' = state
        /\ bySession' = bySession /\ target' = target /\ doomed' = doomed
    BY <1>6 DEF Fire, registryVars, managerVars, sessionVars
  <2>2. state[s] # "absent"
    BY <1>6 DEF Fire, TimersFollow, Fresh
  <2> QED BY <2>1, <2>2 DEF HostRegistry
<1>7. ASSUME NEW s \in Sessions, RemoveDoomed(s) PROVE HostRegistry'
  <2>1. /\ managed' = managed \ {s} /\ doomed' = doomed \ {s} /\ fired' = fired
        /\ bySession' = bySession /\ target' = target
    BY <1>7 DEF RemoveDoomed, Remove, registryVars
  <2> QED BY <1>a, <2>1 DEF HostRegistry
<1>8. CASE \/ UNCHANGED vars
           \/ \E r \in Requests :
                \/ \E for \in Tasks \cup Connections : Post(r, for)
                \/ GiveUp(r) \/ RemoveExited(r) \/ ReserveHost(r) \/ CreateFail(r)
                \/ WatchAttach(r) \/ Answer(r)
           \/ \E s \in Sessions : SessionStep(s) \/ \E n \in notices[s] : Report(s, n)
           \/ \E k \in Sockets : Close(k) \/ \E s \in Sessions : Open(k, s)
  <2>1. /\ bySession' = bySession /\ target' = target /\ fired' = fired /\ doomed' = doomed
    BY <1>8 DEF vars, Post, GiveUp, RemoveExited, ReserveHost, CreateFail, WatchAttach, Answer,
                SessionStep, Report, Heard, Close, Open, registryVars
  <2>2. managed' \subseteq managed
    BY <1>8 DEF vars, Post, GiveUp, RemoveExited, ReserveHost, CreateFail, WatchAttach, Answer,
                SessionStep, Report, Close, Open, Remove, Watch, EndSession, EndOutput, Notify,
                Subscribe, Unsubscribe, managerVars, sessionVars
  <2> QED BY <1>a, <2>1, <2>2, RegistryHostsKept
<1> QED BY <1>1, <1>2, <1>3, <1>4, <1>5, <1>6, <1>7, <1>8, ActionCases

\* Requests whose session and place stay, or that are done with it.
LEMMA HostSessionsKept ==
  ASSUME HostSessions, requests' = requests, target' = target,
         \A r \in Requests : (At(r, "adding") /\ target[requests[r].session] \in Connections
                              /\ requests[r].session \in bySession)
                                => requests[r].session \in bySession',
         \A r \in Requests : At(r, "adding") => \A x \in fired' : x[1] = requests[r].session => x \in fired
  PROVE  HostSessions'
BY DEF HostSessions, HasSession, At

\* A request that moves on with its session, or without one.
LEMMA HostSessionsMove ==
  ASSUME HostSessions, NEW r \in Requests, RequestMoves(r), target' = target,
         fired' = fired, ~At(r, "adding")',
         \/ ~HasSession(r)' /\ ~At(r, "answered")'
         \/ HasSession(r) /\ requests'[r].session = requests[r].session
            /\ (HasSession(r)' => requests'[r].for = requests[r].for)
         \/ At(r, "answered")' /\ target[requests'[r].session] \notin Connections,
         \A q \in Requests : (At(q, "adding") /\ target[requests[q].session] \in Connections
                              /\ requests[q].session \in bySession)
                                => requests[q].session \in bySession'
  PROVE  HostSessions'
<1>1. \A q \in Requests : q # r => requests'[q] = requests[q]
  BY DEF RequestMoves
<1>2. \A q \in Requests : HasSession(q)' => target'[requests'[q].session] = requests'[q].for
  BY <1>1 DEF HostSessions, HasSession, At
<1>3. \A q \in Requests : At(q, "adding")' =>
       /\ target'[requests'[q].session] \in Connections => requests'[q].session \in bySession'
       /\ \A x \in fired' : x[1] # requests'[q].session
  BY <1>1 DEF HostSessions, At
<1>4. ASSUME NEW p \in Requests, NEW q \in Requests,
             HasSession(p)' \/ At(p, "answered")', HasSession(q)' \/ At(q, "answered")',
             requests'[p].session = requests'[q].session, target'[requests'[p].session] \in Connections
      PROVE  p = q
  <2>1. HasSession(p) \/ At(p, "answered")
    BY <1>1, <1>4 DEF HasSession, At
  <2>2. HasSession(q) \/ At(q, "answered")
    BY <1>1, <1>4 DEF HasSession, At
  <2>3. requests[p].session = requests'[p].session /\ requests[q].session = requests'[q].session
    BY <1>1, <1>4
  <2> QED BY <1>4, <2>1, <2>2, <2>3 DEF HostSessions
<1> QED BY <1>2, <1>3, <1>4 DEF HostSessions

LEMMA HostSessionsStep ==
  ASSUME TypeOK, SessionsExist, Fresh, RegistryConsistent, HostSessions, HostRegistry, [Next]_vars
  PROVE  HostSessions'
<1>1. ASSUME NEW r \in Requests,
             \/ \E for \in Tasks \cup Connections : Post(r, for)
             \/ GiveUp(r) \/ RemoveExited(r) \/ ReserveHost(r) \/ CreateFail(r)
      PROVE  HostSessions'
  <2>1. RequestMoves(r) /\ ~HasSession(r)' /\ ~At(r, "answered")' /\ ~At(r, "adding")'
    BY <1>1, RequestStepEffect DEF HasSession, At
  <2>2. target' = target /\ fired' = fired /\ bySession' = bySession
    BY <1>1 DEF Post, GiveUp, RemoveExited, ReserveHost, CreateFail, registryVars
  <2> QED BY <2>1, <2>2, HostSessionsMove
<1>2. ASSUME NEW r \in Requests, ReserveTask(r) PROVE HostSessions'
  <2> DEFINE a == byTask[requests[r].for]
  <2>1. a \in Sessions \cup {NoSession} /\ requests[r].for \in Tasks
    BY <1>2 DEF ReserveTask, TypeOK
  <2>2. RequestMoves(r) /\ ~HasSession(r)' /\ ~At(r, "adding")'
    BY <1>2, RequestStepEffect DEF HasSession, At
  <2>3. (a # NoSession /\ Forget(a)) \/ UNCHANGED registryVars
    BY <1>2 DEF ReserveTask
  <2>4. a # NoSession => target[a] \notin Connections
    BY <2>1, BoardAttachAssumption DEF RegistryConsistent
  <2>5. At(r, "answered")' => a # NoSession /\ requests'[r].session = a
    <3>1. \/ a # NoSession /\ (Forward(r, "answered", a) \/ Forward(r, "removing", a))
          \/ Move(r, "creating")
      BY <1>2 DEF ReserveTask
    <3> QED BY <2>1, <3>1, ForwardEffect, MoveEffect DEF At
  <2>6. target' = target /\ fired' = fired /\ \A u \in bySession : u = a \/ u \in bySession'
    BY <1>2, <2>3 DEF ReserveTask, Forget, registryVars
  <2>7. \A q \in Requests : (At(q, "adding") /\ target[requests[q].session] \in Connections
                              /\ requests[q].session \in bySession)
                                => requests[q].session \in bySession'
    BY <2>3, <2>4, <2>6 DEF registryVars
  <2> HIDE DEF a
  <2> QED BY <2>2, <2>4, <2>5, <2>6, <2>7, HostSessionsMove
<1>3. ASSUME NEW r \in Requests, AddAttach(r) \/ WatchAttach(r) \/ Answer(r) PROVE HostSessions'
  <2>1. /\ RequestMoves(r) /\ HasSession(r) /\ requests'[r].session = requests[r].session
        /\ ~At(r, "adding")' /\ (HasSession(r)' => requests'[r].for = requests[r].for)
    BY <1>3, RequestStepEffect DEF HasSession, At
  <2>2. target' = target /\ fired' = fired /\ bySession' = bySession
    BY <1>3 DEF AddAttach, WatchAttach, Answer, registryVars
  <2> QED BY <2>1, <2>2, HostSessionsMove
<1>4. ASSUME NEW r \in Requests, NEW s \in Sessions, Register(r, s) PROVE HostSessions'
  <2>1. /\ RequestMoves(r) /\ requests'[r].session = s /\ requests'[r].for = requests[r].for
    BY <1>4, RequestStepEffect
  <2>2. /\ state[s] = "absent" /\ fired' = fired /\ bySession' = bySession \cup {s}
        /\ target' = [target EXCEPT ![s] = requests[r].for]
    BY <1>4 DEF Register, CreateSession
  <2>3. \A q \in Requests : q # r => requests'[q] = requests[q]
    BY <2>1 DEF RequestMoves
  <2>4. \A q \in Requests : HasSession(q) \/ At(q, "answered") =>
          requests[q].session # s /\ requests[q].session \in Sessions
    BY <2>2 DEF SessionsExist, HasSession, At
  <2>5. ASSUME NEW u \in Sessions PROVE target'[u] = IF u = s THEN requests[r].for ELSE target[u]
    BY <2>2 DEF TypeOK
  <2>6. \A x \in fired : x[1] # s
    BY <2>2 DEF HostRegistry
  <2>7. \A q \in Requests : HasSession(q)' => target'[requests'[q].session] = requests'[q].for
    BY <2>1, <2>3, <2>4, <2>5 DEF HostSessions, HasSession, At
  <2>8. \A q \in Requests : At(q, "adding")' =>
          /\ target'[requests'[q].session] \in Connections => requests'[q].session \in bySession'
          /\ \A x \in fired' : x[1] # requests'[q].session
    BY <2>1, <2>2, <2>3, <2>4, <2>5, <2>6 DEF HostSessions, HasSession, At
  <2>9. ASSUME NEW p \in Requests, NEW q \in Requests,
               HasSession(p)' \/ At(p, "answered")', HasSession(q)' \/ At(q, "answered")',
               requests'[p].session = requests'[q].session, target'[requests'[p].session] \in Connections
        PROVE  p = q
    <3>1. p # r => (HasSession(p) \/ At(p, "answered")) /\ requests'[p].session = requests[p].session
      BY <2>3, <2>9 DEF HasSession, At
    <3>2. q # r => (HasSession(q) \/ At(q, "answered")) /\ requests'[q].session = requests[q].session
      BY <2>3, <2>9 DEF HasSession, At
    <3>3. CASE p # r /\ q # r
      BY <2>4, <2>5, <2>9, <3>1, <3>2, <3>3 DEF HostSessions
    <3>4. CASE p = r \/ q = r
      BY <2>1, <2>4, <2>9, <3>1, <3>2, <3>4
    <3> QED BY <3>3, <3>4
  <2> QED BY <2>7, <2>8, <2>9 DEF HostSessions
<1>5. ASSUME NEW s \in Sessions, Delete(s) PROVE HostSessions'
  <2>1. /\ requests' = requests /\ target' = target /\ fired' = fired /\ bySession' = bySession \ {s}
        /\ \E q \in Requests : At(q, "answered") /\ requests[q].session = s
    BY <1>5 DEF Delete, Forget, Known, requestVars
  <2>2. \A r \in Requests : (At(r, "adding") /\ target[requests[r].session] \in Connections)
                              => requests[r].session # s
    BY <2>1 DEF HostSessions, HasSession, At
  <2> QED BY <2>1, <2>2, HostSessionsKept
<1>6. ASSUME NEW s \in Sessions, Fire(s) PROVE HostSessions'
  <2>1. /\ requests' = requests /\ target' = target /\ bySession' = bySession
        /\ fired' = fired \cup {<<s, generation[s]>>}
        /\ \A r \in Requests : At(r, "adding") => requests[r].session # s
    BY <1>6 DEF Fire, registryVars, requestVars
  <2> QED BY <2>1, HostSessionsKept
<1>7. ASSUME NEW x \in fired, TimerRun(x) PROVE HostSessions'
  <2>1. /\ requests' = requests /\ target' = target /\ fired' \subseteq fired
        /\ \A u \in bySession : u = x[1] \/ u \in bySession'
    BY <1>7 DEF TimerRun, Forget, registryVars, requestVars
  <2>2. \A r \in Requests : At(r, "adding") => requests[r].session # x[1]
    BY DEF HostSessions
  <2> QED BY <2>1, <2>2, HostSessionsKept
<1>8. CASE \/ UNCHANGED vars
           \/ \E s \in Sessions :
                \/ RemoveDoomed(s) \/ SessionStep(s) \/ \E n \in notices[s] : Report(s, n)
           \/ \E k \in Sockets : Close(k) \/ \E s \in Sessions : Open(k, s)
  <2>1. requests' = requests /\ target' = target /\ fired' = fired /\ bySession' = bySession
    BY <1>8 DEF vars, RemoveDoomed, SessionStep, Report, Heard, Close, Open, registryVars, requestVars
  <2> QED BY <2>1, HostSessionsKept
<1> QED BY <1>1, <1>2, <1>3, <1>4, <1>5, <1>6, <1>7, <1>8, ActionCases

LEMMA FollowKept ==
  ASSUME TimersFollow, bySession' = bySession, timer' = timer, heard' = heard,
         \A s \in Sessions : changes'[s] = 0 => changes[s] = 0 /\ subs'[s] = subs[s]
  PROVE  TimersFollow'
BY DEF TimersFollow

LEMMA FollowForgotten ==
  ASSUME TimersFollow, NEW s \in Sessions, Forget(s), UNCHANGED countVars PROVE TimersFollow'
BY DEF TimersFollow, Forget, countVars

\* A count that changes is numbered; the others stay.
LEMMA ChangesNumbered ==
  ASSUME TypeOK, NEW s \in Sessions,
         \/ CreateSession(s) \/ EndSession(s) \/ Add(s) \/ Remove(s) \/ Watch(s) \/ EndOutput(s)
         \/ \E k \in Sockets : Subscribe(s, k) \/ Unsubscribe(s, k)
  PROVE  \A u \in Sessions : changes'[u] = 0 => changes[u] = 0 /\ subs'[u] = subs[u]
<1>1. CASE changes' = changes /\ subs' = subs
  BY <1>1
<1>2. CASE \E now : CountChanged(s, now)
  <2>1. /\ subs' = [u \in Sessions |-> IF u = s THEN subs'[s] ELSE subs[u]]
        /\ changes' = [changes EXCEPT ![s] = changes[s] + 1]
    BY <1>2 DEF CountChanged, TypeOK, ManagerTypeOK
  <2>2. changes \in [Sessions -> Nat]
    BY DEF TypeOK, ManagerTypeOK
  <2> QED BY <2>1, <2>2
<1> QED BY <1>1, <1>2 DEF CreateSession, EndSession, Add, Remove, Watch, EndOutput, Subscribe,
           Unsubscribe, countVars

LEMMA TimersFollowStep ==
  ASSUME ManagerInv, TypeOK, SessionsExist, Fresh, TimersFollow, [Next]_vars PROVE TimersFollow'
<1>1. ASSUME NEW r \in Requests, ReserveTask(r) PROVE TimersFollow'
  <2>1. byTask[requests[r].for] \in Sessions \cup {NoSession}
    BY <1>1 DEF ReserveTask, TypeOK
  <2>2. \/ byTask[requests[r].for] # NoSession /\ Forget(byTask[requests[r].for])
        \/ UNCHANGED registryVars
    BY <1>1 DEF ReserveTask
  <2>3. UNCHANGED countVars
    BY <1>1 DEF ReserveTask, managerVars
  <2> QED BY <2>1, <2>2, <2>3, FollowForgotten, FollowKept DEF registryVars, countVars
<1>2. ASSUME NEW r \in Requests, NEW s \in Sessions, Register(r, s) PROVE TimersFollow'
  <2>1. /\ bySession' = bySession \cup {s} /\ timer' = timer \cup {s} /\ UNCHANGED countVars
    BY <1>2 DEF Register, Arm, CreateSession
  <2> QED BY <2>1 DEF TimersFollow, countVars
<1>3. ASSUME NEW s \in Sessions, Delete(s) PROVE TimersFollow'
  BY <1>3, FollowForgotten DEF Delete, managerVars
<1>4. ASSUME NEW x \in fired, TimerRun(x) PROVE TimersFollow'
  <2>1. x[1] \in Sessions /\ UNCHANGED countVars
    BY <1>4 DEF TypeOK, TimerRun, managerVars
  <2> QED BY <1>4, <2>1, FollowForgotten, FollowKept DEF TimerRun, registryVars, countVars
<1>5. ASSUME NEW s \in Sessions, NEW n \in notices[s], Report(s, n) PROVE TimersFollow'
  <2>1. /\ subs' = subs /\ changes' = changes /\ Notify(s, n)
    BY <1>5 DEF Report, Notify
  <2>2. n \in Notice /\ n.count \in Nat /\ n.change \in Nat /\ n.change <= changes[s] /\ changes[s] \in Nat
        /\ delivered[s] \in Nat
    BY DEF ManagerInv, ManagerTypeOK, CountOK, Notice
  <2>3. CASE Believes(s, n)
    <3>1. heard' = [heard EXCEPT ![s] = n.count] /\ Heard(s, n.count) /\ bySession' = bySession
      BY <1>5, <2>1, <2>3 DEF Report, Notify, Heard
    <3>2. changes[s] # 0
      BY <2>2, <2>3 DEF Believes
    <3>3. heard \in [Sessions -> Nat] /\ bySession \subseteq Sessions
      BY DEF ManagerInv, ManagerTypeOK, TypeOK
    <3>4. \A u \in Sessions : heard'[u] = IF u = s THEN n.count ELSE heard[u]
      BY <3>1, <3>3
    <3>5. timer' \subseteq bySession /\ \A u \in bySession \ timer' : heard'[u] # 0
      <4>1. CASE s \notin bySession
        BY <3>1, <3>3, <3>4, <4>1 DEF Heard, TimersFollow
      <4>2. CASE s \in bySession /\ n.count > 0 /\ s \in timer
        BY <2>2, <3>1, <3>3, <3>4, <4>2 DEF Heard, Stop, TimersFollow
      <4>3. CASE s \in bySession /\ n.count = 0 /\ s \notin timer
        BY <2>2, <3>1, <3>3, <3>4, <4>3 DEF Heard, Arm, TimersFollow
      <4>4. CASE s \in bySession /\ ~(n.count > 0 /\ s \in timer) /\ ~(n.count = 0 /\ s \notin timer)
        BY <2>2, <3>1, <3>3, <3>4, <4>4 DEF Heard, TimersFollow
      <4> QED BY <4>1, <4>2, <4>3, <4>4
    <3> QED BY <2>1, <3>1, <3>2, <3>4, <3>5 DEF TimersFollow
  <2>4. CASE ~Believes(s, n)
    BY <1>5, <2>1, <2>4, FollowKept DEF Report, Notify, registryVars
  <2> QED BY <2>3, <2>4
<1>6. CASE \/ UNCHANGED vars
           \/ \E r \in Requests :
                \/ \E for \in Tasks \cup Connections : Post(r, for)
                \/ GiveUp(r) \/ ReserveHost(r) \/ CreateFail(r) \/ Answer(r)
           \/ \E s \in Sessions : Fire(s)
  <2>1. UNCHANGED registryVars /\ UNCHANGED countVars
    BY <1>6 DEF vars, Post, GiveUp, ReserveHost, CreateFail, Answer, Fire, managerVars
  <2> QED BY <2>1, FollowKept DEF registryVars, countVars
<1>7. ASSUME NEW r \in Requests, RemoveExited(r) \/ AddAttach(r) \/ WatchAttach(r) PROVE TimersFollow'
  <2>1. requests[r].session \in Sessions
    BY <1>7 DEF RemoveExited, AddAttach, WatchAttach, SessionsExist, At
  <2>2. UNCHANGED registryVars /\ heard' = heard
    BY <1>7, <2>1, ManagerKeepsHeard DEF RemoveExited, AddAttach, WatchAttach
  <2>3. \A u \in Sessions : changes'[u] = 0 => changes[u] = 0 /\ subs'[u] = subs[u]
    BY <1>7, <2>1, ChangesNumbered DEF RemoveExited, AddAttach, WatchAttach
  <2> QED BY <2>2, <2>3, FollowKept DEF registryVars
<1>8. ASSUME NEW s \in Sessions, RemoveDoomed(s) \/ SessionStep(s) PROVE TimersFollow'
  <2>1. UNCHANGED registryVars /\ heard' = heard
    BY <1>8, ManagerKeepsHeard DEF RemoveDoomed, SessionStep
  <2>2. \A u \in Sessions : changes'[u] = 0 => changes[u] = 0 /\ subs'[u] = subs[u]
    BY <1>8, ChangesNumbered DEF RemoveDoomed, SessionStep
  <2> QED BY <2>1, <2>2, FollowKept DEF registryVars
<1>9. ASSUME NEW k \in Sockets, Close(k) \/ \E s \in Sessions : Open(k, s) PROVE TimersFollow'
  <2>1. UNCHANGED registryVars /\ heard' = heard
    BY <1>9, ManagerKeepsHeard DEF Close, Open, TypeOK
  <2>2. \A u \in Sessions : changes'[u] = 0 => changes[u] = 0 /\ subs'[u] = subs[u]
    BY <1>9, ChangesNumbered DEF Close, Open, TypeOK
  <2> QED BY <2>1, <2>2, FollowKept DEF registryVars
<1> QED BY <1>1, <1>2, <1>3, <1>4, <1>5, <1>6, <1>7, <1>8, <1>9, ActionCases

LEMMA BoundsInvInit == Init => BoundsInv
<1> SUFFICES ASSUME Init PROVE BoundsInv
  OBVIOUS
<1>1. \A r \in Requests : requests[r].at = "idle"
  BY DEF Init
<1>2. ASSUME NEW c \in Connections PROVE Cardinality(Settled(c)) = 0
  <2>1. Settled(c) = {}
    BY DEF Init, Settled
  <2> QED BY <2>1, FS_EmptySet
<1>3. \A c \in Connections : opening[c] = 0
  BY DEF Init
<1>4. CapKept
  BY <1>2, <1>3, BoardAttachAssumption DEF CapKept
<1>5. HostSessions
  BY <1>1 DEF HostSessions, HasSession, At
<1>6. HostRegistry /\ TimersFollow
  BY FS_EmptySet DEF Init, ManagerInit, HostRegistry, TimersFollow
<1> QED BY <1>4, <1>5, <1>6 DEF BoundsInv

LEMMA BoundsInvAlways == Spec => []BoundsInv
<1>1. ManagerInv /\ BoardInv /\ (ManagerInv /\ BoardInv)' /\ BoundsInv /\ [Next]_vars => BoundsInv'
  <2> SUFFICES ASSUME ManagerInv, BoardInv, BoardInv', BoundsInv, [Next]_vars PROVE BoundsInv'
    OBVIOUS
  <2> USE DEF BoardInv, BoundsInv
  <2>1. TimersFollow' /\ HostSessions' /\ HostRegistry'
    BY TimersFollowStep, HostSessionsStep, HostRegistryStep
  <2>2. CapKept'
    BY CapStep
  <2> QED BY <2>1, <2>2
<1> QED BY <1>1, BoundsInvInit, BoardInvAlways, PTL DEF Spec

\* A terminal the manager has and nobody is removing is registered; if no
\* request has a reservation for it, it is one of the settled ones.
LEMMA CapFollows ==
  ASSUME TypeOK, OpeningCounted, BoundsInv PROVE HostCap
<1> SUFFICES ASSUME NEW c \in Connections
             PROVE  /\ opening[c] = Cardinality({r \in Requests : requests[r].for = c /\ Holding(r)})
                    /\ Cardinality({s \in Sessions : /\ target[s] = c /\ state[s] = "connected"
                                                     /\ s \in managed /\ s \notin doomed})
                         <= MaxHostTerminals
  BY DEF HostCap
<1> DEFINE open == {s \in Sessions : /\ target[s] = c /\ state[s] = "connected"
                                     /\ s \in managed /\ s \notin doomed}
           given == {requests[r].session : r \in Holders(c)}
<1>1. open \subseteq Settled(c) \cup given
  <2> SUFFICES ASSUME NEW s \in open, s \notin Settled(c) PROVE s \in given
    OBVIOUS
  <2>1. s \in bySession
    BY DEF BoundsInv, HostRegistry
  <2>2. PICK r \in Requests : Has(r, s)
    BY <2>1 DEF Settled, Usable
  <2>3. requests[r].for = c /\ Holding(r)
    BY <2>2 DEF BoundsInv, HostSessions, Has, HasSession, Holding
  <2> QED BY <2>2, <2>3 DEF Holders, Has
<1>2. IsFiniteSet(Holders(c))
  BY FS_Subset, BoardAttachAssumption DEF Holders
<1>3. IsFiniteSet(given) /\ Cardinality(given) <= Cardinality(Holders(c))
  <2> DEFINE f == [r \in Holders(c) |-> requests[r].session]
  <2>1. f \in Surjection(Holders(c), given)
    BY DEF Surjection
  <2> HIDE DEF f, given
  <2> QED BY <1>2, <2>1, FS_Surjection
<1>4. IsFiniteSet(Settled(c)) /\ opening[c] + Cardinality(Settled(c)) <= MaxHostTerminals
  BY SettledFinite DEF BoundsInv, CapKept
<1>5. /\ IsFiniteSet(Settled(c) \cup given)
      /\ Cardinality(Settled(c) \cup given) <= Cardinality(Settled(c)) + Cardinality(given)
  <2> HIDE DEF given
  <2>1. /\ IsFiniteSet(Settled(c) \cup given)
        /\ Cardinality(Settled(c) \cup given)
             = Cardinality(Settled(c)) + Cardinality(given) - Cardinality(Settled(c) \cap given)
    BY <1>3, <1>4, FS_Union
  <2>2. IsFiniteSet(Settled(c) \cap given)
    BY <1>4, FS_Subset
  <2>3. /\ Cardinality(Settled(c) \cap given) \in Nat /\ Cardinality(Settled(c)) \in Nat
        /\ Cardinality(given) \in Nat
    BY <1>3, <1>4, <2>2, FS_CardinalityType
  <2> QED BY <2>1, <2>3
<1>6. Cardinality(open) <= Cardinality(Settled(c) \cup given)
  BY <1>1, <1>5, FS_Subset
<1>7. opening[c] = Cardinality(Holders(c))
  BY DEF OpeningCounted
<1>8. Cardinality(open) <= MaxHostTerminals
  <2>1. IsFiniteSet(open)
    BY <1>1, <1>5, FS_Subset
  <2> HIDE DEF open, given
  <2>2. /\ Cardinality(open) \in Nat /\ Cardinality(given) \in Nat /\ Cardinality(Settled(c)) \in Nat
        /\ Cardinality(Settled(c) \cup given) \in Nat /\ Cardinality(Holders(c)) \in Nat
    BY <1>2, <1>3, <1>4, <1>5, <2>1, FS_CardinalityType
  <2> QED BY <1>3, <1>4, <1>5, <1>6, <1>7, <2>2, BoardAttachAssumption
<1> QED BY <1>7, <1>8 DEF Holders

\* No connection ever has more host terminals than the cap, however requests,
\* DELETEs and timers interleave; and a terminal's grace period runs exactly
\* while nobody reads it, once the changes of their number are reported.
THEOREM AttachesBoundedCorrect == Spec => []AttachesBounded
<1>1. ManagerInv /\ BoardInv /\ BoundsInv => GraceFollowsReaders
  <2> SUFFICES ASSUME ManagerInv, BoardInv, BoundsInv, NEW s \in bySession,
                      notices[s] = {}, delivered[s] = changes[s]
               PROVE  s \in timer <=> subs[s] = {}
    BY DEF GraceFollowsReaders
  <2>1. /\ s \in Sessions /\ changes[s] \in Nat /\ subs[s] \in SUBSET Sockets
    BY DEF BoardInv, TypeOK, ManagerTypeOK
  <2>2. s \in timer <=> heard[s] = 0
    BY DEF BoardInv, TimersCurrent, BoundsInv, TimersFollow
  <2>3. IsFiniteSet(subs[s]) /\ (Cardinality(subs[s]) = 0 <=> subs[s] = {})
    BY <2>1, FS_Subset, FS_EmptySet, SessionManagerAssumption
  <2>4. CASE changes[s] = 0
    BY <2>1, <2>2, <2>4 DEF BoundsInv, TimersFollow
  <2>5. CASE changes[s] # 0
    <3>1. heard[s] = Cardinality(subs[s])
      BY <2>1, <2>5 DEF ManagerInv, CountOK
    <3> QED BY <2>2, <2>3, <3>1
  <2> QED BY <2>4, <2>5
<1>2. BoardInv /\ BoundsInv => HostCap
  BY CapFollows DEF BoardInv
<1>3. ManagerInv /\ BoardInv /\ BoundsInv => AttachesBounded
  BY <1>1, <1>2 DEF AttachesBounded
<1> QED BY <1>3, BoardInvAlways, BoundsInvAlways, PTL

=============================================================================
