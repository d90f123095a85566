-------------------------- MODULE SyncTriggerProofs --------------------------
(***************************************************************************)
(* Safety of SyncTrigger for any number of engine instances, any capacity of *)
(* the channel and any number of writes.                                    *)
(***************************************************************************)
EXTENDS SyncTrigger, TLAPS

Forced(e, i) == i \in 1..Len(queue[e]) /\ queue[e][i] = "force"

\* A forced sync is in one place at a time: in the channel, once, or with the loop,
\* which has then begun what it says it has.
OnePlace(e) ==
    /\ \A i \in Nat : Forced(e, i) => actor[e] = "reply" /\ ~held[e]
    /\ \A i, j \in Nat : Forced(e, i) /\ Forced(e, j) => i = j
    /\ held[e] => actor[e] = "reply" /\ loop[e] \in {"push", "pull", "answer"}
    /\ held[e] /\ loop[e] \in {"pull", "answer"} => "push" \in begun[e] /\ ~fresh[e]
    /\ held[e] /\ loop[e] = "answer" => "pull" \in begun[e]

\* The actor never waits for a reply that nobody is going to send.
ReplyComes(e) ==
    /\ actor[e] = "reply" => held[e] \/ \E i \in Nat : Forced(e, i)
    /\ loop[e] = "gone" => actor[e] = "gone"
    /\ loop[e] = "none" <=> actor[e] = "none"

Noticed(e) ==
    fresh[e] => actor[e] = "kick" \/ queue[e] # <<>> \/ loop[e] \in {"debounce", "push"}

TriggerInv ==
    /\ TriggerTypeOK
    /\ \A e \in Instances : OnePlace(e) /\ ReplyComes(e) /\ Noticed(e)

-----------------------------------------------------------------------------
LEMMA InitTriggerInv == Init => TriggerInv
<1> SUFFICES ASSUME Init PROVE TriggerInv
  OBVIOUS
<1>1. TriggerTypeOK
  BY TriggerAssumption
  DEF Init, TriggerTypeOK, ActorStates, LoopStates
<1>2. ASSUME NEW e \in Instances
      PROVE  OnePlace(e) /\ ReplyComes(e) /\ Noticed(e)
  BY <1>2 DEF Init, OnePlace, ReplyComes, Noticed, Forced
<1> QED
  BY <1>1, <1>2 DEF TriggerInv

\* What the channel's ends do to the places of forced syncs in it.
LEMMA Appending ==
    ASSUME NEW q \in Seq(Messages), NEW msg \in Messages
    PROVE  /\ Append(q, msg) \in Seq(Messages)
           /\ Append(q, msg) # <<>>
           /\ Len(Append(q, msg)) = Len(q) + 1
           /\ \A i \in 1..Len(q) : Append(q, msg)[i] = q[i]
           /\ Append(q, msg)[Len(q) + 1] = msg
  OBVIOUS

LEMMA Receiving ==
    ASSUME NEW q \in Seq(Messages), q # <<>>
    PROVE  /\ Tail(q) \in Seq(Messages)
           /\ Head(q) = q[1]
           /\ Len(Tail(q)) = Len(q) - 1
           /\ Len(q) \in Nat \ {0}
           /\ \A i \in 1..Len(Tail(q)) : Tail(q)[i] = q[i + 1]
  OBVIOUS

\* One step of instance d leaves the other instances alone.
Others(d) ==
    \A e \in Instances \ {d} :
        /\ actor'[e] = actor[e] /\ queue'[e] = queue[e] /\ loop'[e] = loop[e]
        /\ held'[e] = held[e] /\ fresh'[e] = fresh[e] /\ begun'[e] = begun[e]

Good(e) == OnePlace(e) /\ ReplyComes(e) /\ Noticed(e)
Local(d) == TriggerTypeOK' /\ Others(d) /\ Good(d)'

LEMMA OthersStayGood ==
    ASSUME NEW d \in Instances, Others(d), NEW e \in Instances \ {d}, Good(e)
    PROVE  Good(e)'
<1>1. actor'[e] = actor[e] /\ queue'[e] = queue[e] /\ loop'[e] = loop[e]
  BY DEF Others
<1>2. held'[e] = held[e] /\ fresh'[e] = fresh[e] /\ begun'[e] = begun[e]
  BY DEF Others
<1> QED
  BY <1>1, <1>2 DEF Good, OnePlace, ReplyComes, Noticed, Forced

-----------------------------------------------------------------------------
(***************************************************************************)
(* The actor's steps                                                        *)
(***************************************************************************)

LEMMA ActorLocal ==
    ASSUME TriggerTypeOK, NEW d \in Instances, Good(d),
           Open(d) \/ Commit(d) \/ ForceSync(d) \/ Shutdown(d)
    PROVE  Local(d)
<1> USE DEF TriggerTypeOK, ActorStates, LoopStates, Acts, Goes
<1>1. CASE Open(d)
  <2>1. TriggerTypeOK' /\ Others(d)
    BY <1>1 DEF Open, Others
  <2>2. Good(d)'
    BY <1>1 DEF Open, Good, OnePlace, ReplyComes, Noticed, Forced
  <2> QED
    BY <2>1, <2>2 DEF Local
<1>2. CASE Commit(d)
  <2>1. TriggerTypeOK' /\ Others(d)
    <3>1. writes'[d] \in 0..MaxWrites
      BY <1>2, TriggerAssumption DEF Commit
    <3> QED
      BY <1>2, <3>1 DEF Commit, Others
  <2>2. Good(d)'
    BY <1>2 DEF Commit, Good, OnePlace, ReplyComes, Noticed, Forced
  <2> QED
    BY <2>1, <2>2 DEF Local
<1>3. CASE ForceSync(d)
  <2>1. TriggerTypeOK' /\ Others(d)
    BY <1>3 DEF ForceSync, Others
  <2>2. Good(d)'
    BY <1>3 DEF ForceSync, Good, OnePlace, ReplyComes, Noticed, Forced
  <2> QED
    BY <2>1, <2>2 DEF Local
<1>4. CASE Shutdown(d)
  <2>1. TriggerTypeOK' /\ Others(d)
    BY <1>4 DEF Shutdown, Others
  <2>2. Good(d)'
    BY <1>4 DEF Shutdown, Good, OnePlace, ReplyComes, Noticed, Forced
  <2> QED
    BY <2>1, <2>2 DEF Local
<1> QED
  BY <1>1, <1>2, <1>3, <1>4

\* A message put into the channel is at its end.
LEMMA SendsPlaces ==
    ASSUME TriggerTypeOK, NEW d \in Instances, NEW msg \in Messages, HasRoom(d), Sends(d, msg)
    PROVE  /\ queue' \in [Instances -> Seq(Messages)]
           /\ \A e \in Instances : Len(queue'[e]) <= QueueSize
           /\ \A e \in Instances \ {d} : queue'[e] = queue[e]
           /\ queue'[d] # <<>>
           /\ \A i \in Nat : Forced(d, i)' <=>
                Forced(d, i) \/ (msg = "force" /\ i = Len(queue[d]) + 1)
<1>1. queue[d] \in Seq(Messages) /\ Len(queue[d]) \in Nat
  BY DEF TriggerTypeOK
<1>2. queue'[d] = Append(queue[d], msg)
  BY DEF TriggerTypeOK, Sends
<1>3. \A i \in Nat : Forced(d, i)' <=>
                Forced(d, i) \/ (msg = "force" /\ i = Len(queue[d]) + 1)
  BY <1>1, <1>2, Appending DEF Forced
<1>4. \A e \in Instances : Len(queue'[e]) <= QueueSize
  BY <1>1, <1>2, Appending, TriggerAssumption DEF TriggerTypeOK, Sends, HasRoom
<1>5. queue' \in [Instances -> Seq(Messages)] /\ queue'[d] # <<>>
  BY <1>1, <1>2, Appending DEF TriggerTypeOK, Sends
<1> QED
  BY <1>3, <1>4, <1>5 DEF TriggerTypeOK, Sends

LEMMA SendingLocal ==
    ASSUME TriggerTypeOK, NEW d \in Instances, Good(d), Sending(d)
    PROVE  Local(d)
<1>1. CASE Kick(d) /\ HasRoom(d)
  <2>1. Sends(d, "kick") /\ "kick" \in Messages
    BY <1>1 DEF Kick, Messages
  <2>2. TriggerTypeOK' /\ Others(d)
    BY <1>1, <2>1, SendsPlaces DEF Kick, Others, TriggerTypeOK, ActorStates, Acts
  <2>3. Good(d)'
    <3>1. queue'[d] # <<>> /\ \A i \in Nat : Forced(d, i)' <=> Forced(d, i)
      BY <1>1, <2>1, SendsPlaces
    <3> QED
      BY <1>1, <3>1 DEF Kick, Good, OnePlace, ReplyComes, Noticed, TriggerTypeOK, Acts
  <2> QED
    BY <2>2, <2>3 DEF Local
<1>2. CASE Kick(d) /\ ~HasRoom(d)
  <2>1. queue' = queue
    BY <1>2 DEF Kick
  <2>2. TriggerTypeOK' /\ Others(d)
    BY <1>2, <2>1 DEF Kick, Others, TriggerTypeOK, ActorStates, Acts
  <2>3. queue[d] # <<>>
    BY <1>2, TriggerAssumption DEF HasRoom, TriggerTypeOK
  <2>4. Good(d)'
    BY <1>2, <2>1, <2>3 DEF Kick, Good, OnePlace, ReplyComes, Noticed, Forced, TriggerTypeOK, Acts
  <2> QED
    BY <2>2, <2>4 DEF Local
<1>3. CASE ForceSent(d)
  <2>1. HasRoom(d) /\ Sends(d, "force") /\ "force" \in Messages
    BY <1>3 DEF ForceSent, Messages
  <2>2. TriggerTypeOK' /\ Others(d)
    BY <1>3, <2>1, SendsPlaces DEF ForceSent, Others, TriggerTypeOK, ActorStates, Acts
  <2>3. Good(d)'
    <3> DEFINE last == Len(queue[d]) + 1
    <3>1. last \in Nat
      BY DEF TriggerTypeOK
    <3>2. queue'[d] # <<>> /\ \A i \in Nat : Forced(d, i)' <=> Forced(d, i) \/ i = last
      BY <2>1, SendsPlaces
    <3>3. actor[d] = "room" /\ actor'[d] = "reply"
      BY <1>3 DEF ForceSent, TriggerTypeOK, Acts
    <3>4. loop' = loop /\ held' = held /\ fresh' = fresh /\ begun' = begun
      BY <1>3 DEF ForceSent
    <3>5. ~held[d] /\ \A i \in Nat : ~Forced(d, i)
      BY <3>3 DEF Good, OnePlace
    <3> HIDE DEF last
    <3> QED
      BY <3>1, <3>2, <3>3, <3>4, <3>5 DEF Good, OnePlace, ReplyComes, Noticed
  <2> QED
    BY <2>2, <2>3 DEF Local
<1> QED
  BY <1>1, <1>2, <1>3 DEF Sending

-----------------------------------------------------------------------------
(***************************************************************************)
(* The loop's steps                                                         *)
(***************************************************************************)

\* A received message was at the head, and the others move up.
LEMMA ReceivesPlaces ==
    ASSUME TriggerTypeOK, NEW d \in Instances, NEW pc, NEW msg, Receives(d, pc, msg)
    PROVE  /\ queue' \in [Instances -> Seq(Messages)]
           /\ \A e \in Instances : Len(queue'[e]) <= QueueSize
           /\ \A e \in Instances \ {d} : queue'[e] = queue[e]
           /\ \A i \in Nat : Forced(d, i)' <=> i # 0 /\ Forced(d, i + 1)
           /\ Forced(d, 1) <=> msg = "force"
<1>1. queue[d] \in Seq(Messages) /\ queue[d] # <<>> /\ Head(queue[d]) = msg
  BY DEF TriggerTypeOK, Receives
<1>2. queue'[d] = Tail(queue[d])
  BY DEF TriggerTypeOK, Receives
<1>3. \A i \in Nat : Forced(d, i)' <=> i # 0 /\ Forced(d, i + 1)
  BY <1>1, <1>2, Receiving DEF Forced
<1>4. Forced(d, 1) <=> msg = "force"
  BY <1>1, Receiving DEF Forced
<1>5. \A e \in Instances : Len(queue'[e]) <= QueueSize
  BY <1>1, <1>2, Receiving, TriggerAssumption DEF TriggerTypeOK, Receives
<1>6. queue' \in [Instances -> Seq(Messages)]
  BY <1>1, <1>2, Receiving DEF TriggerTypeOK, Receives
<1> QED
  BY <1>3, <1>4, <1>5, <1>6 DEF TriggerTypeOK, Receives

\* A kick that is taken takes no forced sync along.
LEMMA KickTaken ==
    ASSUME TriggerTypeOK, NEW d \in Instances, Good(d), NEW pc, Receives(d, pc, "kick")
    PROVE  /\ \A i \in Nat : Forced(d, i)' => Forced(d, i + 1)
           /\ \A i \in Nat : Forced(d, i) => i - 1 \in Nat /\ Forced(d, i - 1)'
<1>1. ~Forced(d, 1)
  BY ReceivesPlaces
<1>2. \A i \in Nat : Forced(d, i) => i - 1 \in Nat /\ i - 1 # 0
  BY <1>1 DEF Forced
<1>3. \A i \in Nat : i - 1 \in Nat => (i - 1) + 1 = i
  OBVIOUS
<1> QED
  BY <1>2, <1>3, ReceivesPlaces

LEMMA ReceivingLocal ==
    ASSUME TriggerTypeOK, NEW d \in Instances, Good(d),
           TakeKick(d) \/ Coalesce(d) \/ TakeForce(d)
    PROVE  Local(d)
<1>1. CASE TakeKick(d)
  <2>1. Receives(d, "wait", "kick")
    BY <1>1 DEF TakeKick
  <2>2. TriggerTypeOK' /\ Others(d)
    BY <1>1, <2>1, ReceivesPlaces DEF TakeKick, Others, TriggerTypeOK, LoopStates, Goes
  <2>3. loop[d] = "wait" /\ loop'[d] = "debounce"
    BY <1>1, <2>1 DEF TakeKick, Receives, TriggerTypeOK, Goes
  <2>4. Good(d)'
    BY <1>1, <2>1, <2>3, KickTaken DEF TakeKick, Good, OnePlace, ReplyComes, Noticed
  <2> QED
    BY <2>2, <2>4 DEF Local
<1>2. CASE Coalesce(d)
  <2>1. Receives(d, "debounce", "kick")
    BY <1>2 DEF Coalesce
  <2>2. TriggerTypeOK' /\ Others(d)
    BY <1>2, <2>1, ReceivesPlaces DEF Coalesce, Others, TriggerTypeOK
  <2>3. loop[d] = "debounce"
    BY <2>1 DEF Receives
  <2>4. Good(d)'
    BY <1>2, <2>1, <2>3, KickTaken DEF Coalesce, Good, OnePlace, ReplyComes, Noticed
  <2> QED
    BY <2>2, <2>4 DEF Local
<1>3. CASE TakeForce(d)
  <2>1. PICK pc \in {"wait", "debounce"} : Receives(d, pc, "force")
    BY <1>3 DEF TakeForce
  <2>2. TriggerTypeOK' /\ Others(d)
    BY <1>3, <2>1, ReceivesPlaces DEF TakeForce, Others, TriggerTypeOK, LoopStates, Goes
  <2>3. loop'[d] = "push" /\ held'[d]
    BY <1>3 DEF TakeForce, TriggerTypeOK, Goes
  <2>4. Forced(d, 1) /\ actor[d] = "reply"
    BY <2>1, ReceivesPlaces DEF Good, OnePlace
  <2>5. \A i \in Nat : ~Forced(d, i)'
    BY <2>1, <2>4, ReceivesPlaces DEF Good, OnePlace
  <2>6. Good(d)'
    BY <1>3, <2>3, <2>4, <2>5 DEF TakeForce, Good, OnePlace, ReplyComes, Noticed
  <2> QED
    BY <2>2, <2>6 DEF Local
<1> QED
  BY <1>1, <1>2, <1>3

\* The steps of the loop that receive nothing.
LEMMA CycleLocal ==
    ASSUME TriggerTypeOK, NEW d \in Instances, Good(d),
           \/ EnsureTable(d) \/ DebounceEnds(d) \/ TimerFires(d)
           \/ BeginPush(d) \/ BeginPull(d) \/ Answer(d) \/ Close(d)
    PROVE  Local(d)
<1> USE DEF TriggerTypeOK, ActorStates, LoopStates, Acts, Goes
<1>1. CASE EnsureTable(d)
  BY <1>1 DEF EnsureTable, Local, Others, Good, OnePlace, ReplyComes, Noticed, Forced
<1>2. CASE DebounceEnds(d)
  BY <1>2 DEF DebounceEnds, Local, Others, Good, OnePlace, ReplyComes, Noticed, Forced
<1>3. CASE TimerFires(d)
  BY <1>3 DEF TimerFires, Local, Others, Good, OnePlace, ReplyComes, Noticed, Forced
<1>4. CASE BeginPush(d)
  BY <1>4 DEF BeginPush, Local, Others, Good, OnePlace, ReplyComes, Noticed, Forced
<1>5. CASE BeginPull(d)
  BY <1>5 DEF BeginPull, Local, Others, Good, OnePlace, ReplyComes, Noticed, Forced
<1>6. CASE Answer(d)
  <2>1. TriggerTypeOK' /\ Others(d)
    BY <1>6 DEF Answer, Others
  <2>2. Good(d)'
    BY <1>6 DEF Answer, Good, OnePlace, ReplyComes, Noticed, Forced
  <2> QED
    BY <2>1, <2>2 DEF Local
<1>7. CASE Close(d)
  BY <1>7 DEF Close, Local, Others, Good, OnePlace, ReplyComes, Noticed, Forced
<1> QED
  BY <1>1, <1>2, <1>3, <1>4, <1>5, <1>6, <1>7

-----------------------------------------------------------------------------
LEMMA StepTriggerInv == TriggerInv /\ [Next]_vars => TriggerInv'
<1> SUFFICES ASSUME TriggerInv, [Next]_vars PROVE TriggerInv'
  OBVIOUS
<1>1. TriggerTypeOK /\ \A e \in Instances : Good(e)
  BY DEF TriggerInv, Good
<1>2. ASSUME NEW d \in Instances, Actor(d) \/ Sending(d) \/ Running(d) \/ TimerFires(d)
      PROVE  TriggerInv'
  <2>1. Local(d)
    BY <1>1, <1>2, ActorLocal, SendingLocal, ReceivingLocal, CycleLocal DEF Actor, Running
  <2>2. \A e \in Instances : Good(e)'
    BY <1>1, <2>1, OthersStayGood DEF Local
  <2> QED
    BY <2>1, <2>2 DEF Local, Good, TriggerInv
<1>3. CASE UNCHANGED vars
  BY <1>1, <1>3
  DEF vars, TriggerInv, TriggerTypeOK, OnePlace, ReplyComes, Noticed, Forced, Good
<1> QED
  BY <1>2, <1>3 DEF Next

LEMMA TriggerInvariance == Spec => []TriggerInv
  BY InitTriggerInv, StepTriggerInv, PTL DEF Spec

\* Every variable of SyncTrigger keeps its type and the channel its capacity.
THEOREM TriggerTypeCorrect == Spec => []TriggerTypeOK
<1>1. TriggerInv => TriggerTypeOK
  BY DEF TriggerInv
<1> QED
  BY <1>1, TriggerInvariance, PTL

\* kick_sync may drop its message and never has to be repeated: a write that no push
\* phase has come after is known to the loop, however many instances there are.
THEOREM WritesAreNoticed == Spec => []NoWriteUnnoticed
<1>1. TriggerInv => NoWriteUnnoticed
  BY DEF TriggerInv, Noticed, NoWriteUnnoticed
<1> QED
  BY <1>1, TriggerInvariance, PTL

\* While the actor waits in force_sync_via its request is in the channel or held by
\* a loop that is alive: the safety part of "force_sync returns".
THEOREM ForceIsPending == Spec => [](\A e \in Instances : ReplyComes(e))
<1>1. TriggerInv => \A e \in Instances : ReplyComes(e)
  BY DEF TriggerInv
<1> QED
  BY <1>1, TriggerInvariance, PTL

\* Only the end of the cycle that took a forced sync answers it, after both phases.
LEMMA AnswersOnlyWhole ==
    ASSUME TriggerInv, Next, NEW e \in Instances, actor[e] = "reply", actor'[e] # "reply"
    PROVE  begun[e] = {"push", "pull"} /\ ~fresh[e]
<1>1. PICK d \in Instances : Actor(d) \/ Sending(d) \/ Running(d) \/ TimerFires(d)
  BY DEF Next
<1>2. Answer(e) /\ held[e]
  BY <1>1 DEF Actor, Sending, Running, Open, Commit, ForceSync, Shutdown, Kick, ForceSent,
    EnsureTable, TakeKick, Coalesce, DebounceEnds, TakeForce, BeginPush, BeginPull, Answer,
    Close, TimerFires, Acts, TriggerInv, TriggerTypeOK
<1>3. loop[e] = "answer"
  BY <1>2 DEF Answer
<1>4. "push" \in begun[e] /\ "pull" \in begun[e] /\ ~fresh[e]
  BY <1>2, <1>3 DEF TriggerInv, OnePlace
<1> QED
  BY <1>4 DEF TriggerInv, TriggerTypeOK

\* force_sync returns only after a push and a pull phase that began after the call,
\* and then every write of the engine has had its push phase.
THEOREM ForcedIsWholeCycle == Spec => ForcedIsWhole
<1>1. TriggerInv /\ [Next]_vars =>
        [\A e \in Instances :
            actor[e] = "reply" /\ actor'[e] # "reply" =>
                begun[e] = {"push", "pull"} /\ ~fresh[e]]_vars
  BY AnswersOnlyWhole
<1> QED
  BY <1>1, TriggerInvariance, PTL DEF Spec, ForcedIsWhole
=============================================================================
