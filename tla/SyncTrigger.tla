------------------------------ MODULE SyncTrigger ------------------------------
(***************************************************************************)
(* When a sync cycle runs.  The actor kicks the sync loop after every write  *)
(* and waits for it in force_sync; the loop takes both from one bounded      *)
(* channel, waits out a burst of kicks, and runs a cycle when it was asked   *)
(* to or when its timer ends.  What a cycle does to records is RecordSync;    *)
(* here it is its two phases.                                               *)
(*                                                                         *)
(* Instances are the engines opened one after the other on one database:      *)
(* shutdown stops an actor at once, its loop when it finds the channel        *)
(* closed, and by then the next engine may be running.                       *)
(***************************************************************************)
EXTENDS Naturals, Sequences

CONSTANTS
    Opens,          \* bound: how often the engine is opened
    QueueSize,      \* capacity of the trigger channel (8 in the code)
    MaxWrites       \* bound: writes of one instance

ASSUME TriggerAssumption ==
    /\ Opens \in Nat
    /\ QueueSize \in Nat \ {0}
    /\ MaxWrites \in Nat

VARIABLES
    actor,      \* what the actor of each instance is at
    queue,      \* its trigger channel
    loop,       \* where its sync loop is, and
    held,       \* whether that holds the reply of a forced sync
    writes,     \* writes so far, for the bound
    fresh,      \* history: a write has been committed since the last push phase began
    begun       \* history: phases begun since force_sync was called

vars == <<actor, queue, loop, held, writes, fresh, begun>>

Instances == 1..Opens
Messages == {"kick", "force"}

\* "kick": committed, and about to kick; "room", "reply": in force_sync_via.
ActorStates == {"none", "idle", "kick", "room", "reply", "gone"}
LoopStates == {"none", "start", "wait", "debounce", "push", "pull", "answer", "gone"}

Init ==
    /\ actor = [e \in Instances |-> "none"]
    /\ queue = [e \in Instances |-> <<>>]
    /\ loop = [e \in Instances |-> "none"]
    /\ held = [e \in Instances |-> FALSE]
    /\ writes = [e \in Instances |-> 0]
    /\ fresh = [e \in Instances |-> FALSE]
    /\ begun = [e \in Instances |-> {}]

Goes(e, pc) == loop' = [loop EXCEPT ![e] = pc]
Acts(e, state) == actor' = [actor EXCEPT ![e] = state]
HasRoom(e) == Len(queue[e]) < QueueSize
Sends(e, msg) == queue' = [queue EXCEPT ![e] = Append(@, msg)]

-----------------------------------------------------------------------------
(***************************************************************************)
(* The actor                                                                *)
(***************************************************************************)

\* SquirrelEngine::open, when the engine before has been shut down.
Open(e) ==
    /\ actor[e] = "none"
    /\ \A d \in 1..(e - 1) : actor[d] = "gone"
    /\ Acts(e, "idle") /\ Goes(e, "start")
    /\ UNCHANGED <<queue, held, writes, fresh, begun>>

\* handle_put and handle_delete: the transaction ...
Commit(e) ==
    /\ actor[e] = "idle" /\ writes[e] < MaxWrites
    /\ writes' = [writes EXCEPT ![e] = @ + 1]
    /\ fresh' = [fresh EXCEPT ![e] = TRUE]
    /\ Acts(e, "kick")
    /\ UNCHANGED <<queue, loop, held, begun>>

\* Bug variant: the kick waits for no room.
KickAlways(e) ==
    /\ actor[e] = "kick" /\ Sends(e, "kick")
    /\ Acts(e, "idle")
    /\ UNCHANGED <<loop, held, writes, fresh, begun>>

\* ... and kick_sync: try_send, dropped when the channel is full.
Kick(e) ==
    /\ actor[e] = "kick"
    /\ IF HasRoom(e) THEN Sends(e, "kick") ELSE UNCHANGED queue
    /\ Acts(e, "idle")
    /\ UNCHANGED <<loop, held, writes, fresh, begun>>

\* force_sync_via: send waits for room ...
ForceSync(e) ==
    /\ actor[e] = "idle"
    /\ Acts(e, "room")
    /\ begun' = [begun EXCEPT ![e] = {}]
    /\ UNCHANGED <<queue, loop, held, writes, fresh>>

\* Bug variant: a try_send whose failure nobody looks at.
ForceTrySent(e) ==
    /\ actor[e] = "room"
    /\ IF HasRoom(e) THEN Sends(e, "force") ELSE UNCHANGED queue
    /\ Acts(e, "reply")
    /\ UNCHANGED <<loop, held, writes, fresh, begun>>

\* ... and then, without taking another command, for the reply.
ForceSent(e) ==
    /\ actor[e] = "room" /\ HasRoom(e)
    /\ Sends(e, "force")
    /\ Acts(e, "reply")
    /\ UNCHANGED <<loop, held, writes, fresh, begun>>

\* shutdown: the actor drops its end of the channel.
Shutdown(e) ==
    /\ actor[e] = "idle"
    /\ Acts(e, "gone")
    /\ UNCHANGED <<queue, loop, held, writes, fresh, begun>>

-----------------------------------------------------------------------------
(***************************************************************************)
(* SyncLoop::run                                                            *)
(***************************************************************************)

\* Bug variant: the task ends when the table cannot be made.
EnsureTableOrEnd(e) ==
    /\ loop[e] = "start"
    /\ Goes(e, "wait") \/ Goes(e, "gone")
    /\ UNCHANGED <<actor, queue, held, writes, fresh, begun>>

\* ensure_table, whatever its result.
EnsureTable(e) ==
    /\ loop[e] = "start"
    /\ Goes(e, "wait")
    /\ UNCHANGED <<actor, queue, held, writes, fresh, begun>>

\* The next message, in one of the two places where the loop receives.
Receives(e, pc, msg) ==
    /\ loop[e] = pc /\ queue[e] # <<>> /\ Head(queue[e]) = msg
    /\ queue' = [queue EXCEPT ![e] = Tail(@)]

\* A kick opens a window of 500 ms ...
TakeKick(e) ==
    /\ Receives(e, "wait", "kick")
    /\ Goes(e, "debounce")
    /\ UNCHANGED <<actor, held, writes, fresh, begun>>

\* ... in which more kicks change nothing ...
Coalesce(e) ==
    /\ Receives(e, "debounce", "kick")
    /\ UNCHANGED <<actor, loop, held, writes, fresh, begun>>

\* ... and that ends by itself, or because the channel is closed.
DebounceEnds(e) ==
    /\ loop[e] = "debounce"
    /\ Goes(e, "push")
    /\ UNCHANGED <<actor, queue, held, writes, fresh, begun>>

\* A forced sync needs no window, and ends one.
TakeForce(e) ==
    /\ Receives(e, "wait", "force") \/ Receives(e, "debounce", "force")
    /\ held' = [held EXCEPT ![e] = TRUE]
    /\ Goes(e, "push")
    /\ UNCHANGED <<actor, writes, fresh, begun>>

\* Bug variant: the timer only looks after new writes.
TimerFiresForWrites(e) ==
    /\ loop[e] = "wait" /\ queue[e] = <<>> /\ actor[e] # "gone" /\ fresh[e]
    /\ Goes(e, "push")
    /\ UNCHANGED <<actor, queue, held, writes, fresh, begun>>

\* The deadline of 60 s.  timeout_at asks the channel first: it fires only when
\* nothing is queued and the channel is open.
TimerFires(e) ==
    /\ loop[e] = "wait" /\ queue[e] = <<>> /\ actor[e] # "gone"
    /\ Goes(e, "push")
    /\ UNCHANGED <<actor, queue, held, writes, fresh, begun>>

\* Bug variant: a push phase that fails ends the cycle.
PushOrAnswer(e) ==
    /\ loop[e] = "push"
    /\ fresh' = [fresh EXCEPT ![e] = FALSE]
    /\ begun' = [begun EXCEPT ![e] = @ \cup {"push"}]
    /\ Goes(e, "pull") \/ Goes(e, "answer")
    /\ UNCHANGED <<actor, queue, held, writes>>

\* run_push_cycle reads the outbox; what it makes of it is RecordSync.
BeginPush(e) ==
    /\ loop[e] = "push"
    /\ fresh' = [fresh EXCEPT ![e] = FALSE]
    /\ begun' = [begun EXCEPT ![e] = @ \cup {"push"}]
    /\ Goes(e, "pull")
    /\ UNCHANGED <<actor, queue, held, writes>>

\* run_pull_cycle.
BeginPull(e) ==
    /\ loop[e] = "pull"
    /\ begun' = [begun EXCEPT ![e] = @ \cup {"pull"}]
    /\ Goes(e, "answer")
    /\ UNCHANGED <<actor, queue, held, writes, fresh>>

\* Bug variant: the end of a cycle answers everybody who waits, and clears the channel.
AnswerAll(e) ==
    /\ loop[e] = "answer"
    /\ queue' = [queue EXCEPT ![e] = <<>>]
    /\ held' = [held EXCEPT ![e] = FALSE]
    /\ IF actor[e] = "reply" THEN Acts(e, "idle") ELSE UNCHANGED actor
    /\ Goes(e, "wait")
    /\ UNCHANGED <<writes, fresh, begun>>

\* The replies of this cycle; the actor takes commands again.
Answer(e) ==
    /\ loop[e] = "answer"
    /\ held' = [held EXCEPT ![e] = FALSE]
    /\ IF held[e] THEN Acts(e, "idle") ELSE UNCHANGED actor
    /\ Goes(e, "wait")
    /\ UNCHANGED <<queue, writes, fresh, begun>>

\* recv returns None: closed, and everything queued has been taken.
Close(e) ==
    /\ loop[e] = "wait" /\ queue[e] = <<>> /\ actor[e] = "gone"
    /\ Goes(e, "gone")
    /\ UNCHANGED <<actor, queue, held, writes, fresh, begun>>

-----------------------------------------------------------------------------
Actor(e) == Open(e) \/ Commit(e) \/ ForceSync(e) \/ Shutdown(e)

\* What the actor does without waiting for a command.
Sending(e) == Kick(e) \/ ForceSent(e)

\* The loop, the timer apart.
Running(e) ==
    \/ EnsureTable(e)
    \/ TakeKick(e) \/ Coalesce(e) \/ DebounceEnds(e) \/ TakeForce(e)
    \/ BeginPush(e) \/ BeginPull(e) \/ Answer(e)
    \/ Close(e)

Next == \E e \in Instances : Actor(e) \/ Sending(e) \/ Running(e) \/ TimerFires(e)

Spec == Init /\ [][Next]_vars

\* Tasks run; the store answers or fails, so phases end; timers fire.  That a
\* stream of kicks does not keep the window open is fair to ask: tokio makes a task
\* that always finds a message yield, and looks at the clock then.
FairSpec ==
    /\ Spec
    /\ \A e \in Instances :
          WF_vars(Sending(e)) /\ WF_vars(Running(e) /\ ~Coalesce(e)) /\ WF_vars(TimerFires(e))

-----------------------------------------------------------------------------
(***************************************************************************)
(* Properties                                                               *)
(***************************************************************************)

\* Every variable has its type, and the channel its capacity.
TriggerTypeOK ==
    /\ actor \in [Instances -> ActorStates]
    /\ queue \in [Instances -> Seq(Messages)]
    /\ \A e \in Instances : Len(queue[e]) <= QueueSize
    /\ loop \in [Instances -> LoopStates]
    /\ held \in [Instances -> BOOLEAN]
    /\ writes \in [Instances -> 0..MaxWrites]
    /\ fresh \in [Instances -> BOOLEAN]
    /\ begun \in [Instances -> SUBSET {"push", "pull"}]

\* "A record was written, sync soon": a committed write that no push phase has come
\* after is known to the loop, also when its kick was dropped or went into a window
\* that was open, and when the engine has been shut down meanwhile.
NoWriteUnnoticed ==
    \A e \in Instances :
        fresh[e] => actor[e] = "kick" \/ queue[e] # <<>> \/ loop[e] \in {"debounce", "push"}

\* "Caller wants to await the result of the next full sync cycle": when force_sync
\* returns, both phases have been run since it was called, and no write of this
\* engine has been left out.
ForcedIsWhole ==
    [][\A e \in Instances :
          actor[e] = "reply" /\ actor'[e] # "reply" =>
              begun[e] = {"push", "pull"} /\ ~fresh[e]]_vars

\* The actor takes no command while it waits, and it never waits for ever.
ForceReturns ==
    \A e \in Instances : actor[e] \in {"room", "reply"} ~> actor[e] = "idle"

\* Every write is followed by a push phase, before or after a shutdown.
EveryWriteGetsACycle == \A e \in Instances : fresh[e] ~> ~fresh[e]

\* As long as an engine is open its cycles go on: what RecordSync and its fairness
\* assume of the sync loop.  After a shutdown the loop ends.
CyclesGoOn ==
    \A e \in Instances :
        /\ []<>(loop[e] = "push" \/ actor[e] \in {"none", "gone"})
        /\ actor[e] = "gone" ~> loop[e] = "gone"
=============================================================================
