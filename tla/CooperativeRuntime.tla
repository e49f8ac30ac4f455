------------------------- MODULE CooperativeRuntime -------------------------
(***************************************************************************)
(* The cooperative profile of crates/task-runtime: a sender and a receiver *)
(* that share one endpoint with a one-message inline slot.  The sender     *)
(* holds Send and Duplicate, the receiver Receive; only the receiver       *)
(* blocks, and only until a message comes or the sender is torn down.      *)
(***************************************************************************)
EXTENDS TaskRuntime

CONSTANTS
    Messages,         \* the payload words tasks send
    RightsRequests,   \* the sets of rights tasks ask Duplicate for
    MessageBound      \* bound: accepted sends in one behaviour

ASSUME MessageAssumption ==
    /\ Messages \subseteq Nat
    /\ RightsRequests \subseteq SUBSET Rights
    /\ MessageBound \in Nat

VARIABLES
    endpoint,   \* the shared endpoint
    sent,       \* payloads whose Send returned Ok, in order (history)
    received    \* payloads handed to the receiver, in order (history)

vars == <<state, queue, caps, reply, spent, failed, endpoint, sent, received>>
channelVars == <<endpoint, sent, received>>

(* EndpointSnapshot: which sides are bound, and the inline slot. *)
Endpoints ==
    [live : BOOLEAN, senderBound : BOOLEAN, receiverBound : BOOLEAN,
     occupied : BOOLEAN, payload : Messages \cup {0}]

NoEndpoint ==
    [live |-> FALSE, senderBound |-> FALSE, receiverBound |-> FALSE,
     occupied |-> FALSE, payload |-> 0]

(* The inline slot with a message in it, and without. *)
Filled(e, message) == [e EXCEPT !.occupied = TRUE, !.payload = message]

(* Fault: the slot is freed and keeps its payload. *)
EmptiedKeepsPayload(e) == [e EXCEPT !.occupied = FALSE]

Emptied(e) == [e EXCEPT !.occupied = FALSE, !.payload = 0]

(* publish_initial: both tables published, the receiver queued first. *)
Init ==
    /\ state = [t \in Tasks |-> "Ready"]
    /\ queue = <<Receiver, Sender>>
    /\ caps = [t \in Tasks |->
                 Publish(Install(BuildingTable, "Endpoint",
                                 IF t = Sender THEN {"Send", "Duplicate"} ELSE {"Receive"}))]
    /\ reply = [t \in Tasks |-> NoReply]
    /\ spent = [t \in Tasks |-> {}]
    /\ failed = FALSE
    /\ endpoint = [NoEndpoint EXCEPT !.live = TRUE, !.senderBound = TRUE, !.receiverBound = TRUE]
    /\ sent = <<>>
    /\ received = <<>>

ResolveEndpoint(t, raw, right) ==
    LET resolved == ResolveTyped(caps[t], raw, "Endpoint", right)
    IN  IF resolved = "Ok" /\ ~endpoint.live THEN "InvalidHandle" ELSE resolved

SendStatus(t, raw) ==
    LET resolved == ResolveEndpoint(t, raw, "Send")
    IN  CASE resolved # "Ok" -> resolved
          [] resolved = "Ok" /\ ~endpoint.receiverBound -> "PeerExited"
          [] resolved = "Ok" /\ endpoint.receiverBound /\ endpoint.occupied -> "SlotFull"
          [] OTHER -> "Ok"

(* The receiver already waits: the message goes straight to its registers. *)
HandOver(t, message) ==
    IF CanPush(queue, Receiver)
    THEN /\ state' = WakeState(Receiver)
         /\ queue' = Append(queue, Receiver)
         /\ reply' = [reply EXCEPT ![Receiver] = Reply("Ok", message), ![t] = Reply("Ok", 0)]
         /\ sent' = Append(sent, message)
         /\ received' = Append(received, reply'[Receiver].out[1])
         /\ endpoint' = Emptied(endpoint)
         /\ UNCHANGED <<caps, spent, failed>>
    ELSE Fail /\ UNCHANGED channelVars

Deposit(t, message) ==
    /\ Resume(t, Reply("Ok", 0))
    /\ endpoint' = Filled(endpoint, message)
    /\ sent' = Append(sent, message)
    /\ UNCHANGED received

SendTrap(t, raw, message) ==
    LET status == SendStatus(t, raw)
    IN  /\ Runs(t)
        /\ \/ status # "Ok" /\ Reject(t, status) /\ UNCHANGED channelVars
           \/ /\ status = "Ok"
              /\ Len(sent) < MessageBound
              /\ \/ state[Receiver] = "BlockedReceive" /\ HandOver(t, message)
                 \/ state[Receiver] # "BlockedReceive" /\ Deposit(t, message)

(* Fault: a receiver whose sender is gone is not given the waiting message. *)
ReceiveStatusIgnoresSlot(t, raw) ==
    LET resolved == ResolveEndpoint(t, raw, "Receive")
    IN  IF resolved = "Ok" /\ ~endpoint.senderBound THEN "PeerExited" ELSE resolved

ReceiveStatus(t, raw) ==
    LET resolved == ResolveEndpoint(t, raw, "Receive")
    IN  IF resolved = "Ok" /\ ~endpoint.occupied /\ ~endpoint.senderBound
        THEN "PeerExited"
        ELSE resolved

(* Fault: the message is handed over and left in the slot. *)
TakeLeavesMessage(t) ==
    /\ Resume(t, Reply("Ok", endpoint.payload))
    /\ received' = Append(received, reply'[t].out[1])
    /\ UNCHANGED <<endpoint, sent>>

Take(t) ==
    /\ Resume(t, Reply("Ok", endpoint.payload))
    /\ received' = Append(received, reply'[t].out[1])
    /\ endpoint' = Emptied(endpoint)
    /\ UNCHANGED sent

Block(t) ==
    LET st == [state EXCEPT ![t] = "BlockedReceive"]
    IN  /\ IF Dispatchable(st, queue) THEN Switch(t, st, queue, NoReply) ELSE Fail
        /\ UNCHANGED channelVars

ReceiveTrap(t, raw) ==
    LET status == ReceiveStatus(t, raw)
    IN  /\ Runs(t)
        /\ \/ status # "Ok" /\ Reject(t, status) /\ UNCHANGED channelVars
           \/ status = "Ok" /\ endpoint.occupied /\ Take(t)
           \/ status = "Ok" /\ ~endpoint.occupied /\ Block(t)

(* The traps of the supervised profile name objects this one does not have. *)
SupervisedTrap(t) == Runs(t) /\ Reject(t, "WrongObject")

(* Fault: a blocked receiver is woken with a message. *)
BeginSenderTeardownWakesWithMessage ==
    /\ Tearing(Sender, "Live")
    /\ CloseTable(Sender)
    /\ endpoint' = [endpoint EXCEPT !.senderBound = FALSE]
    /\ IF ~endpoint.occupied /\ state[Receiver] = "BlockedReceive"
       THEN /\ state' = WakeState(Receiver)
            /\ queue' = Append(queue, Receiver)
            /\ reply' = [reply EXCEPT ![Receiver] = Reply("Ok", endpoint.payload)]
       ELSE UNCHANGED <<state, queue, reply>>
    /\ UNCHANGED <<failed, sent, received>>

BeginSenderTeardown ==
    /\ Tearing(Sender, "Live")
    /\ IF ~endpoint.occupied /\ state[Receiver] = "BlockedReceive"
       THEN IF CanPush(queue, Receiver)
            THEN /\ CloseTable(Sender)
                 /\ endpoint' = [endpoint EXCEPT !.senderBound = FALSE]
                 /\ state' = WakeState(Receiver)
                 /\ queue' = Append(queue, Receiver)
                 /\ reply' = [reply EXCEPT ![Receiver] = Reply("PeerExited", 0)]
                 /\ UNCHANGED failed
            ELSE Fail /\ UNCHANGED endpoint
       ELSE /\ CloseTable(Sender)
            /\ endpoint' = [endpoint EXCEPT !.senderBound = FALSE]
            /\ UNCHANGED <<state, queue, reply, failed>>
    /\ UNCHANGED <<sent, received>>

BeginReceiverTeardown ==
    /\ Tearing(Receiver, "Live")
    /\ CloseTable(Receiver)
    /\ endpoint' = [Emptied(endpoint) EXCEPT !.receiverBound = FALSE]
    /\ UNCHANGED <<state, queue, reply, failed, sent, received>>

CompleteTeardown(t) ==
    /\ Tearing(t, "Closing")
    /\ IF CanReap(t)
       THEN /\ Reap(t)
            /\ endpoint' = IF \A u \in Tasks : Reaped(t)[u] = "Dead" THEN NoEndpoint ELSE endpoint
       ELSE Fail /\ UNCHANGED endpoint
    /\ UNCHANGED <<sent, received>>

TrapWithoutChannel(t) ==
    /\ \/ InvalidTrap(t)
       \/ YieldTrap(t)
       \/ ExitTrap(t)
       \/ \E raw \in Handles, rights \in RightsRequests : DuplicateTrap(t, raw, rights)
       \/ \E raw \in Handles : CloseTrap(t, raw)
       \/ SupervisedTrap(t)
    /\ UNCHANGED channelVars

Boot == FirstDispatch /\ UNCHANGED channelVars

KernelStep ==
    \/ Boot
    \/ BeginSenderTeardown
    \/ BeginReceiverTeardown
    \/ \E t \in Tasks : CompleteTeardown(t)

(* The system has stopped for good. *)
Stop == Halted /\ UNCHANGED vars

Next ==
    \/ KernelStep
    \/ \E t \in Tasks : TrapWithoutChannel(t)
    \/ \E t \in Tasks, raw \in Handles, m \in Messages : SendTrap(t, raw, m)
    \/ \E t \in Tasks, raw \in Handles : ReceiveTrap(t, raw)
    \/ Stop

(* The kernel never pauses between a trap and the teardown it leads to;    *)
(* what a user task does, and whether it ever traps, is its own affair.    *)
Spec == Init /\ [][Next]_vars /\ WF_vars(KernelStep)
-----------------------------------------------------------------------------
(* What Runtime::validate checks for this profile. *)
CooperativeValid ==
    /\ RuntimeValid
    /\ \A t \in Tasks : state[t] \notin {"Staged", "BlockedApproval"}
    /\ caps[Sender].state = "Live" => endpoint.senderBound
    /\ caps[Sender].state \in {"Closing", "Dead"} => ~endpoint.senderBound
    /\ caps[Receiver].state = "Live" => endpoint.receiverBound
    /\ caps[Receiver].state \in {"Closing", "Dead"} => ~endpoint.receiverBound
    /\ state[Receiver] = "BlockedReceive" => ~endpoint.occupied /\ endpoint.senderBound
    /\ ~endpoint.receiverBound => ~endpoint.occupied
    /\ ~endpoint.occupied => endpoint.payload = 0
    /\ (\E t \in Tasks : state[t] # "Dead") => endpoint.live
    /\ AllDead => endpoint = NoEndpoint

(* Every variable keeps its type. *)
TypeOK ==
    /\ RuntimeTypeOK
    /\ endpoint \in Endpoints
    /\ sent \in Seq(Messages)
    /\ received \in Seq(Messages)

(* The validate call at the end of every handler accepts: no sequence of   *)
(* traps and teardowns leaves the queue, the task states, the tables and   *)
(* the endpoint disagreeing.                                               *)
ValidateAccepts == CooperativeValid

(* No runtime call ever returns Err, so the kernel never stops early: a    *)
(* blocked receiver always leaves a task to dispatch, no task is queued    *)
(* twice, and teardown always finds a successor or the end.                *)
NeverFails == ~failed

InFlight == IF endpoint.occupied THEN <<endpoint.payload>> ELSE <<>>

(* Each accepted payload is handed to the receiver once and in order; the  *)
(* only one that may be outstanding is in the slot, or was discarded when  *)
(* the receiver was torn down.                                             *)
ExactlyOnceInOrder ==
    IF endpoint.receiverBound
    THEN sent = received \o InFlight
    ELSE \/ sent = received
         \/ \E m \in Messages : sent = Append(received, m)

(* A receiver is told PeerExited only when it has every accepted payload:  *)
(* the sender's teardown never loses a message that waits in the slot.     *)
PeerExitedAfterDrain ==
    reply[Receiver].status = "PeerExited" => received = sent

(* A handle that was closed, by Close or by teardown, never selects an     *)
(* entry again, whatever its slot is reused for.                           *)
StaleHandlesStayDead ==
    \A t \in Tasks, raw \in Handles :
        <<HandleSlot(raw), HandleGeneration(raw)>> \in spent[t] => ~Selects(caps[t], raw)

(* No chain of duplications gives a task a right its initial handle did    *)
(* not carry: only the sender can send, only the receiver can receive, and *)
(* the receiver cannot duplicate.                                          *)
AuthorityConfined ==
    \A i \in SlotIndex :
        /\ caps[Sender].slots[i].entry.rights \subseteq {"Send", "Duplicate"}
        /\ caps[Receiver].slots[i].entry.rights \subseteq {"Receive"}

(* A receiver leaves BlockedReceive only with a cause it is told of: the   *)
(* payload just accepted, or the end of the sender.                        *)
BlockedReceiverWokenWithCause ==
    [][state[Receiver] = "BlockedReceive" /\ state'[Receiver] # "BlockedReceive" =>
          \/ \E m \in Messages :
                sent' = Append(sent, m) /\ reply'[Receiver] = Reply("Ok", m)
          \/ reply'[Receiver] = Reply("PeerExited", 0) /\ ~endpoint'.senderBound]_vars
=============================================================================
