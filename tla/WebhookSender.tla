--------------------------- MODULE WebhookSender ---------------------------
(***************************************************************************)
(* The messages that Golbat sends to the webhook receivers: any goroutine  *)
(* adds one, every tick starts a flush of its own that takes what there is *)
(* and posts it to each receiver, and main flushes once more before the    *)
(* program ends (webhooks/sender.go, webhook.go, main.go).                 *)
(*                                                                         *)
(* Nobody waits for the flush of a tick, and the HTTP client knows no      *)
(* timeout: a receiver may never answer.  What a receiver does not want by *)
(* type or area is not in its payload, and an empty payload is not posted. *)
(* There is one attempt: what fails is not sent again, and a payload that  *)
(* cannot be marshalled takes all messages of that flush for that receiver *)
(* with it before anything is posted (webhook.go:113).                     *)
(***************************************************************************)
EXTENDS Naturals

(* Operators named Slip_... are plausible slips in the definition that      *)
(* follows them; nothing uses them, and each breaks a property below.      *)

CONSTANTS
    Messages,   \* each is added once at most
    Receivers,
    Wants,      \* [Receivers -> SUBSET Messages]
    Ticks,      \* bound: the flushes of ticks that may be under way at once
    Final       \* main's flush

Flushes == Ticks \cup {Final}

VARIABLES
    collection,  \* sender.collections
    flush,       \* the flushes: what each has taken, where to post it, from whom an
                 \* answer is awaited
    tries,       \* in how many attempts to post to each receiver each message was (history)
    added,       \* the messages that were added (history)
    run,         \* whether Run is still in its loop
    main         \* "runs", "flushes", "ended"

vars == <<collection, flush, tries, added, run, main>>

Idle == [at |-> "idle", took |-> {}, todo |-> {}, awaited |-> {}]

Init ==
    /\ collection = {}
    /\ flush = [f \in Flushes |-> Idle]
    /\ tries = [r \in Receivers |-> [m \in Messages |-> 0]]
    /\ added = {}
    /\ run = TRUE
    /\ main = "runs"

Alive == main # "ended"

\* AddMessage, by a save; those of goroutines that decode may come until the end.
AddMessage(m) ==
    /\ Alive /\ m \notin added
    /\ collection' = collection \cup {m}
    /\ added' = added \cup {m}
    /\ UNCHANGED <<flush, tries, run, main>>

\* The ticker starts "go sender.Flush()".
Tick(f) ==
    /\ Alive /\ run /\ f \in Ticks
    /\ flush[f] = Idle
    /\ flush' = [flush EXCEPT ![f].at = "started"]
    /\ UNCHANGED <<collection, tries, added, run, main>>

\* The context is cancelled, and Run returns.
RunReturns ==
    /\ run
    /\ run' = FALSE
    /\ UNCHANGED <<collection, flush, tries, added, main>>

\* main has waited for Run.
FinalFlush ==
    /\ main = "runs" /\ ~run
    /\ main' = "flushes"
    /\ flush' = [flush EXCEPT ![Final].at = "started"]
    /\ UNCHANGED <<collection, tries, added, run>>

\* Copies the collection and leaves the old one in place.
Slip_Rest(taken) == taken

\* What getCurrentCollection leaves for the next flush.
Rest(taken) == {}

GetCurrentCollection(f) ==
    /\ Alive /\ flush[f].at = "started"
    /\ flush' = [flush EXCEPT ![f] = [at |-> "sends", took |-> collection,
                                      todo |-> Receivers, awaited |-> {}]]
    /\ collection' = Rest(collection)
    /\ UNCHANGED <<tries, added, run, main>>

Payload(f, r) == flush[f].took \cap Wants[r]

\* Posts to one receiver after another.
Slip_MaySend(f, r) == r \in flush[f].todo /\ flush[f].awaited = {}

\* Each receiver has a goroutine of its own.
MaySend(f, r) == r \in flush[f].todo

\* sendCollection: the POST leaves, if there is something for the receiver and the
\* payload and the request can be made.
Send(f, r) ==
    /\ Alive /\ MaySend(f, r)
    /\ \E posts \in IF Payload(f, r) = {} THEN {{}} ELSE {{r}, {}} :
          flush' = [flush EXCEPT ![f].todo = @ \ {r}, ![f].awaited = @ \cup posts]
    /\ tries' = [tries EXCEPT ![r] =
                   [m \in Messages |-> @[m] + (IF m \in Payload(f, r) THEN 1 ELSE 0)]]
    /\ UNCHANGED <<collection, added, run, main>>

\* An answer or an error comes; what failed is not sent again.
Answer(f, r) ==
    /\ Alive /\ r \in flush[f].awaited
    /\ flush' = [flush EXCEPT ![f].awaited = @ \ {r}]
    /\ UNCHANGED <<collection, tries, added, run, main>>

Sent(f) == flush[f].at = "sends" /\ flush[f].todo = {} /\ flush[f].awaited = {}

\* wg.Wait() returns: the flush of a tick is over.
FlushReturns(f) ==
    /\ Alive /\ Sent(f) /\ f \in Ticks
    /\ flush' = [flush EXCEPT ![f] = Idle]
    /\ UNCHANGED <<collection, tries, added, run, main>>

\* main's flush is over, and the program ends, whatever other flushes do.
End ==
    /\ main = "flushes" /\ Sent(Final)
    /\ main' = "ended"
    /\ UNCHANGED <<collection, flush, tries, added, run>>

Next ==
    \/ \E m \in Messages : AddMessage(m)
    \/ \E f \in Ticks : Tick(f)
    \/ RunReturns
    \/ FinalFlush
    \/ \E f \in Flushes : GetCurrentCollection(f)
    \/ \E f \in Flushes, r \in Receivers : Send(f, r)
    \/ \E f \in Flushes, r \in Receivers : Answer(f, r)
    \/ \E f \in Ticks : FlushReturns(f)
    \/ End

Spec == Init /\ [][Next]_vars

\* The ticker ticks, and goroutines run; no receiver has to answer.
Fairness ==
    /\ WF_vars(\E f \in Ticks : Tick(f))
    /\ \A f \in Flushes : WF_vars(GetCurrentCollection(f))
    /\ \A f \in Flushes, r \in Receivers : WF_vars(Send(f, r))
    /\ \A f \in Ticks : WF_vars(FlushReturns(f))
    /\ WF_vars(FinalFlush)
-----------------------------------------------------------------------------
(* Correctness.                                                            *)

\* Every variable holds a value of its type.
TypeOK ==
    /\ collection \subseteq Messages
    /\ flush \in [Flushes -> [at : {"idle", "started", "sends"}, took : SUBSET Messages,
                              todo : SUBSET Receivers, awaited : SUBSET Receivers]]
    /\ tries \in [Receivers -> [Messages -> Nat]]
    /\ added \subseteq Messages
    /\ run \in BOOLEAN
    /\ main \in {"runs", "flushes", "ended"}

\* The flushes with which a message waits for the attempt to post it to a receiver.
Waits(m, r) == {f \in Flushes : r \in flush[f].todo /\ m \in flush[f].took}

\* Each message that was added is, for each receiver that wants it, in exactly
\* one place: in the collection, with one flush, or in the one attempt to post it.
\* "if a caller does nothing with the collection returned here, the collection is
\* lost" (sender.go:44): flushes overlap, and none forgets a message or posts it
\* again.
Conserved ==
    \A r \in Receivers : \A m \in added \cap Wants[r] :
        \/ m \in collection /\ Waits(m, r) = {} /\ tries[r][m] = 0
        \/ m \notin collection /\ tries[r][m] = 0 /\ \E f \in Flushes : Waits(m, r) = {f}
        \/ m \notin collection /\ tries[r][m] = 1 /\ Waits(m, r) = {}

\* For a message that is added there is in the end an attempt to post it to each
\* who wants it, also while some receivers never answer, unless the program is
\* told to stop.
AllPosted ==
    \A m \in Messages, r \in Receivers :
        m \in added /\ m \in Wants[r] ~> tries[r][m] > 0 \/ ~run
=============================================================================
