---------------------------- MODULE MC_Services ----------------------------
(***************************************************************************)
(* Instances of what all handlers use, for TLC: the order of their locks   *)
(* (LockOrder, extended), the webhooks (WebhookSender), and where searches *)
(* find a fort (FortTree).  These share no state; "part" says which one    *)
(* the behaviour is about, and the others stay in their initial state.     *)
(*                                                                         *)
(* Ids: two records of each kind, so that two handlers may come crosswise. *)
(* Ticks: one more than there are messages, since a flush that is not      *)
(* empty may wait for its receiver for ever.                               *)
(***************************************************************************)
EXTENDS LockOrder

CONSTANTS Parts, Messages, Receivers, Ticks, Final, Places, MaxEntries

VARIABLES
    part,                                          \* one of Parts
    collection, flush, tries, added, run, main,    \* WebhookSender
    cached, row, tree, lookup, evicting, raced     \* FortTree

\* r1 wants all messages, the others one.
Wants == [r \in Receivers |->
            IF r = "r1" THEN Messages ELSE {CHOOSE m \in Messages : TRUE}]

Webhooks == INSTANCE WebhookSender

Forts == INSTANCE FortTree

webhookVars == <<collection, flush, tries, added, run, main>>
treeVars == <<cached, row, tree, lookup, evicting, raced>>

PartInit == part \in Parts /\ Init /\ Webhooks!Init /\ Forts!Init

TheLocks == part = "locks" /\ UNCHANGED <<part, webhookVars, treeVars>>
TheWebhooks == part = "webhooks" /\ UNCHANGED <<part, vars, treeVars>>
TheForts == part = "forts" /\ UNCHANGED <<part, vars, webhookVars>>

PartNext ==
    \/ \E w \in Workers : TheLocks /\ Handle(w)
    \/ \E w \in Workers : TheLocks /\ ConvertFort(w)
    \/ \E w \in Workers : TheLocks /\ LockNext(w)
    \/ \E w \in Workers : TheLocks /\ SpawnpointOfPokemon(w)
    \/ \E w \in Workers : TheLocks /\ PokestopOfPokemon(w)
    \/ \E w \in Workers : TheLocks /\ WeatherOfPokemon(w)
    \/ \E w \in Workers : TheLocks /\ PokestopOfIncident(w)
    \/ \E w \in Workers : TheLocks /\ SpawnpointOfTappable(w)
    \/ \E w \in Workers : TheLocks /\ UseCache(w)
    \/ \E w \in Workers : TheLocks /\ UseMutex(w)
    \/ \E w \in Workers : TheLocks /\ Acquire(w)
    \/ \E w \in Workers : TheLocks /\ Release(w)
    \/ \E m \in Messages : TheWebhooks /\ Webhooks!AddMessage(m)
    \/ \E f \in Ticks : TheWebhooks /\ Webhooks!Tick(f)
    \/ TheWebhooks /\ Webhooks!RunReturns
    \/ TheWebhooks /\ Webhooks!FinalFlush
    \/ \E f \in Webhooks!Flushes : TheWebhooks /\ Webhooks!GetCurrentCollection(f)
    \/ \E f \in Webhooks!Flushes, r \in Receivers : TheWebhooks /\ Webhooks!Send(f, r)
    \/ \E f \in Webhooks!Flushes, r \in Receivers : TheWebhooks /\ Webhooks!Answer(f, r)
    \/ \E f \in Ticks : TheWebhooks /\ Webhooks!FlushReturns(f)
    \/ TheWebhooks /\ Webhooks!End
    \/ \E kind \in Forts!Kinds : TheForts /\ Forts!Load(kind)
    \/ \E kind \in Forts!Kinds : TheForts /\ Forts!Shown(kind)
    \/ \E kind \in Forts!Kinds : TheForts /\ Forts!Marked(kind)
    \/ \E kind \in Forts!Kinds : TheForts /\ Forts!Expire(kind)
    \/ TheForts /\ Forts!Evicted
    \/ TheForts /\ Forts!Restart

partVars == <<part, vars, webhookVars, treeVars>>

PartSpec == PartInit /\ [][PartNext]_partVars

\* The fairness of the webhooks, where the behaviour is about them.
FairPartSpec == PartSpec /\ (part = "webhooks" => Webhooks!Fairness)
-----------------------------------------------------------------------------
\* No webhook message is forgotten or posted twice (WebhookSender; sender.go:44).
Conserved == Webhooks!Conserved

\* For every webhook message there is an attempt to post it to all who want it (WebhookSender).
AllPosted == Webhooks!AllPosted

\* A fort that keeps its kind is found where it is (FortTree; decoder/main.go:95).
FortIsFound == Forts!FortIsFound
=============================================================================
