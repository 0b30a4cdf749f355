------------------------------ MODULE EventBus ------------------------------
(***************************************************************************)
(* The event bus (core/eventbus/bus.go) for one topic: one handler at a    *)
(* time, called by the publisher itself after it has released the lock     *)
(* under which it looked the handler up, while others subscribe,           *)
(* unsubscribe and close.  The closed flag is read without the lock and    *)
(* changes once.  Rates, and events that cannot be marshalled, are left    *)
(* out.                                                                    *)
(***************************************************************************)
EXTENDS Naturals, FiniteSets

CONSTANTS
  Publishers,
  BusHandlers,   \* what may be subscribed
  MaxPublished   \* bound on the calls of Publish

ASSUME BusAssumption ==
  MaxPublished \in Nat /\ "none" \notin BusHandlers /\ IsFiniteSet(Publishers)

VARIABLES
  busShut,     \* b.closed
  subscribed,  \* b.handlers[topic], or "none"
  publisher,   \* where each publisher is, and the handler it found
  published, consumed,   \* the counters
  offered,     \* history: what was subscribed at some time during a call
  late         \* history: the publishers whose call began after Close

busVars == <<busShut, subscribed, publisher, published, consumed, offered, late>>

NoCall == [at |-> "idle", handler |-> "none"]

BusInit ==
  /\ busShut = FALSE
  /\ subscribed = "none"
  /\ publisher = [p \in Publishers |-> NoCall]
  /\ published = 0
  /\ consumed = 0
  /\ offered = [p \in Publishers |-> {}]
  /\ late = {}

Calling(p) == publisher[p].at # "idle"

(* The calls under way see the handler h come.                             *)
Offer(h) == offered' = [p \in Publishers |-> IF Calling(p) THEN offered[p] \cup {h}
                                             ELSE offered[p]]

Subscribe(h) ==
  /\ ~busShut
  /\ subscribed' = h
  /\ Offer(h)
  /\ UNCHANGED <<busShut, publisher, published, consumed, late>>

Unsubscribe ==
  /\ subscribed' = "none"
  /\ Offer("none")
  /\ UNCHANGED <<busShut, publisher, published, consumed, late>>

CloseBus ==
  /\ busShut' = TRUE
  /\ UNCHANGED <<subscribed, publisher, published, consumed, offered, late>>

(* A slip: a bus that does not look at the flag.                           *)
PublishAnyway(p) ==
  /\ ~Calling(p)
  /\ published < MaxPublished
  /\ published' = published + 1
  /\ publisher' = [publisher EXCEPT ![p].at = "open"]
  /\ offered' = [offered EXCEPT ![p] = {subscribed}]
  /\ late' = IF busShut THEN late \cup {p} ELSE late \ {p}
  /\ UNCHANGED <<busShut, subscribed, consumed>>

(* A call that finds the bus closed has no effect.                         *)
Publish(p) ==
  /\ ~Calling(p)
  /\ ~busShut
  /\ published < MaxPublished
  /\ published' = published + 1
  /\ publisher' = [publisher EXCEPT ![p].at = "open"]
  /\ offered' = [offered EXCEPT ![p] = {subscribed}]
  /\ late' = IF busShut THEN late \cup {p} ELSE late \ {p}
  /\ UNCHANGED <<busShut, subscribed, consumed>>

(* handler, ok := b.handlers[topic] under the read lock.                   *)
LooksUpHandler(p) ==
  /\ publisher[p].at = "open"
  /\ publisher' = [publisher EXCEPT ![p] = [at |-> "found", handler |-> subscribed]]
  /\ UNCHANGED <<busShut, subscribed, published, consumed, offered, late>>

(* The handler runs, if there is one, and Publish returns.                 *)
Delivers(p) ==
  /\ publisher[p].at = "found"
  /\ consumed' = IF publisher[p].handler = "none" THEN consumed ELSE consumed + 1
  /\ publisher' = [publisher EXCEPT ![p] = NoCall]
  /\ UNCHANGED <<busShut, subscribed, published, offered, late>>

BusNext ==
  \/ \E h \in BusHandlers : Subscribe(h)
  \/ Unsubscribe \/ CloseBus
  \/ \E p \in Publishers : Publish(p) \/ LooksUpHandler(p) \/ Delivers(p)

BusSpec == BusInit /\ [][BusNext]_busVars

-----------------------------------------------------------------------------
(* The bus's state has its types.                                          *)
BusTypeOK ==
  /\ busShut \in BOOLEAN
  /\ subscribed \in BusHandlers \cup {"none"}
  /\ publisher \in [Publishers -> [at : {"idle", "open", "found"},
                                   handler : BusHandlers \cup {"none"}]]
  /\ published \in 0 .. MaxPublished
  /\ consumed \in 0 .. published
  /\ offered \in [Publishers -> SUBSET (BusHandlers \cup {"none"})]
  /\ late \subseteq Publishers

(* Publish delivers to a handler that was subscribed at some moment of the *)
(* call, and to none only if there was a moment without; after Close only  *)
(* the calls that began before it deliver (bus.go 80-142).  More does not  *)
(* hold: a handler may run after Unsubscribe or Close has returned.        *)
DeliveryIsCurrent ==
  \A p \in Publishers :
    /\ publisher[p].at = "found" => publisher[p].handler \in offered[p]
    /\ Calling(p) => p \notin late
=============================================================================
