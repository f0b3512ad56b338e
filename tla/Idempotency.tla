----------------------------- MODULE Idempotency -----------------------------
(***************************************************************************)
(* HTTP commands that carry one Idempotency-Key (IdempotencyInterceptor    *)
(* and IdempotencyStore): the calls of one tenant, user, method and path   *)
(* that share the key, each with its own payload.  Keys do not interact,   *)
(* so one key stands for all.                                              *)
(*                                                                         *)
(* The key is kept in Valkey, or in the memory of the only instance when   *)
(* Valkey is not configured.  One step is one command to the store, or the *)
(* commit, the error or the answer of the handler.  A command to Valkey    *)
(* may fail; what is read as a failure is what ValkeyService makes of it.  *)
(* The store forgets the key when its TTL has passed, whoever still works  *)
(* under it: no bound on the duration of a handler is assumed.             *)
(***************************************************************************)
EXTENDS Naturals, FiniteSets

CONSTANTS
    Call,         \* the calls that share the key
    Payload,      \* request bodies, as their fingerprints
    PayloadOf,    \* PayloadOf[c]: the body of call c
    MaxOutages,   \* store commands that fail
    MaxCrashes,   \* how often an instance may die
    MaxUncached   \* responses that are not kept, and errors after the commit

ASSUME IdempotencyAssumption ==
    /\ IsFiniteSet(Call)
    /\ PayloadOf \in [Call -> Payload]
    /\ MaxOutages \in Nat /\ MaxCrashes \in Nat /\ MaxUncached \in Nat

VARIABLES
    backend,   \* where the key is kept, for the life of the deployment
    key,       \* what the store holds under the key
    record,    \* the call whose response is stored, while key = "stored"
    pc,        \* where each call is
    ran,       \* calls whose command has been committed
    answers,   \* <<c, e>>: c was answered with the response of e
    expiries, vanished, wiped,    \* how often the key was lost to its TTL, was
                                  \* gone between two commands, died with memory
    outages, crashes, uncached

storeVars == <<key, record>>
outcome == <<ran, answers>>
counts == <<expiries, vanished, wiped, outages, crashes, uncached>>
vars == <<backend, storeVars, pc, outcome, counts>>

Ended == {"answered", "replayed", "refused", "reused", "failed", "dead"}
Stage == {"new", "read", "mark", "run", "respond", "complete", "release"} \cup Ended

TypeOK ==
    /\ backend \in {"valkey", "memory"}
    /\ key \in {"absent", "inFlight", "stored"}
    /\ record \in Call
    /\ pc \in [Call -> Stage]
    /\ ran \subseteq Call
    /\ answers \subseteq Call \X Call
    /\ expiries \in Nat /\ vanished \in Nat /\ wiped \in Nat
    /\ outages \in 0..MaxOutages
    /\ crashes \in 0..MaxCrashes
    /\ uncached \in 0..MaxUncached

Init ==
    /\ backend \in {"valkey", "memory"}
    /\ key = "absent"
    /\ record \in Call          \* nothing is stored: nobody reads it
    /\ pc = [c \in Call |-> "new"]
    /\ ran = {} /\ answers = {}
    /\ expiries = 0 /\ vanished = 0 /\ wiped = 0
    /\ outages = 0 /\ crashes = 0 /\ uncached = 0

Goto(c, stage) == pc' = [pc EXCEPT ![c] = stage]

\* A command to Valkey throws, whether or not it was applied, and
\* ValkeyService turns the error into a value.
Outage ==
    /\ backend = "valkey"
    /\ outages < MaxOutages
    /\ outages' = outages + 1
    /\ UNCHANGED <<expiries, vanished, wiped, crashes, uncached>>

-----------------------------------------------------------------------------
(* IdempotencyStore.begin *)

\* SET ... NX.  (ClaimsAlways forgets the NX.)
ClaimsAlways(c) ==
    /\ pc[c] = "new"
    /\ key' = "inFlight"
    /\ Goto(c, "run")
    /\ UNCHANGED <<backend, record, outcome, counts>>
Claim(c) ==
    /\ pc[c] = "new"
    /\ \/ key = "absent" /\ key' = "inFlight" /\ Goto(c, "run")
       \/ key # "absent" /\ key' = key /\ Goto(c, "read")
    /\ UNCHANGED <<backend, record, outcome, counts>>

\* setNx returns null, which counts as a claim; it may have been applied.
ClaimFails(c) ==
    /\ pc[c] = "new"
    /\ Outage
    /\ key' \in {key, IF key = "absent" THEN "inFlight" ELSE key}
    /\ Goto(c, "run")
    /\ UNCHANGED <<backend, record, outcome>>

\* GET after the key was found taken: it may be gone, in flight or stored.
\* (ReplaysAnything does not compare the fingerprints.)
ReplaysAnything(c) == key = "stored"
Replays(c) == key = "stored" /\ PayloadOf[record] = PayloadOf[c]

Read(c) ==
    /\ pc[c] = "read"
    /\ \/ /\ key = "absent"
          /\ vanished' = vanished + 1
          /\ Goto(c, "mark")
          /\ answers' = answers
       \/ /\ key = "inFlight"
          /\ Goto(c, "refused")
          /\ UNCHANGED <<answers, vanished>>
       \/ /\ Replays(c)
          /\ Goto(c, "replayed")
          /\ answers' = answers \cup {<<c, record>>}
          /\ vanished' = vanished
       \/ /\ key = "stored" /\ ~Replays(c)
          /\ Goto(c, "reused")
          /\ UNCHANGED <<answers, vanished>>
    /\ UNCHANGED <<backend, storeVars, ran, expiries, wiped, outages, crashes,
                   uncached>>

\* get returns null on an error: taken for a key that is gone.
ReadFails(c) ==
    /\ pc[c] = "read"
    /\ Outage
    /\ Goto(c, "mark")
    /\ UNCHANGED <<backend, storeVars, outcome>>

\* The marker is written again, without NX, over whatever is there by now.
Mark(c) ==
    /\ pc[c] = "mark"
    /\ \/ key' = "inFlight" /\ UNCHANGED counts
       \/ key' \in {key, "inFlight"} /\ Outage
    /\ Goto(c, "run")
    /\ UNCHANGED <<backend, record, outcome>>

-----------------------------------------------------------------------------
(* The handler, and what the interceptor does when it returns or throws *)

Commit(c) ==
    /\ pc[c] = "run"
    /\ ran' = ran \cup {c}
    /\ Goto(c, "respond")
    /\ UNCHANGED <<backend, storeVars, answers, counts>>

Throw(c) ==
    /\ pc[c] = "run"
    /\ Goto(c, "release")
    /\ UNCHANGED <<backend, storeVars, outcome, counts>>

Uncached ==
    /\ uncached < MaxUncached
    /\ uncached' = uncached + 1

\* What follows the commit inside the handler may still throw.
ThrowLate(c) ==
    /\ pc[c] = "respond"
    /\ Uncached
    /\ Goto(c, "release")
    /\ UNCHANGED <<backend, storeVars, outcome, expiries, vanished, wiped,
                   outages, crashes>>

\* The response is sent, and complete is started and not awaited: it may
\* lag behind the client's next call.
Respond(c) ==
    /\ pc[c] = "respond"
    /\ answers' = answers \cup {<<c, c>>}
    /\ Goto(c, "complete")
    /\ UNCHANGED <<backend, storeVars, ran, counts>>

\* complete stores the response over whatever the key holds, or deletes the
\* key when the response is too large or cannot be serialised.
\* (CompletesByDeleting never stores a response; StoresTheRequest stores the
\* body it was asked with.)
CompletesByDeleting(c) ==
    /\ pc[c] = "complete"
    /\ key' = "absent"
    /\ Goto(c, "answered")
    /\ UNCHANGED <<backend, record, outcome, counts>>
StoresTheRequest(c) ==
    /\ pc[c] = "complete"
    /\ key' = "stored" /\ record' = PayloadOf[c]
    /\ Goto(c, "answered")
    /\ UNCHANGED <<backend, outcome, counts>>
Complete(c) ==
    /\ pc[c] = "complete"
    /\ \/ key' = "stored" /\ record' = c /\ UNCHANGED counts
       \/ /\ Outage
          /\ \/ UNCHANGED storeVars
             \/ key' = "stored" /\ record' = c
       \/ /\ Uncached
          /\ key' = "absent" /\ record' = record
          /\ UNCHANGED <<expiries, vanished, wiped, outages, crashes>>
    /\ Goto(c, "answered")
    /\ UNCHANGED <<backend, outcome>>

\* DEL without looking whose key it is.
Release(c) ==
    /\ pc[c] = "release"
    /\ \/ key' = "absent" /\ UNCHANGED counts
       \/ key' \in {key, "absent"} /\ Outage
    /\ Goto(c, "failed")
    /\ UNCHANGED <<backend, record, outcome>>

-----------------------------------------------------------------------------
(* The environment *)

\* The TTL of the key has passed.  (MarkersStay: a marker without a TTL.)
MarkersStay ==
    /\ key = "stored"
    /\ key' = "absent"
    /\ expiries' = expiries + 1
    /\ UNCHANGED <<backend, record, pc, outcome, vanished, wiped, outages,
                   crashes, uncached>>
Expire ==
    /\ key # "absent"
    /\ key' = "absent"
    /\ expiries' = expiries + 1
    /\ UNCHANGED <<backend, record, pc, outcome, vanished, wiped, outages,
                   crashes, uncached>>

Active == {c \in Call : pc[c] \notin Ended \cup {"new"}}

\* An instance dies with the calls it serves; the only instance of a
\* deployment without Valkey serves them all and takes the key with it.
Crash ==
    /\ crashes < MaxCrashes
    /\ crashes' = crashes + 1
    /\ \E S \in SUBSET Active :
          /\ S # {}
          /\ pc' = [c \in Call |-> IF c \in S THEN "dead" ELSE pc[c]]
          /\ \/ /\ backend = "valkey"
                /\ UNCHANGED <<key, wiped>>
             \/ /\ backend = "memory" /\ S = Active
                /\ key' = "absent"
                /\ wiped' = wiped + 1
    /\ UNCHANGED <<backend, record, outcome, expiries, vanished, outages, uncached>>

Step(c) ==
    \/ Claim(c) \/ ClaimFails(c) \/ Read(c) \/ ReadFails(c) \/ Mark(c)
    \/ Commit(c) \/ Throw(c) \/ ThrowLate(c) \/ Respond(c)
    \/ Complete(c) \/ Release(c)

AllEnded == \A c \in Call : pc[c] \in Ended

Next ==
    \/ Expire
    \/ Crash
    \/ \E c \in Call : Step(c)
    \/ AllEnded /\ UNCHANGED vars   \* every call has been answered

\* Handlers return, and a TTL runs out whatever happens.
Fairness ==
    /\ WF_vars(Expire)
    /\ \A c \in Call : WF_vars(Step(c))

Spec == Init /\ [][Next]_vars /\ Fairness

-----------------------------------------------------------------------------
(* Properties *)

\* How often the key stopped protecting the command.
Lapses == expiries + vanished + wiped + outages + uncached

\* Two runs of one command are paid for: each run beyond the first needs an
\* expired, vanished or wiped key, a failing command or a response that was
\* not kept; and every answer is that of a run with the same body.  An
\* instance that dies alone costs no second run, and neither do a release or
\* a completion by a call that no longer holds the key.
Once == INSTANCE CommandOnce WITH lapses <- Lapses
ImplementsOnce == Once!Spec

\* As long as the key neither expires nor is lost, no failed handler has
\* released it and every response is kept, the command runs once, with any
\* number of retries at any moment, also after an instance has died.
CalmMeansOnce ==
    /\ expiries + wiped + outages + uncached = 0
    /\ \A c \in Call : pc[c] # "failed"
    => Cardinality(ran) <= 1

\* A key whose holder has died is free again: retries are refused for the
\* TTL, not for ever.
Holders == {c \in Call : pc[c] \in {"mark", "run", "respond", "complete", "release"}}
KeyComesFree ==
    key = "inFlight" /\ Holders = {} ~> key # "inFlight"
=============================================================================
