----------------------------- MODULE SignalLife -----------------------------
(***************************************************************************)
(* What distillation and its nightly revisit promise of a signal: it is    *)
(* free until a session claims it, free again only while no session has    *)
(* written candidates from it, and with the revisit for good once a chain  *)
(* takes it.  Candidates are written from it by one session at most, and   *)
(* by one revisit chain at most.  The promise is not kept to sessions that *)
(* were at work together, nor to chains that were prepared together.       *)
(***************************************************************************)
CONSTANTS Signals, Sessions, Chains

VARIABLES
  life,      \* per signal
  writers,   \* per signal: sessions and chains that wrote candidates from it
  together,  \* sessions that were at work beside another
  prepared   \* pairs of chains that were prepared side by side

vars == <<life, writers, together, prepared>>

TypeOK ==
  /\ life \in [Signals -> {"free", "claimed", "revisited"}]
  /\ writers \in [Signals -> SUBSET (Sessions \cup Chains)]
  /\ together \in SUBSET Sessions /\ prepared \in SUBSET SUBSET Chains

Init ==
  /\ life = [s \in Signals |-> "free"]
  /\ writers = [s \in Signals |-> {}]
  /\ together = {} /\ prepared = {}

Become(S, what) == life' = [s \in Signals |-> IF s \in S THEN what ELSE life[s]]

Claim(S) ==
  /\ \A s \in S : life[s] = "free"
  /\ Become(S, "claimed")
  /\ UNCHANGED <<writers, together, prepared>>

Release(S) ==
  /\ \A s \in S : life[s] = "claimed" /\ writers[s] \cap Sessions \subseteq together
  /\ Become(S, "free")
  /\ UNCHANGED <<writers, together, prepared>>

Revisit(S) ==
  /\ \A s \in S : life[s] # "revisited"
  /\ Become(S, "revisited")
  /\ UNCHANGED <<writers, together, prepared>>

\* Candidates written from S by w, a session or a chain (its kind).
Write(w, S, kind) ==
  /\ \A s \in S :
       /\ life[s] = "free" => w \in together
       /\ kind = Chains => life[s] = "revisited"
       /\ \A v \in writers[s] \cap kind :
            v # w => {v, w} \cap together # {} \/ {v, w} \in prepared
  /\ writers' = [s \in Signals |-> IF s \in S THEN writers[s] \cup {w} ELSE writers[s]]
  /\ UNCHANGED <<life, together, prepared>>

\* Sessions and chains come together; what has written keeps that mark.
Meet ==
  /\ together' \in SUBSET Sessions
  /\ \A s \in Signals : together \cap writers[s] \subseteq together'
  /\ prepared' \in SUBSET SUBSET Chains /\ prepared \subseteq prepared'
  /\ UNCHANGED <<life, writers>>

Next ==
  \/ \E S \in SUBSET Signals : Claim(S) \/ Release(S) \/ Revisit(S)
  \/ \E x \in Sessions, S \in SUBSET Signals : Write(x, S, Sessions)
  \/ \E y \in Chains, S \in SUBSET Signals : Write(y, S, Chains)
  \/ Meet

Spec == Init /\ [][Next]_vars
=============================================================================
