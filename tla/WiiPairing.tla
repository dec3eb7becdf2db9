----------------------------- MODULE WiiPairing -----------------------------
(***************************************************************************)
(* The pairing hooks of bluetooth-shim/src/shim.c: PmBtBsaifPassKey,       *)
(* PmBtBsaifSspAccept, handleScPasskeyInd with wii_answer_pin, and         *)
(* handleScBondCfm.  A Wii Remote asks for one of four PINs nobody can     *)
(* type, and which one depends on the model, so the shim answers each      *)
(* request with the next of its candidates and makes the stack forget the  *)
(* device when the bond fails.  Other devices are left to the user.        *)
(*                                                                         *)
(* The stack and the user are external: the user starts a pairing, answers *)
(* the dialog or refuses, and the stack authenticates and confirms.        *)
(***************************************************************************)
EXTENDS Naturals

CONSTANTS Wiis,         \* Wii Remotes, by BD_ADDR
          Others,       \* other devices
          MaxRestarts,  \* bound on the restarts of the engine
          NoDev

ASSUME DevsAssumption    == Wiis \cap Others = {}
ASSUME RestartAssumption == MaxRestarts \in Nat
ASSUME NoDevAssumption   == NoDev \notin Wiis \cup Others

Devs == Wiis \cup Others

(* The candidates of wii_answer_pin: whose address, and the byte order.    *)
Variants == {"host-lsb", "wii-lsb", "host-msb", "wii-msb"}
order    == <<"host-lsb", "wii-lsb", "host-msb", "wii-msb">>

(* What the user types or decides: the PIN the device shows, or another;   *)
(* to accept, or not.                                                      *)
Typed   == {"right", "wrong"}
Answers == Variants \cup Typed \cup {"accept", "refuse"}

VARIABLES
  attempt,   \* the static counter of wii_answer_pin, modulo 4
  wants,     \* the answer that bonds the device; "accept" if it does SSP
  phase,     \* where the pairing of each device is
  sent,      \* the answer sent to it, or "none"
  key,       \* the stack's link key for it: none, good or stale
  consent,   \* whether the user agreed to its pairing
  last,      \* the Wii Remote answered last, or NoDev
  missed,    \* the PINs it has refused, no other one answered in between
  restarts   \* how often the engine was restarted

pairvars == <<phase, sent, key, consent>>
vars     == <<attempt, wants, pairvars, last, missed, restarts>>

Init == /\ attempt = 0
        /\ wants \in [Devs -> Variants \cup {"right", "accept"}]
        /\ \A w \in Wiis : wants[w] # "right"
        /\ \A o \in Others : wants[o] \notin Variants
        /\ phase = [d \in Devs |-> "idle"]
        /\ sent = [d \in Devs |-> "none"]
        /\ key = [d \in Devs |-> "none"]
        /\ consent = [d \in Devs |-> FALSE]
        /\ last = NoDev
        /\ missed = {}
        /\ restarts = 0

Goto(d, p) == phase' = [phase EXCEPT ![d] = p]

-----------------------------------------------------------------------------
(* The user starts a pairing.  With a stale key the stack authenticates    *)
(* with it and fails at once; otherwise it asks for a PIN or for SSP.      *)
Request(d) ==
  /\ phase[d] = "idle" /\ key[d] # "good"
  /\ \/ key[d] = "stale" /\ Goto(d, "failed")
     \/ key[d] # "stale" /\ wants[d] = "accept" /\ Goto(d, "ssp")
     \/ key[d] # "stale" /\ wants[d] # "accept" /\ Goto(d, "pin")
  /\ consent' = [consent EXCEPT ![d] = FALSE]
  /\ UNCHANGED <<attempt, wants, sent, key, last, missed, restarts>>

(* The user removes a device the stack has a key for.                      *)
Unpair(d) ==
  /\ phase[d] = "idle" /\ key[d] # "none"
  /\ key' = [key EXCEPT ![d] = "none"]
  /\ consent' = [consent EXCEPT ![d] = FALSE]
  /\ UNCHANGED <<attempt, wants, phase, sent, last, missed, restarts>>

(* wii_answer_pin: the next candidate, whichever Wii Remote asks.          *)
Candidate == order[attempt + 1]

(* Mutant: the counter skips a candidate on its way round.                 *)
NextAttempt_Short == (attempt + 1) % 3

NextAttempt == (attempt + 1) % 4

(* handleScPasskeyInd for a Wii Remote: answered without the dialog.       *)
AnswerPin(w) ==
  /\ phase[w] = "pin"
  /\ sent' = [sent EXCEPT ![w] = Candidate]
  /\ attempt' = NextAttempt
  /\ last' = w
  /\ missed' = IF w = last THEN missed ELSE {}
  /\ Goto(w, "answered")
  /\ UNCHANGED <<wants, key, consent, restarts>>

(* For any other device the stock handler raises the dialog, and what the  *)
(* user types goes through PmBtBsaifPassKey unchanged.  Its branch for a   *)
(* Wii Remote, which puts in a PIN, is not reached: AnswerPin leaves no    *)
(* dialog to answer, and without real_passkey neither of them answers.     *)
DialogPin(o) ==
  /\ phase[o] = "pin"
  /\ \E pin \in Typed : sent' = [sent EXCEPT ![o] = pin]
  /\ consent' = [consent EXCEPT ![o] = TRUE]
  /\ Goto(o, "answered")
  /\ UNCHANGED <<attempt, wants, key, last, missed, restarts>>

(* Mutant: every SSP request is accepted.                                  *)
Accepted_All(d, accept) == TRUE

(* PmBtBsaifSspAccept forces the acceptance for a Wii Remote only.         *)
Accepted(d, accept) == accept \/ d \in Wiis

SspAccept(d) ==
  /\ phase[d] = "ssp"
  /\ \E accept \in BOOLEAN :
       /\ consent' = [consent EXCEPT ![d] = accept]
       /\ sent' = [sent EXCEPT ![d] =
                     IF Accepted(d, accept) THEN "accept" ELSE "refuse"]
  /\ Goto(d, "answered")
  /\ UNCHANGED <<attempt, wants, key, last, missed, restarts>>

(* The stack authenticates.  A failure leaves a stale key behind.          *)
Authenticate(d) ==
  /\ phase[d] = "answered"
  /\ IF sent[d] = wants[d]
     THEN Goto(d, "bonded") /\ key' = [key EXCEPT ![d] = "good"]
     ELSE Goto(d, "failed") /\ key' = [key EXCEPT ![d] = "stale"]
  /\ UNCHANGED <<attempt, wants, sent, consent, last, missed, restarts>>

(* Mutant: the failed bond is reported and not forgotten.                  *)
Debonded_Never(d) == key[d]

(* A failed bond to a Wii Remote is forgotten.                             *)
Debonded(d) == IF d \in Wiis /\ phase[d] = "failed" THEN "none" ELSE key[d]

(* handleScBondCfm: the stock handler, then the debond.                    *)
BondCfm(d) ==
  /\ phase[d] \in {"bonded", "failed"}
  /\ key' = [key EXCEPT ![d] = Debonded(d)]
  /\ missed' = IF d # last THEN missed
               ELSE IF phase[d] = "failed" /\ sent[d] \in Variants
               THEN missed \cup {sent[d]} ELSE {}
  /\ sent' = [sent EXCEPT ![d] = "none"]
  /\ Goto(d, "idle")
  /\ UNCHANGED <<attempt, wants, consent, last, restarts>>

(* The engine is restarted: the counter starts over, the pairings under    *)
(* way are gone, and the stack keeps its keys.                             *)
Restart ==
  /\ restarts < MaxRestarts
  /\ restarts' = restarts + 1
  /\ attempt' = 0
  /\ phase' = [d \in Devs |-> "idle"]
  /\ sent' = [d \in Devs |-> "none"]
  /\ last' = NoDev
  /\ missed' = {}
  /\ UNCHANGED <<wants, key, consent>>

Pairing(d) == \/ Request(d) \/ SspAccept(d) \/ Authenticate(d) \/ BondCfm(d)
              \/ d \in Wiis /\ AnswerPin(d)
              \/ d \in Others /\ DialogPin(d)

Next == (\E d \in Devs : Pairing(d) \/ Unpair(d)) \/ Restart

Spec == Init /\ [][Next]_vars

(* The user keeps trying, and the stack and the shim do their part.        *)
FairSpec == Spec /\ \A d \in Devs : WF_vars(Pairing(d))

-----------------------------------------------------------------------------
TypeOK ==
  /\ attempt \in 0 .. 3
  /\ wants \in [Devs -> Variants \cup {"right", "accept"}]
  /\ phase \in [Devs -> {"idle", "pin", "ssp", "answered", "bonded", "failed"}]
  /\ sent \in [Devs -> Answers \cup {"none"}]
  /\ key \in [Devs -> {"none", "good", "stale"}]
  /\ consent \in [Devs -> BOOLEAN]
  /\ last \in Wiis \cup {NoDev}
  /\ missed \subseteq Variants
  /\ restarts \in 0 .. MaxRestarts

(* A Wii Remote that is paired again and again, no other one in between,   *)
(* is never given a PIN it has already refused, so the right one is among  *)
(* the first four.                                                         *)
NoPinTwice ==
  \A w \in Wiis : w = last /\ phase[w] = "answered" => sent[w] \notin missed

(* Other devices are bonded only if the user agreed to it: forcing the     *)
(* answers of Wii Remotes never bonds anything else.                       *)
OthersNeedConsent == \A o \in Others : key[o] = "good" => consent[o]

(* The inductive invariant of the two.  A pairing under way starts without *)
(* a key, and only consent lets the right answer of another device out.    *)
ConsentInv == \A d \in Devs :
  /\ phase[d] \in {"pin", "ssp", "answered"} => key[d] = "none"
  /\ d \in Others =>
       /\ wants[d] \in {"right", "accept"}
       /\ key[d] = "good" => consent[d]
       /\ phase[d] = "answered" /\ sent[d] = wants[d] => consent[d]

(* The i-th candidate back from the next one.                              *)
Back(i) == order[((attempt + 4 - i) % 4) + 1]

(* What last refused is a run of candidates up to the last one sent, which *)
(* is on its way until the bond is confirmed.                              *)
OnItsWay == phase[last] \in {"answered", "bonded", "failed"} /\ sent[last] # "none"

MissedInv == last # NoDev =>
  /\ wants[last] \notin missed
  /\ IF OnItsWay
     THEN /\ sent[last] = Back(1)
          /\ missed \in {{}, {Back(2)}, {Back(2), Back(3)},
                         {Back(2), Back(3), Back(4)}}
     ELSE missed \in {{}, {Back(1)}, {Back(1), Back(2)},
                      {Back(1), Back(2), Back(3)}}

(* A Wii Remote is answered from the candidates, or accepted.              *)
SentInv == \A w \in Wiis :
  /\ wants[w] # "right"
  /\ phase[w] \in {"idle", "pin", "ssp"} => sent[w] = "none"
  /\ wants[w] = "accept" => sent[w] \in {"none", "accept"} /\ phase[w] # "pin"
  /\ wants[w] # "accept" => sent[w] \in Variants \cup {"none"} /\ phase[w] # "ssp"
  /\ phase[w] = "bonded" => sent[w] = wants[w]
  /\ phase[w] = "failed" => sent[w] # wants[w]
  /\ phase[w] = "answered" => sent[w] # "none"
  /\ w = last => wants[w] # "accept"

PairInv == TypeOK /\ ConsentInv /\ SentInv /\ MissedInv

(* A stale key never blocks a Wii Remote for good: it is forgotten, even   *)
(* if the engine was restarted between the failure and the debond.         *)
StaleKeysForgotten == \A w \in Wiis : key[w] = "stale" ~> key[w] # "stale"

(* shim.c says of the candidates: "Cycle candidates across successive      *)
(* pairing attempts and log each, so retrying a few times finds the one    *)
(* that authenticates".                                                    *)
RetryingFindsThePin == \A w \in Wiis : <>(key[w] = "good")
=============================================================================
