------------------------- MODULE WiiPairing_proofs -------------------------
(***************************************************************************)
(* The pairing hooks, for any number of Wii Remotes and other devices: no  *)
(* PIN is tried twice in a row of attempts, and nothing but a Wii Remote   *)
(* is bonded without consent.                                              *)
(***************************************************************************)
EXTENDS WiiPairing, TLAPS

(* The candidates are all the variants, each once.                         *)
LEMMA CandidatesDiffer ==
  ASSUME attempt \in 0 .. 3
  PROVE  /\ Variants = {Back(1), Back(2), Back(3), Back(4)}
         /\ Back(1) # Back(2) /\ Back(1) # Back(3) /\ Back(1) # Back(4)
<1>. USE DEF Back, order, Variants
<1>1. CASE attempt = 0
  BY <1>1
<1>2. CASE attempt = 1
  BY <1>2
<1>3. CASE attempt = 2
  BY <1>3
<1>4. CASE attempt = 3
  BY <1>4
<1>. QED
  BY <1>1, <1>2, <1>3, <1>4

(* When the counter advances, each candidate is one further back.          *)
LEMMA CandidatesShift ==
  ASSUME attempt \in 0 .. 3, attempt' = NextAttempt
  PROVE  /\ Back(1)' = Candidate
         /\ Back(2)' = Back(1) /\ Back(3)' = Back(2) /\ Back(4)' = Back(3)
         /\ attempt' \in 0 .. 3 /\ Candidate \in Variants
<1>. USE DEF Back, order, NextAttempt, Candidate, Variants
<1>1. CASE attempt = 0
  BY <1>1
<1>2. CASE attempt = 1
  BY <1>2
<1>3. CASE attempt = 2
  BY <1>3
<1>4. CASE attempt = 3
  BY <1>4
<1>. QED
  BY <1>1, <1>2, <1>3, <1>4

(* Types are kept by every step.                                           *)
LEMMA TypeInductive ==
  ASSUME TypeOK, [Next]_vars
  PROVE  TypeOK'
<1>. USE DEF TypeOK, Goto, Answers, Typed
<1>1. ASSUME NEW d \in Devs, Request(d) PROVE TypeOK'
  BY <1>1 DEF Request
<1>2. ASSUME NEW d \in Devs, SspAccept(d) PROVE TypeOK'
  BY <1>2 DEF SspAccept
<1>3. ASSUME NEW d \in Devs, Authenticate(d) PROVE TypeOK'
  BY <1>3 DEF Authenticate
<1>4. ASSUME NEW d \in Devs, BondCfm(d) PROVE TypeOK'
  BY <1>4 DEF BondCfm, Debonded
<1>5. ASSUME NEW w \in Wiis, AnswerPin(w) PROVE TypeOK'
  BY <1>5, CandidatesShift DEF AnswerPin, Devs
<1>6. ASSUME NEW o \in Others, DialogPin(o) PROVE TypeOK'
  BY <1>6 DEF DialogPin, Devs
<1>7. ASSUME NEW d \in Devs, Unpair(d) PROVE TypeOK'
  BY <1>7 DEF Unpair
<1>8. ASSUME Restart PROVE TypeOK'
  BY <1>8, RestartAssumption DEF Restart
<1>9. CASE UNCHANGED vars
  BY <1>9 DEF vars, pairvars
<1>. QED
  BY <1>1, <1>2, <1>3, <1>4, <1>5, <1>6, <1>7, <1>8, <1>9 DEF Next, Pairing

(* No key before a bond, and no bond of another device without consent.    *)
LEMMA ConsentInductive ==
  ASSUME TypeOK, ConsentInv, [Next]_vars
  PROVE  ConsentInv'
<1>. USE DevsAssumption DEF TypeOK, ConsentInv, Goto, Devs
<1>1. ASSUME NEW d \in Devs, Request(d) PROVE ConsentInv'
  BY <1>1 DEF Request
<1>2. ASSUME NEW d \in Devs, SspAccept(d) PROVE ConsentInv'
  BY <1>2 DEF SspAccept, Accepted
<1>3. ASSUME NEW d \in Devs, Authenticate(d) PROVE ConsentInv'
  BY <1>3 DEF Authenticate
<1>4. ASSUME NEW d \in Devs, BondCfm(d) PROVE ConsentInv'
  BY <1>4 DEF BondCfm, Debonded
<1>5. ASSUME NEW w \in Wiis, AnswerPin(w) PROVE ConsentInv'
  BY <1>5 DEF AnswerPin
<1>6. ASSUME NEW o \in Others, DialogPin(o) PROVE ConsentInv'
  BY <1>6 DEF DialogPin
<1>7. ASSUME NEW d \in Devs, Unpair(d) PROVE ConsentInv'
  BY <1>7 DEF Unpair
<1>8. ASSUME Restart PROVE ConsentInv'
  BY <1>8 DEF Restart
<1>9. CASE UNCHANGED vars
  BY <1>9 DEF vars, pairvars
<1>. QED
  BY <1>1, <1>2, <1>3, <1>4, <1>5, <1>6, <1>7, <1>8, <1>9 DEF Next, Pairing

(* What each Wii Remote has been sent, by the phase of its pairing.        *)
LEMMA SentInductive ==
  ASSUME TypeOK, SentInv, [Next]_vars
  PROVE  SentInv'
<1>. USE DevsAssumption, NoDevAssumption DEF TypeOK, SentInv, Goto, Devs, Variants
<1>1. ASSUME NEW d \in Devs, Request(d) PROVE SentInv'
  BY <1>1 DEF Request
<1>2. ASSUME NEW d \in Devs, SspAccept(d) PROVE SentInv'
  BY <1>2 DEF SspAccept, Accepted
<1>3. ASSUME NEW d \in Devs, Authenticate(d) PROVE SentInv'
  BY <1>3 DEF Authenticate
<1>4. ASSUME NEW d \in Devs, BondCfm(d) PROVE SentInv'
  BY <1>4 DEF BondCfm
<1>5. ASSUME NEW w \in Wiis, AnswerPin(w) PROVE SentInv'
  BY <1>5, CandidatesShift DEF AnswerPin
<1>6. ASSUME NEW o \in Others, DialogPin(o) PROVE SentInv'
  BY <1>6 DEF DialogPin
<1>7. ASSUME NEW d \in Devs, Unpair(d) PROVE SentInv'
  BY <1>7 DEF Unpair
<1>8. ASSUME Restart PROVE SentInv'
  BY <1>8 DEF Restart
<1>9. CASE UNCHANGED vars
  BY <1>9 DEF vars, pairvars
<1>. QED
  BY <1>1, <1>2, <1>3, <1>4, <1>5, <1>6, <1>7, <1>8, <1>9 DEF Next, Pairing

(* Steps that leave the counter, the last answered and what it refused.    *)
LEMMA MissedUnchanged ==
  ASSUME TypeOK, MissedInv, UNCHANGED <<attempt, wants, last, missed>>,
         last # NoDev => (OnItsWay' <=> OnItsWay) /\ (OnItsWay => sent'[last] = sent[last])
  PROVE  MissedInv'
BY DEF MissedInv, Back, TypeOK

(* The refused PINs are a run of candidates that ends at the last sent.    *)
LEMMA MissedInductive ==
  ASSUME TypeOK, SentInv, MissedInv, [Next]_vars
  PROVE  MissedInv'
<1>1. ASSUME NEW d \in Devs, Request(d) PROVE MissedInv'
  <2>1. last # NoDev => (OnItsWay' <=> OnItsWay) /\ sent' = sent
    BY <1>1 DEF Request, OnItsWay, TypeOK, SentInv, Goto, Devs
  <2>. QED
    BY <1>1, <2>1, MissedUnchanged DEF Request
<1>2. ASSUME NEW d \in Devs, SspAccept(d) PROVE MissedInv'
  <2>1. last # NoDev => d # last
    BY <1>2 DEF SspAccept, TypeOK, SentInv
  <2>2. last # NoDev => (OnItsWay' <=> OnItsWay) /\ sent'[last] = sent[last]
    BY <1>2, <2>1 DEF SspAccept, OnItsWay, TypeOK, Goto, Devs
  <2>. QED
    BY <1>2, <2>2, MissedUnchanged DEF SspAccept
<1>3. ASSUME NEW d \in Devs, Authenticate(d) PROVE MissedInv'
  <2>1. last # NoDev => (OnItsWay' <=> OnItsWay) /\ sent' = sent
    BY <1>3 DEF Authenticate, OnItsWay, TypeOK, Goto, Devs
  <2>. QED
    BY <1>3, <2>1, MissedUnchanged DEF Authenticate
<1>4. ASSUME NEW d \in Devs, BondCfm(d) PROVE MissedInv'
  <2>1. CASE d # last
    <3>1. last # NoDev => (OnItsWay' <=> OnItsWay) /\ sent'[last] = sent[last]
      BY <1>4, <2>1 DEF BondCfm, OnItsWay, TypeOK, Goto, Devs
    <3>. QED
      BY <1>4, <2>1, <3>1, MissedUnchanged DEF BondCfm
  <2>2. CASE d = last
    <3>1. /\ last' = last /\ attempt' = attempt /\ wants' = wants
          /\ ~ OnItsWay'
      BY <1>4, <2>2 DEF BondCfm, OnItsWay, TypeOK, Goto
    <3>2. \A i \in 1 .. 4 : Back(i)' = Back(i)
      BY <3>1 DEF Back
    <3>3. CASE phase[d] = "failed" /\ sent[d] \in Variants
      <4>0. d \in Wiis
        BY <2>2, NoDevAssumption DEF TypeOK, Devs
      <4>1. /\ missed' = missed \cup {sent[d]}
            /\ sent[d] # wants[d] /\ wants[d] \in Variants
        BY <1>4, <2>2, <3>3, <4>0 DEF BondCfm, SentInv, TypeOK, Devs, Variants
      <4>2. sent[d] # "none" /\ last # NoDev
        BY <3>3, <2>2, <4>0, NoDevAssumption DEF Variants
      <4>3. /\ sent[d] = Back(1) /\ wants[d] \notin missed
            /\ missed \in {{}, {Back(2)}, {Back(2), Back(3)},
                           {Back(2), Back(3), Back(4)}}
        BY <3>3, <2>2, <4>2 DEF MissedInv, OnItsWay
      <4>4. missed # {Back(2), Back(3), Back(4)}
        BY <4>1, <4>3, CandidatesDiffer DEF TypeOK
      <4>5. missed' \in {{}, {Back(1)}, {Back(1), Back(2)},
                         {Back(1), Back(2), Back(3)}}
        BY <4>1, <4>3, <4>4
      <4>. QED
        BY <2>2, <3>1, <3>2, <4>1, <4>3, <4>5 DEF MissedInv
    <3>4. CASE ~ (phase[d] = "failed" /\ sent[d] \in Variants)
      <4>1. missed' = {}
        BY <1>4, <2>2, <3>4 DEF BondCfm
      <4>. QED
        BY <3>1, <4>1 DEF MissedInv
    <3>. QED
      BY <3>3, <3>4
  <2>. QED
    BY <2>1, <2>2
<1>5. ASSUME NEW w \in Wiis, AnswerPin(w) PROVE MissedInv'
  <2>1. /\ last' = w /\ wants' = wants /\ sent'[w] = Candidate
        /\ missed' = IF w = last THEN missed ELSE {}
        /\ phase'[w] = "answered" /\ attempt' = NextAttempt
    BY <1>5 DEF AnswerPin, Goto, TypeOK, Devs
  <2>2. /\ Back(1)' = Candidate /\ Candidate # "none"
        /\ Back(2)' = Back(1) /\ Back(3)' = Back(2) /\ Back(4)' = Back(3)
    BY <2>1, CandidatesShift DEF TypeOK, Variants
  <2>3. OnItsWay'
    BY <2>1, <2>2 DEF OnItsWay
  <2>4. w = last => ~ OnItsWay
    BY <1>5 DEF AnswerPin, OnItsWay
  <2>. QED
    BY <2>1, <2>2, <2>3, <2>4, NoDevAssumption DEF MissedInv
<1>6. ASSUME NEW o \in Others, DialogPin(o) PROVE MissedInv'
  <2>1. last # NoDev => o # last
    BY DevsAssumption DEF TypeOK
  <2>2. last # NoDev => (OnItsWay' <=> OnItsWay) /\ sent'[last] = sent[last]
    BY <1>6, <2>1 DEF DialogPin, OnItsWay, TypeOK, Goto, Devs
  <2>. QED
    BY <1>6, <2>2, MissedUnchanged DEF DialogPin
<1>7. ASSUME NEW d \in Devs, Unpair(d) PROVE MissedInv'
  BY <1>7, MissedUnchanged DEF Unpair, OnItsWay
<1>8. ASSUME Restart PROVE MissedInv'
  BY <1>8 DEF Restart, MissedInv
<1>9. CASE UNCHANGED vars
  BY <1>9, MissedUnchanged DEF vars, pairvars, OnItsWay
<1>. QED
  BY <1>1, <1>2, <1>3, <1>4, <1>5, <1>6, <1>7, <1>8, <1>9 DEF Next, Pairing

(* The inductive invariant of the pairing hooks.                           *)
THEOREM PairCorrect == Spec => []PairInv
<1>1. Init => PairInv
  <2>1. Init => TypeOK
    BY RestartAssumption DEF Init, TypeOK, Answers
  <2>2. Init => ConsentInv
    BY DEF Init, ConsentInv, Devs, Variants
  <2>3. Init => SentInv /\ MissedInv
    BY NoDevAssumption DEF Init, SentInv, MissedInv, Devs
  <2>. QED
    BY <2>1, <2>2, <2>3 DEF PairInv
<1>2. PairInv /\ [Next]_vars => PairInv'
  BY TypeInductive, ConsentInductive, SentInductive, MissedInductive DEF PairInv
<1>. QED
  BY <1>1, <1>2, PTL DEF Spec

(* The PIN counter stays in the list of four and the keys and consents     *)
(* keep their types, for any number of devices.                            *)
THEOREM TypeCorrect == Spec => []TypeOK
<1>1. PairInv => TypeOK
  BY DEF PairInv
<1>. QED
  BY <1>1, PairCorrect, PTL

(* A Wii Remote retried on its own never gets a PIN it has refused.        *)
THEOREM NoPinTwiceCorrect == Spec => []NoPinTwice
<1>1. PairInv => NoPinTwice
  <2>. SUFFICES ASSUME PairInv, NEW w \in Wiis, w = last, phase[w] = "answered"
                PROVE  sent[w] \notin missed
    BY DEF NoPinTwice
  <2>1. last # NoDev /\ OnItsWay
    BY NoDevAssumption DEF PairInv, SentInv, OnItsWay
  <2>. QED
    BY <2>1, CandidatesDiffer DEF PairInv, MissedInv, TypeOK
<1>. QED
  BY <1>1, PairCorrect, PTL

(* Nothing but a Wii Remote is bonded without the user's consent.          *)
THEOREM ConsentCorrect == Spec => []OthersNeedConsent
<1>1. PairInv => OthersNeedConsent
  BY DEF PairInv, ConsentInv, OthersNeedConsent, Devs
<1>. QED
  BY <1>1, PairCorrect, PTL
=============================================================================
