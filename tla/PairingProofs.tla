---------------------------- MODULE PairingProofs ----------------------------
(***************************************************************************)
(* Theorems about Pairing, for every set of devices and of sessions, with  *)
(* and without restarts and failing saves.                                 *)
(***************************************************************************)
EXTENDS Pairing, TLAPS

-----------------------------------------------------------------------------
(***************************************************************************)
(* Type correctness.  The types of the variables and the agreement between *)
(* prompts and responder are kept apart in the proof: the second is about  *)
(* the queue of stdin alone.                                               *)
(***************************************************************************)
PairingTypes ==
  /\ stored \in [Device -> SUBSET Device]
  /\ loaded \in [Device -> SUBSET Device]
  /\ running \subseteq Device
  /\ prompts \in [Device -> Seq(Session)]
  /\ from \in [Session -> Device \cup {NoDevice}]
  /\ to \in [Session -> Device \cup {NoDevice}]
  /\ mem \in [Session -> SUBSET Device]
  /\ initiator \in [Session -> {"none", "waiting", "paired", "failed"}]
  /\ responder \in [Session -> {"none", "asked", "accepted", "paired", "unsaved",
                                "rejected", "failed", "killed"}]
  /\ reply \in [Session -> {"none", "accept", "reject"}]
  /\ said \in [Session -> {"nothing", "yes", "no"}]

\* A session has its two devices exactly when it has begun, and nothing has
\* happened on the responder's side before.
BegunInOrder ==
  \A s \in Session :
    IF initiator[s] = "none"
    THEN /\ from[s] = NoDevice /\ to[s] = NoDevice
         /\ responder[s] = "none"
    ELSE from[s] \in Device /\ to[s] \in Device

\* What was typed for s and what came back from it fit the responder's state.
AnswerFits ==
  \A s \in Session :
    /\ responder[s] \in {"none", "asked"} => said[s] = "nothing" /\ reply[s] = "none"
    /\ responder[s] \in {"accepted", "paired", "unsaved"} => said[s] = "yes"
    /\ reply[s] = "accept" =>
         said[s] = "yes" /\ responder[s] \in {"accepted", "paired", "unsaved", "killed"}

PairingInv ==
  /\ PairingTypes
  /\ BegunInOrder
  /\ PromptsAreAsked
  /\ AnswerFits
  /\ TrustIsConfirmed
  /\ SuccessIsShared

\* The request that a line answers.
LEMMA HeadIsAsked ==
  ASSUME PairingTypes, PromptsAreAsked, NEW d \in Device, prompts[d] # <<>>
  PROVE  /\ Head(prompts[d]) \in Session
         /\ responder[Head(prompts[d])] = "asked"
         /\ to[Head(prompts[d])] = d
         /\ Tail(prompts[d]) \in Seq(Session)
         /\ Len(Tail(prompts[d])) = Len(prompts[d]) - 1
         /\ \A i \in 1 .. Len(prompts[d]) - 1 : Tail(prompts[d])[i] = prompts[d][i + 1]
<1>1. prompts[d] \in Seq(Session)
  BY DEF PairingTypes
<1>2. Len(prompts[d]) >= 1 /\ Head(prompts[d]) = prompts[d][1]
  BY <1>1
<1>3. QED
  BY <1>1, <1>2 DEF PromptsAreAsked

\* A request leaves the queue: its line is typed, or input() fails.
LEMMA DequeuePrompts ==
  ASSUME PairingTypes, PromptsAreAsked, NEW d \in Device, prompts[d] # <<>>,
         NEW after \in {"accepted", "rejected", "failed"},
         prompts' = [prompts EXCEPT ![d] = Tail(@)],
         responder' = [responder EXCEPT ![Head(prompts[d])] = after],
         to' = to
  PROVE  PromptsAreAsked'
<1> DEFINE s == Head(prompts[d])
<1>1. s \in Session /\ responder[s] = "asked" /\ to[s] = d
  BY HeadIsAsked
<1>2. prompts[d] \in Seq(Session) /\ Len(prompts[d]) >= 1 /\ s = prompts[d][1]
  BY DEF PairingTypes
<1>3. /\ Len(prompts'[d]) = Len(prompts[d]) - 1
      /\ \A i \in 1 .. Len(prompts'[d]) : prompts'[d][i] = prompts[d][i + 1]
  BY HeadIsAsked DEF PairingTypes
<1>4. \A e \in Device \ {d} : prompts'[e] = prompts[e]
  BY DEF PairingTypes
<1>5. \A r \in Session : r # s => responder'[r] = responder[r]
  BY <1>1 DEF PairingTypes
<1>6. responder'[s] = after
  BY <1>1 DEF PairingTypes
<1>7. ASSUME NEW e \in Device, NEW i \in 1 .. Len(prompts'[e]), NEW j \in 1 .. Len(prompts'[e])
      PROVE  /\ prompts'[e][i] = prompts'[e][j] => i = j
             /\ responder'[prompts'[e][i]] = "asked" /\ to'[prompts'[e][i]] = e
  <2>1. CASE e = d
    <3>1. /\ i + 1 \in 1 .. Len(prompts[d]) /\ j + 1 \in 1 .. Len(prompts[d])
          /\ 1 \in 1 .. Len(prompts[d])
          /\ prompts'[e][i] = prompts[d][i + 1] /\ prompts'[e][j] = prompts[d][j + 1]
      BY <1>2, <1>3, <2>1
    <3>2. prompts[d][i + 1] = prompts[d][j + 1] => i = j
      BY <3>1 DEF PromptsAreAsked
    <3>3. prompts[d][i + 1] = prompts[d][1] => i + 1 = 1
      BY <3>1 DEF PromptsAreAsked
    <3>4. prompts[d][i + 1] # s
      BY <1>2, <3>3
    <3>5. prompts[d][i + 1] \in Session
      BY <1>2, <3>1
    <3>6. responder[prompts[d][i + 1]] = "asked" /\ to[prompts[d][i + 1]] = d
      BY <3>1 DEF PromptsAreAsked
    <3>7. QED
      BY <1>5, <2>1, <3>1, <3>2, <3>4, <3>5, <3>6
  <2>2. CASE e # d
    <3>1. prompts'[e] = prompts[e] /\ prompts[e] \in Seq(Session)
      BY <1>4, <2>2 DEF PairingTypes
    <3>2. prompts[e][i] \in Session
      BY <3>1
    <3>3. /\ prompts[e][i] = prompts[e][j] => i = j
          /\ responder[prompts[e][i]] = "asked" /\ to[prompts[e][i]] = e
      BY <3>1 DEF PromptsAreAsked
    <3>4. prompts[e][i] # s
      BY <1>1, <2>2, <3>3
    <3>5. QED
      BY <1>5, <3>1, <3>2, <3>3, <3>4
  <2>3. QED
    BY <2>1, <2>2
<1>8. ASSUME NEW r \in Session, responder'[r] = "asked"
      PROVE  \E i \in 1 .. Len(prompts'[to'[r]]) : prompts'[to'[r]][i] = r
  <2>1. r # s /\ responder[r] = "asked"
    BY <1>5, <1>6, <1>8
  <2>2. PICK i \in 1 .. Len(prompts[to[r]]) : prompts[to[r]][i] = r
    BY <2>1 DEF PromptsAreAsked
  <2>3. CASE to[r] = d
    <3>1. i # 1
      BY <1>2, <2>1, <2>2, <2>3
    <3>2. i - 1 \in 1 .. Len(prompts'[d]) /\ (i - 1) + 1 = i
      BY <1>2, <1>3, <2>2, <2>3, <3>1
    <3>3. prompts'[d][i - 1] = r
      BY <1>3, <2>2, <2>3, <3>2
    <3>4. QED
      BY <2>3, <3>2, <3>3
  <2>4. CASE to[r] # d
    <3>1. prompts'[to[r]] = prompts[to[r]]
      BY <2>4 DEF PairingTypes
    <3>2. QED
      BY <2>2, <3>1
  <2>5. QED
    BY <2>3, <2>4
<1>9. QED
  BY <1>7, <1>8 DEF PromptsAreAsked

\* The four ways a line of stdin, or its end, answers the oldest request.
LEMMA AnswerEffects ==
  ASSUME PairingTypes, PromptsAreAsked, NEW d \in Device,
         Reject(d) \/ Accept(d) \/ AcceptRaises(d) \/ InputFails(d)
  PROVE  /\ prompts[d] # <<>>
         /\ prompts' = [prompts EXCEPT ![d] = Tail(@)]
         /\ \E after \in {"accepted", "rejected", "failed"} :
              responder' = [responder EXCEPT ![Head(prompts[d])] = after]
         /\ UNCHANGED <<stored, loaded, running, from, to, mem, initiator>>
BY DEF Reject, Accept, AcceptRaises, InputFails, TypesLine

LEMMA PairingTypesStep ==
  ASSUME PairingTypes, BegunInOrder, PromptsAreAsked, [PairingNext]_pairingVars
  PROVE  PairingTypes'
<1>1. ASSUME NEW d \in Device, StartSync(d) \/ EndSync(d) \/ SaveSeen(d)
      PROVE  PairingTypes'
  <2>1. CASE StartSync(d)
    BY <2>1 DEF StartSync, PairingTypes
  <2>2. CASE EndSync(d)
    BY <2>2 DEF EndSync, PairingTypes
  <2>3. CASE SaveSeen(d)
    BY <2>3 DEF SaveSeen, PairingTypes
  <2>4. QED
    BY <1>1, <2>1, <2>2, <2>3
<1>2. ASSUME NEW d \in Device,
             Reject(d) \/ Accept(d) \/ AcceptRaises(d) \/ InputFails(d)
      PROVE  PairingTypes'
  <2> DEFINE s == Head(prompts[d])
  <2>1. /\ s \in Session /\ Tail(prompts[d]) \in Seq(Session)
        /\ prompts' = [prompts EXCEPT ![d] = Tail(@)]
        /\ \E after \in {"accepted", "rejected", "failed"} :
             responder' = [responder EXCEPT ![s] = after]
        /\ UNCHANGED <<stored, loaded, running, from, to, mem, initiator>>
    BY <1>2, AnswerEffects, HeadIsAsked
  <2>2. prompts' \in [Device -> Seq(Session)]
    BY <2>1 DEF PairingTypes
  <2>3. said' = said \/ \E answer \in {"yes", "no"} : said' = [said EXCEPT ![s] = answer]
    BY <1>2 DEF Reject, Accept, AcceptRaises, InputFails, TypesLine
  <2>4. reply' = reply \/ \E m \in {"accept", "reject"} : reply' = [reply EXCEPT ![s] = m]
    BY <1>2 DEF Reject, Accept, AcceptRaises, InputFails, Sends
  <2>5. said' \in [Session -> {"nothing", "yes", "no"}]
    BY <2>3 DEF PairingTypes
  <2>6. reply' \in [Session -> {"none", "accept", "reject"}]
    BY <2>4 DEF PairingTypes
  <2>7. responder' \in [Session -> {"none", "asked", "accepted", "paired", "unsaved",
                                   "rejected", "failed", "killed"}]
    BY <2>1 DEF PairingTypes
  <2>8. UNCHANGED <<stored, loaded, running, from, to, mem, initiator>>
    BY <2>1
  <2>9. QED
    BY <2>2, <2>5, <2>6, <2>7, <2>8 DEF PairingTypes
<1>3. ASSUME NEW s \in Session, NEW d \in Device, NEW e \in Device, Pair(s, d, e)
      PROVE  PairingTypes'
  BY <1>3 DEF Pair, PairingTypes
<1>4. ASSUME NEW s \in Session, InitiatorStores(s) \/ InitiatorFails(s) \/ AskFails(s)
      PROVE  PairingTypes'
  <2>1. initiator[s] # "none" => from[s] \in Device /\ to[s] \in Device
    BY DEF BegunInOrder
  <2>2. CASE InitiatorStores(s)
    <3>1. stored' \in [Device -> SUBSET Device] /\ mem' \in [Session -> SUBSET Device]
      BY <2>1, <2>2 DEF InitiatorStores, PairingTypes
    <3>2. QED
      BY <2>2, <3>1 DEF InitiatorStores, PairingTypes
  <2>3. CASE InitiatorFails(s)
    BY <2>3 DEF InitiatorFails, PairingTypes
  <2>4. CASE AskFails(s)
    BY <2>4 DEF AskFails, PairingTypes
  <2>5. QED
    BY <1>4, <2>2, <2>3, <2>4
<1>5. ASSUME NEW s \in Session, Ask(s)
      PROVE  PairingTypes'
  <2>1. to[s] \in Device
    BY <1>5 DEF Ask, BegunInOrder
  <2>2. Append(prompts[to[s]], s) \in Seq(Session)
    BY <2>1 DEF PairingTypes
  <2>3. QED
    BY <1>5, <2>1, <2>2 DEF Ask, PairingTypes
<1>6. ASSUME NEW s \in Session, ResponderStores(s) \/ ResponderUnsaved(s)
      PROVE  PairingTypes'
  <2>1. from[s] \in Device /\ to[s] \in Device
    BY <1>6 DEF ResponderStores, ResponderUnsaved, BegunInOrder
  <2>2. CASE ResponderStores(s)
    BY <2>1, <2>2 DEF ResponderStores, PairingTypes
  <2>3. CASE ResponderUnsaved(s)
    BY <2>1, <2>3 DEF ResponderUnsaved, PairingTypes
  <2>4. QED
    BY <1>6, <2>2, <2>3
<1>7. CASE UNCHANGED pairingVars
  BY <1>7 DEF pairingVars, PairingTypes
<1>8. QED
  BY <1>1, <1>2, <1>3, <1>4, <1>5, <1>6, <1>7 DEF PairingNext

LEMMA PromptsStep ==
  ASSUME PairingTypes, BegunInOrder, PromptsAreAsked, [PairingNext]_pairingVars
  PROVE  PromptsAreAsked'
<1>1. ASSUME UNCHANGED <<prompts, to>>,
             \A s \in Session : responder'[s] = "asked" <=> responder[s] = "asked"
      PROVE  PromptsAreAsked'
  <2>1. \A d \in Device : \A i \in 1 .. Len(prompts[d]) : prompts[d][i] \in Session
    BY DEF PairingTypes
  <2>2. QED
    BY <1>1, <2>1 DEF PromptsAreAsked
<1>2. ASSUME NEW d \in Device, StartSync(d) \/ SaveSeen(d)
      PROVE  PromptsAreAsked'
  BY <1>1, <1>2 DEF StartSync, SaveSeen
<1>3. ASSUME NEW d \in Device, EndSync(d)
      PROVE  PromptsAreAsked'
  <2>1. ASSUME NEW e \in Device, NEW i \in 1 .. Len(prompts'[e]),
               NEW j \in 1 .. Len(prompts'[e])
        PROVE  /\ prompts'[e][i] = prompts'[e][j] => i = j
               /\ responder'[prompts'[e][i]] = "asked" /\ to'[prompts'[e][i]] = e
    <3>1. e # d /\ prompts'[e] = prompts[e]
      BY <1>3, <2>1 DEF EndSync, PairingTypes
    <3>2. prompts[e][i] \in Session
      BY <3>1 DEF PairingTypes
    <3>3. /\ prompts[e][i] = prompts[e][j] => i = j
          /\ responder[prompts[e][i]] = "asked" /\ to[prompts[e][i]] = e
      BY <3>1 DEF PromptsAreAsked
    <3>4. QED
      BY <1>3, <3>1, <3>2, <3>3 DEF EndSync
  <2>2. ASSUME NEW r \in Session, responder'[r] = "asked"
        PROVE  \E i \in 1 .. Len(prompts'[to'[r]]) : prompts'[to'[r]][i] = r
    <3>1. responder[r] = "asked" /\ to[r] # d /\ to' = to
      BY <1>3, <2>2 DEF EndSync
    <3>2. to[r] \in Device
      BY <3>1 DEF BegunInOrder
    <3>3. prompts'[to[r]] = prompts[to[r]]
      BY <1>3, <3>1, <3>2 DEF EndSync, PairingTypes
    <3>4. QED
      BY <3>1, <3>3 DEF PromptsAreAsked
  <2>3. QED
    BY <2>1, <2>2 DEF PromptsAreAsked
<1>4. ASSUME NEW d \in Device,
             Reject(d) \/ Accept(d) \/ AcceptRaises(d) \/ InputFails(d)
      PROVE  PromptsAreAsked'
  <2>1. PICK after \in {"accepted", "rejected", "failed"} :
          responder' = [responder EXCEPT ![Head(prompts[d])] = after]
    BY <1>4, AnswerEffects
  <2>2. QED
    BY <1>4, <2>1, AnswerEffects, DequeuePrompts
<1>5. ASSUME NEW s \in Session, NEW d \in Device, NEW e \in Device, Pair(s, d, e)
      PROVE  PromptsAreAsked'
  <2>1. responder[s] = "none" /\ UNCHANGED <<prompts, responder>>
    BY <1>5 DEF Pair, BegunInOrder
  <2>2. \A r \in Session : r # s => to'[r] = to[r]
    BY <1>5 DEF Pair, PairingTypes
  <2>3. \A f \in Device : \A i \in 1 .. Len(prompts[f]) :
          prompts[f][i] \in Session /\ prompts[f][i] # s
    BY <2>1 DEF PairingTypes, PromptsAreAsked
  <2>4. QED
    BY <2>1, <2>2, <2>3 DEF PromptsAreAsked
<1>6. ASSUME NEW s \in Session, InitiatorStores(s) \/ InitiatorFails(s)
      PROVE  PromptsAreAsked'
  BY <1>1, <1>6 DEF InitiatorStores, InitiatorFails
<1>7. ASSUME NEW s \in Session, AskFails(s) \/ ResponderStores(s) \/ ResponderUnsaved(s)
      PROVE  PromptsAreAsked'
  <2>1. UNCHANGED <<prompts, to>> /\ responder[s] # "asked"
    BY <1>7 DEF AskFails, ResponderStores, ResponderUnsaved
  <2>2. \A r \in Session : responder'[r] = "asked" <=> responder[r] = "asked"
    BY <1>7 DEF AskFails, ResponderStores, ResponderUnsaved, PairingTypes
  <2>3. QED
    BY <1>1, <2>1, <2>2
<1>8. ASSUME NEW s \in Session, Ask(s)
      PROVE  PromptsAreAsked'
  <2> DEFINE q == prompts[to[s]]
  <2>1. to[s] \in Device /\ responder[s] = "none" /\ to' = to
    BY <1>8 DEF Ask, BegunInOrder
  <2>2. q \in Seq(Session) /\ Len(q) \in Nat
    BY <2>1 DEF PairingTypes
  <2>3. /\ prompts'[to[s]] = Append(q, s)
        /\ \A e \in Device : e # to[s] => prompts'[e] = prompts[e]
        /\ responder'[s] = "asked"
        /\ \A r \in Session : r # s => responder'[r] = responder[r]
    BY <1>8, <2>1 DEF Ask, PairingTypes
  <2>4. /\ Len(Append(q, s)) = Len(q) + 1
        /\ Append(q, s)[Len(q) + 1] = s
        /\ \A i \in 1 .. Len(q) : Append(q, s)[i] = q[i]
    BY <2>2
  <2>5. \A e \in Device : \A i \in 1 .. Len(prompts[e]) :
          /\ prompts[e][i] \in Session /\ prompts[e][i] # s
          /\ responder[prompts[e][i]] = "asked" /\ to[prompts[e][i]] = e
          /\ \A j \in 1 .. Len(prompts[e]) : prompts[e][i] = prompts[e][j] => i = j
    BY <2>1 DEF PairingTypes, PromptsAreAsked
  <2>6. ASSUME NEW e \in Device, NEW i \in 1 .. Len(prompts'[e]),
               NEW j \in 1 .. Len(prompts'[e])
        PROVE  /\ prompts'[e][i] = prompts'[e][j] => i = j
               /\ responder'[prompts'[e][i]] = "asked" /\ to'[prompts'[e][i]] = e
    <3>1. CASE e # to[s]
      BY <2>1, <2>3, <2>5, <3>1
    <3>2. CASE e = to[s]
      <4>1. prompts'[e] = Append(q, s)
        BY <2>3, <3>2
      <4>2. /\ i \in 1 .. Len(q) \/ i = Len(q) + 1
            /\ j \in 1 .. Len(q) \/ j = Len(q) + 1
        <5>1. i \in 1 .. Len(q) + 1 /\ j \in 1 .. Len(q) + 1
          BY <2>4, <4>1
        <5>2. QED
          BY <2>2, <5>1
      <4>3. \A k \in 1 .. Len(q) : /\ Append(q, s)[k] = q[k] /\ q[k] \in Session /\ q[k] # s
                                   /\ responder'[q[k]] = "asked" /\ to[q[k]] = e
        BY <2>3, <2>4, <2>5, <3>2
      <4>4. \A k, l \in 1 .. Len(q) : q[k] = q[l] => k = l
        BY <2>1, <2>5
      <4>5. Append(q, s)[i] = Append(q, s)[j] => i = j
        BY <2>4, <4>2, <4>3, <4>4
      <4>6. responder'[Append(q, s)[i]] = "asked" /\ to[Append(q, s)[i]] = e
        BY <2>3, <2>4, <3>2, <4>2, <4>3
      <4>7. QED
        BY <2>1, <4>1, <4>5, <4>6
    <3>3. QED
      BY <3>1, <3>2
  <2>7. ASSUME NEW r \in Session, responder'[r] = "asked"
        PROVE  \E i \in 1 .. Len(prompts'[to'[r]]) : prompts'[to'[r]][i] = r
    <3>1. CASE r = s
      <4>1. Len(q) + 1 \in 1 .. Len(prompts'[to[s]])
        BY <2>2, <2>3, <2>4
      <4>2. QED
        BY <2>1, <2>3, <2>4, <3>1, <4>1
    <3>2. CASE r # s
      <4>1. responder[r] = "asked"
        BY <2>3, <2>7, <3>2
      <4>2. PICK i \in 1 .. Len(prompts[to[r]]) : prompts[to[r]][i] = r
        BY <4>1 DEF PromptsAreAsked
      <4>3. to[r] \in Device
        BY <4>1 DEF BegunInOrder
      <4>4. CASE to[r] = to[s]
        <5>1. i \in 1 .. Len(prompts'[to[r]])
          BY <2>2, <2>3, <2>4, <4>2, <4>4
        <5>2. QED
          BY <2>1, <2>3, <2>4, <4>2, <4>4, <5>1
      <4>5. CASE to[r] # to[s]
        BY <2>1, <2>3, <4>2, <4>3, <4>5
      <4>6. QED
        BY <4>4, <4>5
    <3>3. QED
      BY <3>1, <3>2
  <2>8. QED
    BY <2>6, <2>7 DEF PromptsAreAsked
<1>9. CASE UNCHANGED pairingVars
  BY <1>1, <1>9 DEF pairingVars
<1>10. QED
  BY <1>2, <1>3, <1>4, <1>5, <1>6, <1>7, <1>8, <1>9 DEF PairingNext

-----------------------------------------------------------------------------
(***************************************************************************)
(* What each side knows of the other.                                      *)
(***************************************************************************)
LEMMA BegunStep ==
  ASSUME PairingTypes, BegunInOrder, PromptsAreAsked, [PairingNext]_pairingVars
  PROVE  BegunInOrder'
<1>1. ASSUME UNCHANGED <<from, to, initiator>>,
             \A s \in Session : responder[s] = "none" /\ initiator[s] = "none" =>
                                 responder'[s] = "none"
      PROVE  BegunInOrder'
  BY <1>1 DEF BegunInOrder
<1>2. ASSUME NEW d \in Device, StartSync(d) \/ SaveSeen(d)
      PROVE  BegunInOrder'
  BY <1>1, <1>2 DEF StartSync, SaveSeen
<1>3. ASSUME NEW d \in Device, EndSync(d)
      PROVE  BegunInOrder'
  <2>1. \A s \in Session : initiator[s] = "none" => to[s] # d
    BY NoDeviceAssumption DEF BegunInOrder
  <2>2. QED
    BY <1>1, <1>3, <2>1 DEF EndSync
<1>4. ASSUME NEW d \in Device,
             Reject(d) \/ Accept(d) \/ AcceptRaises(d) \/ InputFails(d)
      PROVE  BegunInOrder'
  <2>1. responder[Head(prompts[d])] = "asked"
    BY <1>4, AnswerEffects, HeadIsAsked
  <2>2. UNCHANGED <<from, to, initiator>>
    BY <1>4, AnswerEffects
  <2>3. \A s \in Session : responder[s] = "none" => responder'[s] = "none"
    BY <1>4, <2>1, AnswerEffects DEF PairingTypes
  <2>4. QED
    BY <1>1, <2>2, <2>3
<1>5. ASSUME NEW s \in Session, NEW d \in Device, NEW e \in Device, Pair(s, d, e)
      PROVE  BegunInOrder'
  BY <1>5 DEF Pair, BegunInOrder, PairingTypes
<1>6. ASSUME NEW s \in Session, InitiatorStores(s) \/ InitiatorFails(s)
      PROVE  BegunInOrder'
  <2>1. UNCHANGED <<from, to, responder>> /\ initiator[s] # "none" /\ initiator'[s] # "none"
    BY <1>6 DEF InitiatorStores, InitiatorFails, PairingTypes
  <2>2. \A r \in Session : r # s => initiator'[r] = initiator[r]
    BY <1>6 DEF InitiatorStores, InitiatorFails, PairingTypes
  <2>3. QED
    BY <2>1, <2>2 DEF BegunInOrder
<1>7. ASSUME NEW s \in Session,
             Ask(s) \/ AskFails(s) \/ ResponderStores(s) \/ ResponderUnsaved(s)
      PROVE  BegunInOrder'
  <2>1. UNCHANGED <<from, to, initiator>> /\ initiator[s] # "none"
    BY <1>7 DEF Ask, AskFails, ResponderStores, ResponderUnsaved, BegunInOrder
  <2>2. \A r \in Session : r # s => responder'[r] = responder[r]
    BY <1>7 DEF Ask, AskFails, ResponderStores, ResponderUnsaved, PairingTypes
  <2>3. QED
    BY <1>1, <2>1, <2>2
<1>8. CASE UNCHANGED pairingVars
  BY <1>1, <1>8 DEF pairingVars
<1>9. QED
  BY <1>2, <1>3, <1>4, <1>5, <1>6, <1>7, <1>8 DEF PairingNext

LEMMA AnswerStep ==
  ASSUME PairingTypes, BegunInOrder, PromptsAreAsked, AnswerFits, [PairingNext]_pairingVars
  PROVE  AnswerFits'
<1>1. ASSUME NEW d \in Device, StartSync(d) \/ SaveSeen(d)
      PROVE  AnswerFits'
  BY <1>1 DEF StartSync, SaveSeen, AnswerFits
<1>2. ASSUME NEW d \in Device, EndSync(d)
      PROVE  AnswerFits'
  BY <1>2 DEF EndSync, AnswerFits, PairingTypes
<1>3. ASSUME NEW d \in Device,
             Reject(d) \/ Accept(d) \/ AcceptRaises(d) \/ InputFails(d)
      PROVE  AnswerFits'
  <2> DEFINE s == Head(prompts[d])
  <2>1. s \in Session /\ responder[s] = "asked"
    BY <1>3, AnswerEffects, HeadIsAsked
  <2>2. reply[s] = "none" /\ said[s] = "nothing"
    BY <2>1 DEF AnswerFits
  <2>3. \A r \in Session : r # s =>
          responder'[r] = responder[r] /\ said'[r] = said[r] /\ reply'[r] = reply[r]
    BY <1>3 DEF Reject, Accept, AcceptRaises, InputFails, TypesLine, Sends, PairingTypes
  <2>4. CASE Reject(d)
    <3>1. responder'[s] = "rejected" /\ reply'[s] # "accept"
      BY <2>1, <2>2, <2>4 DEF Reject, Sends, PairingTypes
    <3>2. QED
      BY <2>3, <3>1 DEF AnswerFits
  <2>5. CASE Accept(d)
    <3>1. responder'[s] = "accepted" /\ said'[s] = "yes"
      BY <2>1, <2>5 DEF Accept, TypesLine, PairingTypes
    <3>2. QED
      BY <2>3, <3>1 DEF AnswerFits
  <2>6. CASE AcceptRaises(d) \/ InputFails(d)
    <3>1. responder'[s] = "failed" /\ reply'[s] = "none"
      BY <2>1, <2>2, <2>6 DEF AcceptRaises, InputFails, PairingTypes
    <3>2. QED
      BY <2>3, <3>1 DEF AnswerFits
  <2>7. QED
    BY <1>3, <2>4, <2>5, <2>6
<1>4. ASSUME NEW s \in Session, NEW d \in Device, NEW e \in Device, Pair(s, d, e)
      PROVE  AnswerFits'
  BY <1>4 DEF Pair, AnswerFits
<1>5. ASSUME NEW s \in Session, InitiatorStores(s) \/ InitiatorFails(s)
      PROVE  AnswerFits'
  BY <1>5 DEF InitiatorStores, InitiatorFails, AnswerFits
<1>6. ASSUME NEW s \in Session,
             Ask(s) \/ AskFails(s) \/ ResponderStores(s) \/ ResponderUnsaved(s)
      PROVE  AnswerFits'
  BY <1>6 DEF Ask, AskFails, ResponderStores, ResponderUnsaved, AnswerFits, PairingTypes
<1>7. CASE UNCHANGED pairingVars
  BY <1>7 DEF pairingVars, AnswerFits
<1>8. QED
  BY <1>1, <1>2, <1>3, <1>4, <1>5, <1>6, <1>7 DEF PairingNext

\* A "yes" once typed stays, with the devices it was about.
LEMMA ConfirmedStays ==
  ASSUME PairingTypes, BegunInOrder, PromptsAreAsked, AnswerFits, [PairingNext]_pairingVars,
         NEW d, NEW e, Confirmed(d, e)
  PROVE  Confirmed(d, e)'
<1>1. PICK s \in Session : /\ said[s] = "yes"
                           /\ \/ from[s] = d /\ to[s] = e
                              \/ from[s] = e /\ to[s] = d
  BY DEF Confirmed
<1>2. responder[s] \notin {"none", "asked"}
  BY <1>1 DEF AnswerFits
<1>3. said'[s] = said[s]
  <2>1. ASSUME NEW f \in Device, Reject(f) \/ Accept(f) \/ AcceptRaises(f)
        PROVE  said'[s] = said[s]
    <3>1. Head(prompts[f]) # s
      BY <1>2, <2>1, AnswerEffects, HeadIsAsked
    <3>2. QED
      BY <2>1, <3>1 DEF Reject, Accept, AcceptRaises, TypesLine, PairingTypes
  <2>2. QED
    BY <2>1 DEF PairingNext, pairingVars, StartSync, EndSync, SaveSeen, InputFails, Pair,
         InitiatorStores, InitiatorFails, Ask, AskFails, ResponderStores, ResponderUnsaved
<1>4. from'[s] = from[s] /\ to'[s] = to[s]
  <2>1. ASSUME NEW r \in Session, NEW f \in Device, NEW g \in Device, Pair(r, f, g)
        PROVE  from'[s] = from[s] /\ to'[s] = to[s]
    <3>1. r # s
      BY <1>2, <2>1 DEF Pair, BegunInOrder
    <3>2. QED
      BY <2>1, <3>1 DEF Pair, PairingTypes
  <2>2. QED
    BY <2>1 DEF PairingNext, pairingVars, StartSync, EndSync, SaveSeen, Reject, Accept,
         AcceptRaises, InputFails, InitiatorStores, InitiatorFails, Ask, AskFails,
         ResponderStores, ResponderUnsaved
<1>5. QED
  BY <1>1, <1>3, <1>4 DEF Confirmed

LEMMA TrustStep ==
  ASSUME PairingTypes, BegunInOrder, PromptsAreAsked, AnswerFits, TrustIsConfirmed,
         [PairingNext]_pairingVars
  PROVE  TrustIsConfirmed'
<1>1. \A d, e : Confirmed(d, e) => Confirmed(d, e)'
  BY ConfirmedStays
<1> DEFINE Known(d, e) == e \in stored[d] \cup loaded[d]
<1>2. ASSUME \A d \in Device : \A e \in stored'[d] \cup loaded'[d] :
               Known(d, e) \/ Confirmed(d, e),
             \A s \in Session : \A e \in mem'[s] :
               \/ e \in mem[s] /\ from'[s] = from[s]
               \/ from'[s] \in Device /\ (Known(from'[s], e) \/ Confirmed(from'[s], e))
      PROVE  TrustIsConfirmed'
  <2>1. ASSUME NEW d \in Device, NEW e \in stored'[d] \cup loaded'[d]
        PROVE  Confirmed(d, e)'
    <3>1. Confirmed(d, e)
      BY <1>2 DEF TrustIsConfirmed
    <3>2. QED
      BY <1>1, <3>1
  <2>2. ASSUME NEW s \in Session, NEW e \in mem'[s]
        PROVE  Confirmed(from[s], e)'
    <3>1. Confirmed(from'[s], e)
      BY <1>2 DEF TrustIsConfirmed
    <3>2. Confirmed(from'[s], e) => \E r \in Session :
            /\ said'[r] = "yes"
            /\ \/ from'[r] = from'[s] /\ to'[r] = e
               \/ from'[r] = e /\ to'[r] = from'[s]
      BY <1>1 DEF Confirmed
    <3>3. QED
      BY <3>1, <3>2 DEF Confirmed
  <2>3. QED
    BY <2>1, <2>2 DEF TrustIsConfirmed
<1>3. ASSUME NEW d \in Device, StartSync(d)
      PROVE  TrustIsConfirmed'
  BY <1>2, <1>3 DEF StartSync, PairingTypes
<1>4. ASSUME NEW d \in Device, EndSync(d)
      PROVE  TrustIsConfirmed'
  BY <1>2, <1>4 DEF EndSync, PairingTypes
<1>5. ASSUME NEW d \in Device, SaveSeen(d)
      PROVE  TrustIsConfirmed'
  BY <1>2, <1>5 DEF SaveSeen, PairingTypes
<1>6. ASSUME NEW d \in Device,
             Reject(d) \/ Accept(d) \/ AcceptRaises(d) \/ InputFails(d)
      PROVE  TrustIsConfirmed'
  <2>1. UNCHANGED <<stored, loaded, mem, from>>
    BY <1>6, AnswerEffects
  <2>2. QED
    BY <1>2, <2>1
<1>7. ASSUME NEW s \in Session, NEW d \in Device, NEW e \in Device, Pair(s, d, e)
      PROVE  TrustIsConfirmed'
  <2>1. UNCHANGED <<stored, loaded>>
    BY <1>7 DEF Pair
  <2>2. mem'[s] = stored[d] /\ from'[s] = d
    BY <1>7 DEF Pair, PairingTypes
  <2>3. \A r \in Session : r # s => mem'[r] = mem[r] /\ from'[r] = from[r]
    BY <1>7 DEF Pair, PairingTypes
  <2>4. QED
    BY <1>2, <2>1, <2>2, <2>3
<1>8. ASSUME NEW s \in Session, InitiatorStores(s)
      PROVE  TrustIsConfirmed'
  <2>1. from[s] \in Device /\ to[s] \in Device
    BY <1>8 DEF InitiatorStores, BegunInOrder
  <2>2. said[s] = "yes"
    BY <1>8 DEF InitiatorStores, AnswerFits
  <2>3. Confirmed(from[s], to[s])
    BY <2>2 DEF Confirmed
  <2>4. \A e \in mem[s] : Confirmed(from[s], e)
    BY DEF TrustIsConfirmed
  <2>5. UNCHANGED <<loaded, from>>
    BY <1>8 DEF InitiatorStores
  <2>6. /\ stored'[from[s]] = mem[s] \cup {to[s]}
        /\ \A d \in Device : d # from[s] => stored'[d] = stored[d]
    BY <1>8, <2>1 DEF InitiatorStores, PairingTypes
  <2>7. /\ mem'[s] = mem[s] \cup {to[s]}
        /\ \A r \in Session : r # s => mem'[r] = mem[r]
    BY <1>8 DEF InitiatorStores, PairingTypes
  <2>8. \A d \in Device : \A e \in stored'[d] \cup loaded'[d] : Known(d, e) \/ Confirmed(d, e)
    BY <2>3, <2>4, <2>5, <2>6
  <2>9. QED
    BY <1>2, <2>1, <2>3, <2>5, <2>7, <2>8
<1>9. ASSUME NEW s \in Session, ResponderStores(s) \/ ResponderUnsaved(s)
      PROVE  TrustIsConfirmed'
  <2>1. from[s] \in Device /\ to[s] \in Device
    BY <1>9 DEF ResponderStores, ResponderUnsaved, BegunInOrder
  <2>2. said[s] = "yes"
    BY <1>9 DEF ResponderStores, ResponderUnsaved, AnswerFits
  <2>3. Confirmed(to[s], from[s])
    BY <2>2 DEF Confirmed
  <2>4. UNCHANGED <<mem, from>>
    BY <1>9 DEF ResponderStores, ResponderUnsaved
  <2>5. /\ loaded'[to[s]] = loaded[to[s]] \cup {from[s]}
        /\ \A d \in Device : d # to[s] => loaded'[d] = loaded[d]
    BY <1>9, <2>1 DEF ResponderStores, ResponderUnsaved, PairingTypes
  <2>6. /\ stored'[to[s]] = stored[to[s]] \/ stored'[to[s]] = loaded[to[s]] \cup {from[s]}
        /\ \A d \in Device : d # to[s] => stored'[d] = stored[d]
    BY <1>9, <2>1 DEF ResponderStores, ResponderUnsaved, PairingTypes
  <2>7. \A d \in Device : \A e \in stored'[d] \cup loaded'[d] : Known(d, e) \/ Confirmed(d, e)
    BY <2>3, <2>5, <2>6
  <2>8. QED
    BY <1>2, <2>4, <2>7
<1>10. ASSUME NEW s \in Session, InitiatorFails(s) \/ Ask(s) \/ AskFails(s)
       PROVE  TrustIsConfirmed'
  BY <1>2, <1>10 DEF InitiatorFails, Ask, AskFails
<1>11. CASE UNCHANGED pairingVars
  BY <1>2, <1>11 DEF pairingVars
<1>12. QED
  BY <1>3, <1>4, <1>5, <1>6, <1>7, <1>8, <1>9, <1>10, <1>11 DEF PairingNext

LEMMA SuccessStep ==
  ASSUME PairingTypes, BegunInOrder, PromptsAreAsked, AnswerFits, SuccessIsShared,
         [PairingNext]_pairingVars
  PROVE  SuccessIsShared'
<1> DEFINE Done == {"accepted", "paired", "unsaved", "killed"}
<1>1. \A s \in Session : responder[s] \in Done => responder'[s] \in Done
  <2>1. ASSUME NEW d \in Device,
               Reject(d) \/ Accept(d) \/ AcceptRaises(d) \/ InputFails(d)
        PROVE  \A s \in Session : responder[s] \in Done => responder'[s] \in Done
    <3>1. responder[Head(prompts[d])] = "asked"
      BY <2>1, AnswerEffects, HeadIsAsked
    <3>2. QED
      BY <2>1, <3>1, AnswerEffects DEF PairingTypes
  <2>2. ASSUME NEW d \in Device, EndSync(d)
        PROVE  \A s \in Session : responder[s] \in Done => responder'[s] \in Done
    BY <2>2 DEF EndSync
  <2>3. ASSUME NEW r \in Session,
               Ask(r) \/ AskFails(r) \/ ResponderStores(r) \/ ResponderUnsaved(r)
        PROVE  \A s \in Session : responder[s] \in Done => responder'[s] \in Done
    BY <2>3 DEF Ask, AskFails, ResponderStores, ResponderUnsaved, PairingTypes
  <2>4. QED
    BY <2>1, <2>2, <2>3 DEF PairingNext, pairingVars, StartSync, SaveSeen, Pair,
         InitiatorStores, InitiatorFails
<1>2. ASSUME NEW s \in Session, initiator'[s] = "paired"
      PROVE  responder[s] \in Done
  <2>1. CASE initiator[s] = "paired"
    BY <2>1 DEF SuccessIsShared
  <2>2. CASE initiator[s] # "paired"
    <3>1. \A r \in Session : \A d, e \in Device : ~Pair(r, d, e)
      BY <1>2, <2>2 DEF Pair, PairingTypes
    <3>2. \A r \in Session : ~InitiatorFails(r)
      BY <1>2, <2>2 DEF InitiatorFails, PairingTypes
    <3>3. initiator' # initiator
      BY <1>2, <2>2
    <3>4. PICK r \in Session : InitiatorStores(r)
      BY <3>1, <3>2, <3>3 DEF PairingNext, pairingVars, StartSync, EndSync, SaveSeen, Reject,
           Accept, AcceptRaises, InputFails, Ask, AskFails, ResponderStores, ResponderUnsaved
    <3>5. r = s
      BY <1>2, <2>2, <3>4 DEF InitiatorStores, PairingTypes
    <3>6. QED
      BY <3>4, <3>5 DEF InitiatorStores, AnswerFits
  <2>3. QED
    BY <2>1, <2>2
<1>3. QED
  BY <1>1, <1>2 DEF SuccessIsShared

-----------------------------------------------------------------------------
LEMMA PairingInvHolds == PairingSpec => []PairingInv
<1>1. PairingInit => PairingInv
  BY DEF PairingInit, PairingInv, PairingTypes, BegunInOrder, PromptsAreAsked, AnswerFits,
     TrustIsConfirmed, SuccessIsShared
<1>2. ASSUME PairingInv, [PairingNext]_pairingVars
      PROVE  PairingInv'
  <2>1. /\ PairingTypes /\ BegunInOrder /\ PromptsAreAsked /\ AnswerFits
        /\ TrustIsConfirmed /\ SuccessIsShared
    BY <1>2 DEF PairingInv
  <2>2. QED
    BY <1>2, <2>1, PairingTypesStep, BegunStep, PromptsStep, AnswerStep, TrustStep,
       SuccessStep DEF PairingInv
<1>3. QED
  BY <1>1, <1>2, PTL DEF PairingSpec

\* Every reachable state of the handshake is well typed, and the requests that
\* wait for a line of stdin are those asked and not answered: killing and
\* restarting a sync leaves none behind and loses none.
THEOREM PairingTypeCorrect == PairingSpec => []PairingTypeOK
<1>1. PairingInv => PairingTypeOK
  BY DEF PairingInv, PairingTypes, PairingTypeOK
<1>2. QED
  BY <1>1, PairingInvHolds, PTL

\* _handle_pair_request and initiate_pairing, however many run at once, with
\* restarts and with saves that overlap or fail: no device is trusted anywhere
\* without a "yes" typed on one of the two devices to a request of the other.
THEOREM TrustNeedsAYes == PairingSpec => []TrustIsConfirmed
<1>1. PairingInv => TrustIsConfirmed
  BY DEF PairingInv
<1>2. QED
  BY <1>1, PairingInvHolds, PTL

\* "Paired with ..." on the initiator is never shown for a session that the
\* responder has refused, not been asked about or failed to answer.
THEOREM SuccessIsNotAlone == PairingSpec => []SuccessIsShared
<1>1. PairingInv => SuccessIsShared
  BY DEF PairingInv
<1>2. QED
  BY <1>1, PairingInvHolds, PTL

-----------------------------------------------------------------------------
(***************************************************************************)
(* The handshake implements PairingPact.                                   *)
(***************************************************************************)
LEMMA TrustedIs ==
  ASSUME NEW d
  PROVE  /\ \A e : e \in Trusted(d) <=>
              \/ e \in stored[d] \/ e \in loaded[d]
              \/ \E s \in Session : from[s] = d /\ initiator[s] = "waiting" /\ e \in mem[s]
         /\ \A e : e \in Trusted(d)' <=>
              \/ e \in stored'[d] \/ e \in loaded'[d]
              \/ \E s \in Session : from'[s] = d /\ initiator'[s] = "waiting" /\ e \in mem'[s]
BY DEF Trusted

\* Only d's trust changes, and it does not grow.
Loses(d) ==
  /\ \A x \in Device : x # d => Trusted(x)' = Trusted(x)
  /\ \A e \in Trusted(d)' : e \in Trusted(d)

\* Only d's trust changes, and it grows by e at most.
Gains(d, e) ==
  /\ \A x \in Device : x # d => Trusted(x)' = Trusted(x)
  /\ e \in Trusted(d)'
  /\ \A x \in Trusted(d)' : x \in Trusted(d) \/ x = e

LEMMA LosesKeeps ==
  ASSUME NEW d \in Device, Loses(d)
  PROVE  Pact!Keeps(d)
<1>1. Trusted(d)' \in SUBSET Trusted(d)
  BY DEF Loses
<1>2. [x \in Device |-> Trusted(x)]'
        = [[x \in Device |-> Trusted(x)] EXCEPT ![d] = Trusted(d)']
  BY DEF Loses
<1>3. QED
  BY <1>1, <1>2 DEF Pact!Keeps

LEMMA GainsTakesIn ==
  ASSUME NEW d \in Device, NEW e, Gains(d, e)
  PROVE  Pact!TakesIn(d, e)
<1> DEFINE kept == {x \in Trusted(d)' : x \in Trusted(d)}
<1>1. kept \in SUBSET Trusted(d) /\ Trusted(d)' = kept \cup {e}
  BY DEF Gains
<1>2. [x \in Device |-> Trusted(x)]'
        = [[x \in Device |-> Trusted(x)] EXCEPT ![d] = kept \cup {e}]
  BY <1>1 DEF Gains
<1> HIDE DEF kept
<1>3. QED
  BY <1>1, <1>2 DEF Pact!TakesIn

\* No copy of any dictionary changes that is still of use.
LEMMA SameTrust ==
  ASSUME UNCHANGED <<stored, loaded, from, initiator, mem>>
  PROVE  [d \in Device |-> Trusted(d)]' = [d \in Device |-> Trusted(d)]
<1>1. \A d : Trusted(d)' = Trusted(d)
  BY DEF Trusted
<1>2. QED
  BY <1>1

LEMMA SameAnswers ==
  ASSUME UNCHANGED <<responder, said>>
  PROVE  /\ [s \in Session |-> Answer(s)]' = [s \in Session |-> Answer(s)]
         /\ {s \in Session : responder[s] = "accepted"}'
              = {s \in Session : responder[s] = "accepted"}
BY DEF Answer

\* The end or the start of a sync, or a save of what it has in memory.
LEMMA PactOfSync ==
  ASSUME PairingInv, NEW d \in Device, StartSync(d) \/ EndSync(d) \/ SaveSeen(d)
  PROVE  Pact!Forgets(d) \/ Pact!Leaves(d)
<1>1. PairingTypes /\ AnswerFits
  BY DEF PairingInv
<1>2. UNCHANGED <<from, to, initiator, mem>>
  BY DEF StartSync, EndSync, SaveSeen
<1>3. \A x \in Device : /\ x # d => stored'[x] = stored[x] /\ loaded'[x] = loaded[x]
                        /\ stored'[d] \subseteq stored[d] \cup loaded[d]
                        /\ loaded'[d] \subseteq stored[d] \cup loaded[d]
  BY <1>1 DEF StartSync, EndSync, SaveSeen, PairingTypes
<1>4. Loses(d)
  <2>1. \A x \in Device : x # d => Trusted(x)' = Trusted(x)
    BY <1>2, <1>3 DEF Trusted
  <2>2. \A e \in Trusted(d)' : e \in Trusted(d)
    BY <1>2, <1>3, TrustedIs
  <2>3. QED
    BY <2>1, <2>2 DEF Loses
<1>5. Pact!Keeps(d)
  BY <1>4, LosesKeeps
<1>6. CASE StartSync(d) \/ SaveSeen(d)
  <2>1. UNCHANGED <<responder, said>>
    BY <1>6 DEF StartSync, SaveSeen
  <2>2. QED
    BY <1>2, <1>5, <2>1, SameAnswers DEF Pact!Forgets
<1>7. CASE EndSync(d)
  <2>1. /\ said' = said
        /\ \A s \in Session :
             responder'[s] = IF to[s] = d /\ responder[s] \in {"none", "asked", "accepted"}
                             THEN "killed" ELSE responder[s]
    BY <1>7 DEF EndSync
  <2>2. ASSUME NEW s \in Session
        PROVE  Answer(s)' = IF to[s] = d /\ Answer(s) = "none" THEN "no" ELSE Answer(s)
    BY <1>1, <2>1 DEF Answer, AnswerFits
  <2>3. [s \in Session |-> Answer(s)]'
          = [s \in Session |-> IF to[s] = d /\ [r \in Session |-> Answer(r)][s] = "none"
                               THEN "no" ELSE [r \in Session |-> Answer(r)][s]]
    BY <2>2
  <2>4. {s \in Session : responder[s] = "accepted"}'
          = {s \in {r \in Session : responder[r] = "accepted"} : to[s] # d}
    BY <2>1
  <2>5. QED
    BY <1>2, <1>5, <2>3, <2>4 DEF Pact!Leaves
<1>8. QED
  BY <1>6, <1>7

\* A session that has not been answered is, and nothing else happens.
LEMMA AnswerIsRefusal ==
  ASSUME PairingInv, NEW s \in Session, initiator[s] # "none",
         responder[s] \in {"none", "asked"},
         responder' = [responder EXCEPT ![s] = "rejected"]
           \/ responder' = [responder EXCEPT ![s] = "failed"],
         \A r \in Session : r # s => said'[r] = said[r],
         UNCHANGED <<stored, loaded, from, to, mem, initiator>>
  PROVE  Pact!Refuse(s)
<1>1. PairingTypes /\ BegunInOrder
  BY DEF PairingInv
<1>2. from[s] # NoDevice
  BY <1>1, NoDeviceAssumption DEF BegunInOrder
<1>3. /\ responder'[s] \in {"rejected", "failed"}
      /\ \A r \in Session : r # s => responder'[r] = responder[r]
  BY <1>1 DEF PairingTypes
<1>4. /\ Answer(s) = "none" /\ Answer(s)' = "no"
      /\ \A r \in Session : r # s => Answer(r)' = Answer(r)
  BY <1>3 DEF Answer
<1>5. [r \in Session |-> Answer(r)]' = [[r \in Session |-> Answer(r)] EXCEPT ![s] = "no"]
  BY <1>4
<1>6. {r \in Session : responder[r] = "accepted"}' = {r \in Session : responder[r] = "accepted"}
  BY <1>3
<1>7. QED
  BY <1>2, <1>4, <1>5, <1>6, SameTrust DEF Pact!Refuse

\* A line is typed, or input() fails.
LEMMA PactOfLine ==
  ASSUME PairingInv, NEW d \in Device, Reject(d) \/ Accept(d) \/ AcceptRaises(d) \/ InputFails(d)
  PROVE  \E s \in Session : Pact!Refuse(s) \/ Pact!Agree(s)
<1>1. PairingTypes /\ BegunInOrder /\ PromptsAreAsked
  BY DEF PairingInv
<1>2. PICK s \in Session : s = Head(prompts[d]) /\ responder[s] = "asked"
  BY <1>1, AnswerEffects, HeadIsAsked
<1>3. UNCHANGED <<stored, loaded, from, to, mem, initiator>>
  BY <1>1, AnswerEffects
<1>4. said' = said \/ \E answer \in {"yes", "no"} : said' = [said EXCEPT ![s] = answer]
  BY <1>2 DEF Reject, Accept, AcceptRaises, InputFails, TypesLine
<1>5. initiator[s] # "none"
  BY <1>1, <1>2 DEF BegunInOrder
<1>6. CASE Reject(d) \/ AcceptRaises(d) \/ InputFails(d)
  <2>1. \/ responder' = [responder EXCEPT ![s] = "rejected"]
        \/ responder' = [responder EXCEPT ![s] = "failed"]
    BY <1>2, <1>6 DEF Reject, AcceptRaises, InputFails
  <2>2. \A r \in Session : r # s => said'[r] = said[r]
    BY <1>1, <1>4 DEF PairingTypes
  <2>3. QED
    BY <1>2, <1>3, <1>5, <2>1, <2>2, AnswerIsRefusal
<1>7. CASE Accept(d)
  <2>1. responder' = [responder EXCEPT ![s] = "accepted"] /\ said' = [said EXCEPT ![s] = "yes"]
    BY <1>2, <1>7 DEF Accept, TypesLine
  <2>2. /\ responder'[s] = "accepted"
        /\ \A r \in Session : r # s => responder'[r] = responder[r] /\ said'[r] = said[r]
    BY <1>1, <1>2, <2>1 DEF PairingTypes
  <2>3. /\ Answer(s) = "none" /\ Answer(s)' = "yes"
        /\ \A r \in Session : r # s => Answer(r)' = Answer(r)
    BY <1>2, <2>2 DEF Answer
  <2>4. [r \in Session |-> Answer(r)]' = [[r \in Session |-> Answer(r)] EXCEPT ![s] = "yes"]
    BY <2>3
  <2>5. {r \in Session : responder[r] = "accepted"}'
          = {r \in Session : responder[r] = "accepted"} \cup {s}
    BY <1>2, <2>2
  <2>6. from[s] # NoDevice
    BY <1>1, <1>2, <1>5, NoDeviceAssumption DEF BegunInOrder
  <2>7. QED
    BY <1>2, <1>3, <2>3, <2>4, <2>5, <2>6, SameTrust DEF Pact!Agree
<1>8. QED
  BY <1>6, <1>7

\* `ghostsync pair' begins.
LEMMA PactOfPair ==
  ASSUME PairingInv, NEW s \in Session, NEW d \in Device, NEW e \in Device, Pair(s, d, e)
  PROVE  Pact!Request(s, d, e)
<1>1. PairingTypes /\ BegunInOrder
  BY DEF PairingInv
<1>2. /\ from[s] = NoDevice /\ d # e /\ d # NoDevice
      /\ from'[s] = d /\ initiator'[s] = "waiting" /\ initiator[s] = "none" /\ mem'[s] = stored[d]
      /\ \A r \in Session : r # s =>
           from'[r] = from[r] /\ initiator'[r] = initiator[r] /\ mem'[r] = mem[r]
      /\ UNCHANGED <<stored, loaded, responder, said>>
  BY <1>1, NoDeviceAssumption DEF Pair, PairingTypes, BegunInOrder
<1>3. ASSUME NEW x \in Device
      PROVE  Trusted(x)' = Trusted(x)
  <2>1. \A y \in Trusted(x)' : y \in Trusted(x)
    BY <1>2, TrustedIs
  <2>2. \A y \in Trusted(x) : y \in Trusted(x)'
    BY <1>2, TrustedIs
  <2>3. QED
    BY <2>1, <2>2
<1>4. [x \in Device |-> Trusted(x)]' = [x \in Device |-> Trusted(x)]
  BY <1>3
<1>5. {r \in Session : initiator[r] = "waiting"}'
        = {r \in Session : initiator[r] = "waiting"} \cup {s}
  BY <1>2
<1>6. from' = [from EXCEPT ![s] = d] /\ to' = [to EXCEPT ![s] = e]
  BY DEF Pair
<1>7. QED
  BY <1>2, <1>4, <1>5, <1>6, SameAnswers DEF Pact!Request

\* `ghostsync pair' ends, with the peer stored or not.
LEMMA PactOfInitiator ==
  ASSUME PairingInv, NEW s \in Session, InitiatorStores(s) \/ InitiatorFails(s)
  PROVE  Pact!InitiatorTakes(s) \/ Pact!GivesUp(s)
<1>1. PairingTypes /\ BegunInOrder /\ AnswerFits
  BY DEF PairingInv
<1>2. /\ initiator[s] = "waiting" /\ UNCHANGED <<loaded, from, to, responder, said>>
      /\ initiator'[s] # "waiting"
      /\ \A r \in Session : r # s => initiator'[r] = initiator[r] /\ mem'[r] = mem[r]
  BY <1>1 DEF InitiatorStores, InitiatorFails, PairingTypes
<1>3. from[s] \in Device /\ to[s] \in Device
  BY <1>1, <1>2 DEF BegunInOrder
<1>4. PICK d \in Device : d = from[s]
  BY <1>3
<1>5. PICK e \in Device : e = to[s]
  BY <1>3
<1>6. {r \in Session : initiator[r] = "waiting"}'
        = {r \in Session : initiator[r] = "waiting"} \ {s}
  BY <1>2
<1>7. CASE InitiatorStores(s)
  <2>1. /\ stored'[d] = mem[s] \cup {e}
        /\ \A x \in Device : x # d => stored'[x] = stored[x]
    BY <1>1, <1>4, <1>5, <1>7 DEF InitiatorStores, PairingTypes
  <2>2. \A x \in Device : x # d => Trusted(x)' = Trusted(x)
    <3>1. ASSUME NEW x \in Device, x # d
          PROVE  Trusted(x)' = Trusted(x)
      <4>1. \A y \in Trusted(x)' : y \in Trusted(x)
        BY <1>2, <1>4, <2>1, <3>1, TrustedIs
      <4>2. \A y \in Trusted(x) : y \in Trusted(x)'
        BY <1>2, <1>4, <2>1, <3>1, TrustedIs
      <4>3. QED
        BY <4>1, <4>2
    <3>2. QED
      BY <3>1
  <2>3. e \in Trusted(d)'
    BY <2>1, TrustedIs
  <2>4. \A x \in Trusted(d)' : x \in Trusted(d) \/ x = e
    BY <1>2, <1>4, <2>1, TrustedIs
  <2>5. Pact!TakesIn(d, e)
    BY <2>2, <2>3, <2>4, GainsTakesIn DEF Gains
  <2>6. Answer(s) = "yes"
    BY <1>1, <1>7 DEF InitiatorStores, AnswerFits, Answer
  <2>7. QED
    BY <1>2, <1>4, <1>5, <1>6, <2>5, <2>6, SameAnswers DEF Pact!InitiatorTakes
<1>8. CASE InitiatorFails(s)
  <2>1. UNCHANGED <<stored, mem>>
    BY <1>8 DEF InitiatorFails
  <2>2. ASSUME NEW x \in Device, x # d
        PROVE  Trusted(x)' = Trusted(x)
    <3>1. \A y \in Trusted(x)' : y \in Trusted(x)
      BY <1>2, <1>4, <2>1, <2>2, TrustedIs
    <3>2. \A y \in Trusted(x) : y \in Trusted(x)'
      BY <1>2, <1>4, <2>1, <2>2, TrustedIs
    <3>3. QED
      BY <3>1, <3>2
  <2>3. \A x \in Trusted(d)' : x \in Trusted(d)
    BY <1>2, <2>1, TrustedIs
  <2>4. Pact!Keeps(d)
    BY <2>2, <2>3, LosesKeeps DEF Loses
  <2>5. QED
    BY <1>2, <1>4, <1>6, <2>4, SameAnswers DEF Pact!GivesUp
<1>9. QED
  BY <1>7, <1>8

\* The responder's add_device, saved or not.
LEMMA PactOfResponder ==
  ASSUME PairingInv, NEW s \in Session, ResponderStores(s) \/ ResponderUnsaved(s)
  PROVE  Pact!ResponderTakes(s)
<1>1. PairingTypes /\ BegunInOrder
  BY DEF PairingInv
<1>2. /\ responder[s] = "accepted" /\ UNCHANGED <<from, to, mem, initiator, said>>
      /\ responder'[s] \in {"paired", "unsaved"}
      /\ \A r \in Session : r # s => responder'[r] = responder[r]
  BY <1>1 DEF ResponderStores, ResponderUnsaved, PairingTypes
<1>3. from[s] \in Device /\ to[s] \in Device
  BY <1>1, <1>2 DEF BegunInOrder
<1>4. PICK d \in Device : d = to[s]
  BY <1>3
<1>5. PICK e \in Device : e = from[s]
  BY <1>3
<1>6. /\ loaded'[d] = loaded[d] \cup {e}
      /\ stored'[d] = stored[d] \/ stored'[d] = loaded[d] \cup {e}
      /\ \A x \in Device : x # d => stored'[x] = stored[x] /\ loaded'[x] = loaded[x]
  BY <1>1, <1>4, <1>5 DEF ResponderStores, ResponderUnsaved, PairingTypes
<1>7. \A x \in Device : x # d => Trusted(x)' = Trusted(x)
  BY <1>2, <1>6 DEF Trusted
<1>8. e \in Trusted(d)' /\ \A x \in Trusted(d)' : x \in Trusted(d) \/ x = e
  BY <1>2, <1>6, TrustedIs
<1>9. Pact!TakesIn(d, e)
  BY <1>7, <1>8, GainsTakesIn DEF Gains
<1>10. \A r \in Session : Answer(r)' = Answer(r)
  BY <1>2 DEF Answer
<1>11. [r \in Session |-> Answer(r)]' = [r \in Session |-> Answer(r)]
  BY <1>10
<1>12. {r \in Session : responder[r] = "accepted"}'
         = {r \in Session : responder[r] = "accepted"} \ {s}
  BY <1>2
<1>13. QED
  BY <1>2, <1>4, <1>5, <1>9, <1>11, <1>12 DEF Pact!ResponderTakes

\* HELLO comes, which the pact does not see, or does not come.
LEMMA PactOfHello ==
  ASSUME PairingInv, NEW s \in Session, Ask(s) \/ AskFails(s)
  PROVE  Pact!Refuse(s) \/ UNCHANGED Pact!pactVars
<1>1. PairingTypes
  BY DEF PairingInv
<1>2. CASE Ask(s)
  <2>1. /\ responder[s] = "none" /\ responder'[s] = "asked"
        /\ \A r \in Session : r # s => responder'[r] = responder[r]
        /\ UNCHANGED <<stored, loaded, from, to, mem, initiator, said>>
    BY <1>1, <1>2 DEF Ask, PairingTypes
  <2>2. \A r \in Session : Answer(r)' = Answer(r)
    BY <2>1 DEF Answer
  <2>3. [r \in Session |-> Answer(r)]' = [r \in Session |-> Answer(r)]
    BY <2>2
  <2>4. {r \in Session : responder[r] = "accepted"}' = {r \in Session : responder[r] = "accepted"}
    BY <2>1
  <2>5. QED
    BY <2>1, <2>3, <2>4, SameTrust DEF Pact!pactVars
<1>3. CASE AskFails(s)
  BY <1>3, AnswerIsRefusal DEF AskFails
<1>4. QED
  BY <1>2, <1>3

\* The handshake with its messages, timeouts, prompts, restarts and saves that
\* overlap or fail, on any number of devices: each session is answered once,
\* either side stores the other only after a yes, once, while it is entitled to,
\* and a trust that no file and no process has any more does not come back.
THEOREM PairingImplementsPact == PairingSpec => ImplementsPact
<1>1. PairingInit => Pact!PactInit
  BY DEF PairingInit, Pact!PactInit, Answer, Trusted
<1>2. ASSUME PairingInv, [PairingNext]_pairingVars
      PROVE  [Pact!PactNext]_Pact!pactVars
  <2>1. CASE UNCHANGED pairingVars
    <3>1. UNCHANGED <<stored, loaded, from, to, mem, initiator, responder, said>>
      BY <2>1 DEF pairingVars
    <3>2. QED
      BY <3>1, SameTrust, SameAnswers DEF Pact!pactVars
  <2>2. ASSUME NEW d \in Device, StartSync(d) \/ EndSync(d) \/ SaveSeen(d)
        PROVE  Pact!PactNext
    BY <1>2, <2>2, PactOfSync DEF Pact!PactNext
  <2>3. ASSUME NEW d \in Device, Reject(d) \/ Accept(d) \/ AcceptRaises(d) \/ InputFails(d)
        PROVE  Pact!PactNext
    BY <1>2, <2>3, PactOfLine DEF Pact!PactNext
  <2>4. ASSUME NEW s \in Session, NEW d \in Device, NEW e \in Device, Pair(s, d, e)
        PROVE  Pact!PactNext
    BY <1>2, <2>4, PactOfPair DEF Pact!PactNext
  <2>5. ASSUME NEW s \in Session, InitiatorStores(s) \/ InitiatorFails(s)
        PROVE  Pact!PactNext
    BY <1>2, <2>5, PactOfInitiator DEF Pact!PactNext
  <2>6. ASSUME NEW s \in Session, ResponderStores(s) \/ ResponderUnsaved(s)
        PROVE  Pact!PactNext
    BY <1>2, <2>6, PactOfResponder DEF Pact!PactNext
  <2>7. ASSUME NEW s \in Session, Ask(s) \/ AskFails(s)
        PROVE  [Pact!PactNext]_Pact!pactVars
    BY <1>2, <2>7, PactOfHello DEF Pact!PactNext
  <2>8. QED
    BY <1>2, <2>1, <2>2, <2>3, <2>4, <2>5, <2>6, <2>7 DEF PairingNext
<1>3. QED
  BY <1>1, <1>2, PairingInvHolds, PTL DEF PairingSpec, ImplementsPact, Pact!PactSpec
==============================================================================
