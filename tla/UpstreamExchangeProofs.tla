----------------------- MODULE UpstreamExchangeProofs -----------------------
(* Proofs about UpstreamExchange, for any number of calls, questions, IDs  *)
(* and slots.                                                              *)
EXTENDS UpstreamExchange, TLAPS

(* What was sent, and what was accepted as an answer, is the request of a  *)
(* call that has started, on the slot that call was given.                 *)
RequestsAreReal ==
  /\ \A s \in Slot : \A r \in asked[s] :
       /\ call[r.call].pc # "idle" /\ SlotOf(r.call) = s
       /\ call[r.call].id = r.id /\ call[r.call].question = r.question
  /\ \A c \in Call : \A r \in call[c].answer :
       /\ call[c].pc = "answered"
       /\ call[r.call].pc # "idle" /\ SlotOf(r.call) = SlotOf(c)
       /\ call[r.call].id = r.id /\ r.id = call[c].id
       /\ r.question = call[c].question

IInv == TypeOK /\ SlotsAreReturned /\ RequestsAreReal

LEMMA SlotArithmetic ==
  /\ 0 \in Slot
  /\ \A s \in Slot : (s + 1) % Slots \in Slot
  BY SlotsAssumption, SMT DEF Slot

(* Whoever leaves, the holders keep their type.                            *)
LEMMA LeaveType ==
  ASSUME TypeOK, NEW c \in Call, Leave(c)
  PROVE  holder' \in [Slot -> Call \cup {NoCall}]
  BY DEF TypeOK, Leave

(* A call that ends, answered or not, keeps its type.                      *)
LEMMA EndType ==
  ASSUME TypeOK, NEW c \in Call, NEW pc \in Pc, NEW answer \in SUBSET Request
  PROVE  /\ [call EXCEPT ![c].pc = pc] \in [Call -> CallState]
         /\ [call EXCEPT ![c].pc = pc, ![c].answer = answer] \in [Call -> CallState]
<1>1. call[c] \in CallState
  BY DEF TypeOK
<1>2. /\ [call[c] EXCEPT !.pc = pc] \in CallState
      /\ [[call[c] EXCEPT !.pc = pc] EXCEPT !.answer = answer] \in CallState
  BY <1>1 DEF CallState
<1> QED
  BY <1>1, <1>2 DEF TypeOK

(* The initial state has its type, no slot is held and nothing was sent.   *)
LEMMA InitInv == Init => IInv
<1> SUFFICES ASSUME Init PROVE IInv
  OBVIOUS
<1>1. /\ (CHOOSE x \in Id : TRUE) \in Id
      /\ (CHOOSE x \in Question : TRUE) \in Question
  BY ConstantsAssumption
<1>2. TypeOK
  BY <1>1, SlotArithmetic DEF Init, TypeOK, CallState, Pc
<1>3. SlotsAreReturned
  BY ConstantsAssumption DEF Init, SlotsAreReturned, SlotOf
<1>4. RequestsAreReal
  BY DEF Init, RequestsAreReal
<1> QED
  BY <1>2, <1>3, <1>4 DEF IInv

(* Every step of every call preserves the invariant.                       *)
LEMMA NextInv == IInv /\ [Next]_vars => IInv'
<1> SUFFICES ASSUME IInv, [Next]_vars PROVE IInv'
  OBVIOUS
<1> USE DEF IInv
<1> USE DEF TypeOK, CallState, Pc, At, SlotOf
<1>1. ASSUME NEW c \in Call, NEW question \in Question, NEW tcp \in BOOLEAN,
             NEW id \in Id, Start(c, question, tcp, id)
      PROVE  IInv'
  <2> USE DEF Start
  <2>1. TypeOK'
    BY <1>1, SlotArithmetic
  <2>2. SlotsAreReturned'
    BY <1>1 DEF SlotsAreReturned
  <2>3. RequestsAreReal'
    BY <1>1 DEF RequestsAreReal, Request
  <2> QED
    BY <2>1, <2>2, <2>3
<1>2. ASSUME NEW c \in Call, Send(c)
      PROVE  IInv'
  <2> USE DEF Send
  <2>1. RequestOf(c) \in Request
    BY <1>2 DEF RequestOf, Request
  <2>2. TypeOK'
    BY <1>2, <2>1
  <2>3. SlotsAreReturned'
    BY <1>2, ConstantsAssumption DEF SlotsAreReturned
  <2>4. RequestsAreReal'
    BY <1>2 DEF RequestsAreReal, RequestOf, Request
  <2> QED
    BY <2>2, <2>3, <2>4
<1>3. ASSUME NEW c \in Call, SocketError(c)
      PROVE  IInv'
  <2> USE DEF SocketError
  <2>1. TypeOK'
    BY <1>3 DEF Leave
  <2>2. SlotsAreReturned'
    BY <1>3, ConstantsAssumption DEF SlotsAreReturned, Leave
  <2>3. RequestsAreReal'
    BY <1>3 DEF RequestsAreReal, Request
  <2> QED
    BY <2>1, <2>2, <2>3
<1>4. ASSUME NEW c \in Call, NEW r \in Request, NEW again \in BOOLEAN,
             Receive(c, r, again)
      PROVE  IInv'
  <2>1. /\ asked' \in [Slot -> SUBSET Request]
        /\ \A s \in Slot : asked'[s] \subseteq asked[s]
        /\ next' = next /\ At(c, "receiving") /\ r \in asked[SlotOf(c)]
    BY <1>4 DEF Receive
  <2>2. CASE UNCHANGED <<call, holder>>
    BY <2>1, <2>2 DEF SlotsAreReturned, RequestsAreReal, Request
  <2>3. CASE /\ ValidResponse(c, r)
             /\ call' = [call EXCEPT ![c].pc = "answered", ![c].answer = {r}]
             /\ Leave(c)
    <3>1. TypeOK'
      <4>1. call' \in [Call -> CallState]
        <5>1. "answered" \in Pc /\ {r} \in SUBSET Request
          OBVIOUS
        <5> QED
          BY <2>3, <5>1, EndType
      <4>2. holder' \in [Slot -> Call \cup {NoCall}]
        BY <2>3, LeaveType
      <4> HIDE DEF CallState, Pc
      <4> QED
        BY <2>1, <4>1, <4>2
    <3>2. SlotsAreReturned'
      BY <2>1, <2>3, ConstantsAssumption DEF SlotsAreReturned, Leave
    <3>3. RequestsAreReal'
      BY <2>1, <2>3 DEF RequestsAreReal, Request, ValidResponse
    <3> QED
      BY <3>1, <3>2, <3>3
  <2>4. CASE /\ call' = [call EXCEPT ![c].pc = "tcp"]
             /\ UNCHANGED holder
    <3>1. TypeOK'
      BY <2>1, <2>4
    <3>2. SlotsAreReturned'
      BY <2>1, <2>4 DEF SlotsAreReturned
    <3>3. RequestsAreReal'
      BY <2>1, <2>4 DEF RequestsAreReal, Request
    <3> QED
      BY <3>1, <3>2, <3>3
  <2> QED
    BY <1>4, <2>2, <2>3, <2>4 DEF Receive
<1>5. ASSUME NEW c \in Call, TcpAnswer(c)
      PROVE  IInv'
  <2> USE DEF TcpAnswer
  <2>1. RequestOf(c) \in Request
    BY <1>5 DEF RequestOf, Request
  <2>2. TypeOK'
    <3>1. call' \in [Call -> CallState]
      <4>1. "answered" \in Pc /\ {RequestOf(c)} \in SUBSET Request
        BY <2>1
      <4> QED
        BY <1>5, <4>1, EndType
    <3>2. holder' \in [Slot -> Call \cup {NoCall}]
      BY <1>5, LeaveType
    <3> HIDE DEF CallState, Pc
    <3> QED
      BY <1>5, <3>1, <3>2
  <2>3. SlotsAreReturned'
    BY <1>5, ConstantsAssumption DEF SlotsAreReturned, Leave
  <2>4. RequestsAreReal'
    BY <1>5 DEF RequestsAreReal, RequestOf, Request
  <2> QED
    BY <2>2, <2>3, <2>4
<1>6. ASSUME NEW c \in Call, TcpError(c) \/ Timeout(c)
      PROVE  IInv'
  <2> USE DEF TcpError, Timeout, Pending
  <2>1. TypeOK'
    BY <1>6 DEF Leave
  <2>2. SlotsAreReturned'
    BY <1>6, ConstantsAssumption DEF SlotsAreReturned, Leave
  <2>3. RequestsAreReal'
    BY <1>6 DEF RequestsAreReal, Request
  <2> QED
    BY <2>1, <2>2, <2>3
<1>7. CASE UNCHANGED vars
  BY <1>7 DEF vars, SlotsAreReturned, RequestsAreReal
<1> QED
  BY <1>1, <1>2, <1>3, <1>4, <1>5, <1>6, <1>7 DEF Next

THEOREM Invariance == Spec => []IInv
  BY InitInv, NextInv, PTL DEF Spec

(* Every variable keeps its type.                                          *)
THEOREM TypeCorrect == Spec => []TypeOK
<1>1. IInv => TypeOK
  BY DEF IInv
<1> QED
  BY <1>1, Invariance, PTL

(* A call that ended, in whatever way, left its slot; a call that uses a   *)
(* socket holds the slot: the pool of exchange() cannot silt up.           *)
THEOREM SlotsReturned == Spec => []SlotsAreReturned
<1>1. IInv => SlotsAreReturned
  BY DEF IInv
<1> QED
  BY <1>1, Invariance, PTL

(* Two calls never use one socket at the same time.                        *)
THEOREM ExclusiveSockets == Spec => []OneReceiverPerSlot
<1>1. IInv => OneReceiverPerSlot
  BY DEF IInv, TypeOK, CallState, SlotsAreReturned, OneReceiverPerSlot, SlotOf
<1> QED
  BY <1>1, Invariance, PTL

(* No caller is handed the answer to another question.                     *)
THEOREM OwnQuestion == Spec => []AnswersOwnQuestion
<1>1. IInv => AnswersOwnQuestion
  BY DEF IInv, RequestsAreReal, AnswersOwnQuestion
<1> QED
  BY <1>1, Invariance, PTL

(* Somebody else's answer is accepted only after a collision of random IDs *)
(* of two requests sent through the same slot.                             *)
THEOREM ForeignAnswers == Spec => []ForeignAnswerNeedsCollision
<1>1. IInv => ForeignAnswerNeedsCollision
  BY DEF IInv, RequestsAreReal, ForeignAnswerNeedsCollision
<1> QED
  BY <1>1, Invariance, PTL
=============================================================================
