-------------------------- MODULE UpstreamExchange --------------------------
(***************************************************************************)
(* exchange() of crates/daemon/src/proxy.rs: concurrent callers share a    *)
(* pool of UDP sockets connected to one upstream.  A caller takes the slot *)
(* the round-robin counter names, waits for the slot's mutex, sends under  *)
(* a fresh random ID and receives until an answer is valid for its query.  *)
(* process() drops the whole call after 10 s, at whatever await it has     *)
(* reached, and the socket stays open for the next caller: the answers to  *)
(* abandoned requests arrive there.                                        *)
(***************************************************************************)
EXTENDS Naturals

CONSTANTS
  Call,         \* identities of the calls of exchange()
  NoCall,       \* nobody holds the mutex
  Question,     \* query name, type and class
  Id,           \* message IDs: few, so that random draws collide
  Slots         \* size of the pool (32 in the code)

ASSUME SlotsAssumption == Slots \in Nat \ {0}
ASSUME ConstantsAssumption == Question # {} /\ Id # {} /\ NoCall \notin Call

Slot == 0..(Slots - 1)
Request == [id : Id, question : Question, call : Call]

VARIABLES
  next,         \* AddressPool.next modulo the pool size
  holder,       \* [Slot -> Call or none]: who has the slot's mutex
  asked,        \* [Slot -> SUBSET Request]: sent through the slot's present
                \* socket, so that an answer may still arrive there
  call          \* locals of each call

vars == <<next, holder, asked, call>>

Pc == {"idle", "waiting", "receiving", "tcp", "answered", "failed", "timedout"}
Pending == {"waiting", "receiving", "tcp"}

CallState ==
  [pc : Pc, id : Id, question : Question, tcp : BOOLEAN, slot : Slot,
   answer : SUBSET Request]        \* the request the returned answer is for

TypeOK ==
  /\ next \in Slot
  /\ holder \in [Slot -> Call \cup {NoCall}]
  /\ asked \in [Slot -> SUBSET Request]
  /\ call \in [Call -> CallState]

Init ==
  /\ next = 0
  /\ holder = [s \in Slot |-> NoCall]
  /\ asked = [s \in Slot |-> {}]
  /\ call = [c \in Call |->
               [pc |-> "idle", id |-> CHOOSE x \in Id : TRUE,
                question |-> CHOOSE x \in Question : TRUE, tcp |-> FALSE,
                slot |-> 0, answer |-> {}]]

At(c, pc) == call[c].pc = pc
SlotOf(c) == call[c].slot
RequestOf(c) == [id |-> call[c].id, question |-> call[c].question, call |-> c]

(* The mutex guard, if the call has it, is dropped. *)
Leave(c) ==
  holder' = [s \in Slot |-> IF holder[s] = c THEN NoCall ELSE holder[s]]

(* dns::valid_response: same ID, same question. *)
ValidIdOnly(c, r) == r.id = call[c].id                      \* seeded defect
ValidResponse(c, r) == r.id = call[c].id /\ r.question = call[c].question

----------------------------------------------------------------------------
(* The query gets a random ID; the slot is the counter's next value.       *)
Start(c, question, tcp, id) ==
  /\ At(c, "idle")
  /\ call' = [call EXCEPT ![c] = [@ EXCEPT !.pc = "waiting", !.id = id,
                                           !.question = question,
                                           !.tcp = tcp, !.slot = next]]
  /\ next' = (next + 1) % Slots
  /\ UNCHANGED <<holder, asked>>

(* The mutex is acquired, a socket is bound if the slot has none, and the  *)
(* request is sent.  Which waiter is next is left open.                    *)
Send(c) ==
  /\ At(c, "waiting") /\ holder[SlotOf(c)] = NoCall
  /\ holder' = [holder EXCEPT ![SlotOf(c)] = c]
  /\ asked' = [asked EXCEPT ![SlotOf(c)] = @ \cup {RequestOf(c)}]
  /\ call' = [call EXCEPT ![c].pc = "receiving"]
  /\ UNCHANGED next

(* Binding, sending or receiving fails: the socket, if any, is discarded,  *)
(* and what was asked through it can no longer be answered.                *)
SocketError(c) ==
  /\ \/ At(c, "waiting") /\ holder[SlotOf(c)] = NoCall
     \/ At(c, "receiving")
  /\ asked' = [asked EXCEPT ![SlotOf(c)] = {}]
  /\ call' = [call EXCEPT ![c].pc = "failed"]
  /\ Leave(c)
  /\ UNCHANGED next

(* The answer to request r reaches the socket.  It may be a duplicate, and *)
(* another copy may follow; an answer that is not valid is skipped.        *)
Receive(c, r, again) ==
  /\ At(c, "receiving")
  /\ r \in asked[SlotOf(c)]
  /\ asked' = IF again THEN asked
              ELSE [asked EXCEPT ![SlotOf(c)] = @ \ {r}]
  /\ \/ /\ ~ValidResponse(c, r)
        /\ UNCHANGED <<call, holder>>
     \/ /\ ValidResponse(c, r)
        /\ call' = [call EXCEPT ![c].pc = "answered", ![c].answer = {r}]
        /\ Leave(c)
     \/ /\ ValidResponse(c, r) /\ call[c].tcp       \* truncated
        /\ call' = [call EXCEPT ![c].pc = "tcp"]
        /\ UNCHANGED holder
  /\ UNCHANGED next

(* The retry over a TCP stream of its own, with the slot still held: it    *)
(* ends with the answer to this very request or with an error.             *)
TcpAnswer(c) ==
  /\ At(c, "tcp")
  /\ call' = [call EXCEPT ![c].pc = "answered", ![c].answer = {RequestOf(c)}]
  /\ Leave(c)
  /\ UNCHANGED <<next, asked>>

TcpError(c) ==
  /\ At(c, "tcp")
  /\ call' = [call EXCEPT ![c].pc = "failed"]
  /\ Leave(c)
  /\ UNCHANGED <<next, asked>>

(* Seeded defect: a dropped call keeps the mutex guard.                    *)
TimeoutKeepsSlot(c) ==
  /\ call[c].pc \in Pending
  /\ call' = [call EXCEPT ![c].pc = "timedout"]
  /\ UNCHANGED <<next, holder, asked>>

(* The 10 s of process() are over: the future is dropped, the socket kept. *)
Timeout(c) ==
  /\ call[c].pc \in Pending
  /\ call' = [call EXCEPT ![c].pc = "timedout"]
  /\ Leave(c)
  /\ UNCHANGED <<next, asked>>

Next ==
  \E c \in Call :
    \/ \E question \in Question, tcp \in BOOLEAN, id \in Id :
         Start(c, question, tcp, id)
    \/ Send(c)
    \/ SocketError(c)
    \/ \E r \in Request, again \in BOOLEAN : Receive(c, r, again)
    \/ TcpAnswer(c)
    \/ TcpError(c)
    \/ Timeout(c)

Spec == Init /\ [][Next]_vars

----------------------------------------------------------------------------
(* However many abandoned requests a reused socket carries, a caller is    *)
(* never handed the answer to another question.                            *)
AnswersOwnQuestion ==
  \A c \in Call : \A r \in call[c].answer : r.question = call[c].question

(* ... and the answer to somebody else's request only if the random IDs of *)
(* the two requests collided on the same slot.                             *)
ForeignAnswerNeedsCollision ==
  \A c \in Call : \A r \in call[c].answer :
    r.call # c => /\ SlotOf(r.call) = SlotOf(c)
                  /\ call[r.call].id = call[c].id

(* Two calls never use the same socket at once: neither can consume the    *)
(* answer the other waits for.                                             *)
OneReceiverPerSlot ==
  \A c, d \in Call :
    /\ call[c].pc \in {"receiving", "tcp"}
    /\ call[d].pc \in {"receiving", "tcp"}
    /\ SlotOf(c) = SlotOf(d)
    => c = d

(* A slot is held by a call that is using it, and by nobody once its       *)
(* holder has ended in whatever way: the pool cannot silt up.              *)
SlotsAreReturned ==
  \A s \in Slot : \A c \in Call :
    holder[s] = c <=> call[c].pc \in {"receiving", "tcp"} /\ SlotOf(c) = s
=============================================================================
