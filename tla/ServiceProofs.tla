---------------------------- MODULE ServiceProofs ----------------------------
(***************************************************************************)
(* Theorems about the services that serve every run: the client of the     *)
(* model server, the monitor, the streams and the stores.  Each holds for  *)
(* every value of the component's constants.                               *)
(***************************************************************************)
EXTENDS RunDataProofs

-----------------------------------------------------------------------------
(* CodexServer: an id is never used twice, so that a late answer has no    *)
(* waiter but the one that asked for it.                                   *)

CodexLabels == {"idle", "start", "wait_lock", "launch", "hello", "send_hello", "initializing",
                "register", "send", "waiting", "login"}
CodexMethods == {"none", "read", "login", "initialize"}
Messages == [kind : {"result", "error", "completed"}, of : Codex!Processes \X Nat]
Calls == [pc : CodexLabels, method : CodexMethods, id : Nat, asked : Nat,
          answer : Messages \cup {Codex!NoAnswer}]

Unsent == {"send_hello", "send"}
Waits == Unsent \cup {"initializing", "waiting"}

\* A request with this id was sent to process p: if its caller still waits,
\* it has sent it, to p.
Asked(p, id) ==
  /\ id \in Nat \ {0} /\ id <= nextId
  /\ \A c \in Callers : call[c].id = id => call[c].asked = p /\ call[c].pc \notin Unsent

CodexTypes ==
  /\ server \in Nat /\ launched \in Nat /\ nextId \in Nat
  /\ call \in [Callers -> Calls]
  /\ pending \in [DOMAIN pending -> Callers]
  /\ inbox \in [Codex!Processes -> SUBSET [id : Nat, method : CodexMethods]]
  /\ stdout \in [Codex!Processes -> Seq(Messages)]
  /\ browser \subseteq Codex!Processes \X Nat

\* Waiters, and ids.
CodexWaiters ==
  /\ \A i \in DOMAIN pending : call[pending[i]].id = i /\ call[pending[i]].pc \in Waits
  /\ \A c \in Callers :
       /\ call[c].id <= nextId
       /\ call[c].pc \in Unsent => call[c].id # 0 /\ call[c].answer = Codex!NoAnswer
       /\ \A d \in Callers : call[c].id = call[d].id /\ call[c].id # 0 => c = d

\* Requests and answers on their way.
Posted(p, m) == m.kind # "completed" => m.of[1] = p /\ Asked(p, m.of[2])

CodexMail ==
  \A p \in Codex!Processes :
    /\ \A r \in inbox[p] : Asked(p, r.id)
    /\ \A i \in 1..Len(stdout[p]) : Posted(p, stdout[p][i])

CodexInv == CodexTypes /\ CodexWaiters /\ CodexMail /\ Codex!AnswerIsOwn

\* A caller goes on without taking an id or sending a request.
LEMMA CallerMoves ==
  ASSUME CodexInv, NEW c \in Callers, NEW new \in Calls, call' = [call EXCEPT ![c] = new],
         new.pc \notin Unsent,
         new.id = 0 \/ (new.id = call[c].id /\ new.asked = call[c].asked),
         new.answer = Codex!NoAnswer \/ (new.answer = call[c].answer /\ new.id = call[c].id
                                          /\ new.asked = call[c].asked),
         server' \in Nat, launched' \in Nat, UNCHANGED <<inbox, stdout, browser, nextId>>,
         pending' \in [DOMAIN pending' -> Callers], DOMAIN pending' \subseteq DOMAIN pending,
         \A i \in DOMAIN pending' :
           /\ pending'[i] = pending[i]
           /\ pending[i] = c => new.id = i /\ new.pc \in Waits
  PROVE  CodexInv'
<1>1. /\ call \in [Callers -> Calls] /\ call' \in [Callers -> Calls] /\ call'[c] = new
      /\ \A d \in Callers \ {c} : call'[d] = call[d]
  BY DEF CodexInv, CodexTypes
<1>2. CodexTypes'
  BY <1>1 DEF CodexInv, CodexTypes
<1>3. \A p \in Codex!Processes : \A id : Asked(p, id) => Asked(p, id)'
  BY <1>1 DEF Asked
<1>4. CodexMail'
  BY <1>3 DEF CodexInv, CodexMail, Posted
<1>5. CodexWaiters'
  <2>1. \A i \in DOMAIN pending' : call'[pending'[i]].id = i /\ call'[pending'[i]].pc \in Waits
    BY <1>1 DEF CodexInv, CodexWaiters, CodexTypes
  <2>2. \A d \in Callers :
          /\ call'[d].id <= nextId
          /\ call'[d].pc \in Unsent => call'[d].id # 0 /\ call'[d].answer = Codex!NoAnswer
    BY <1>1 DEF CodexInv, CodexWaiters, CodexTypes
  <2>3. \A d, e \in Callers : call'[d].id = call'[e].id /\ call'[d].id # 0 => d = e
    BY <1>1 DEF CodexInv, CodexWaiters
  <2> QED BY <2>1, <2>2, <2>3 DEF CodexWaiters
<1>6. Codex!AnswerIsOwn'
  BY <1>1 DEF CodexInv, Codex!AnswerIsOwn
<1> QED BY <1>2, <1>4, <1>5, <1>6 DEF CodexInv

\* It goes on with its id and what it has of the answer.
LEMMA CallerGoes ==
  ASSUME CodexInv, NEW c \in Callers, NEW label \in CodexLabels, Codex!Goto(c, label),
         label \notin Waits, UNCHANGED <<inbox, stdout, browser, nextId>>,
         server' \in Nat, launched' \in Nat,
         \/ UNCHANGED pending /\ call[c].pc \notin Waits
         \/ Codex!Pop(call[c].id)
  PROVE  CodexInv'
<1> DEFINE new == [call[c] EXCEPT !.pc = label]
<1>1. /\ new \in Calls /\ new.pc = label /\ new.id = call[c].id /\ new.asked = call[c].asked
      /\ new.answer = call[c].answer /\ call' = [call EXCEPT ![c] = new]
  BY DEF CodexInv, CodexTypes, Calls, Codex!Goto
<1> HIDE DEF new
<1>2. /\ pending' \in [DOMAIN pending' -> Callers] /\ DOMAIN pending' \subseteq DOMAIN pending
      /\ \A i \in DOMAIN pending' : pending'[i] = pending[i] /\ pending[i] # c
  <2>1. \A i \in DOMAIN pending :
          pending[i] = c => i = call[c].id /\ call[c].pc \in Waits
    BY DEF CodexInv, CodexWaiters
  <2>2. pending \in [DOMAIN pending -> Callers]
    BY DEF CodexInv, CodexTypes
  <2>3. CASE UNCHANGED pending /\ call[c].pc \notin Waits
    BY <2>1, <2>2, <2>3
  <2>4. CASE Codex!Pop(call[c].id)
    BY <2>1, <2>2, <2>4 DEF Codex!Pop
  <2> QED BY <2>3, <2>4
<1> QED BY <1>1, <1>2, CallerMoves DEF Waits

\* It is idle again.
LEMMA CallerEnds ==
  ASSUME CodexInv, NEW c \in Callers, UNCHANGED <<inbox, stdout, browser, nextId>>,
         server' \in Nat, launched' \in Nat,
         \/ Codex!Ends(c)
         \/ /\ UNCHANGED pending /\ call[c].pc \notin Waits
            /\ \E label \in CodexLabels \ Waits, method \in CodexMethods :
                 call' = [call EXCEPT ![c] = [Codex!Idle EXCEPT !.pc = label, !.method = method]]
  PROVE  CodexInv'
<1>1. \A i \in DOMAIN pending :
        pending[i] = c => i = call[c].id /\ call[c].pc \in Waits
  BY DEF CodexInv, CodexWaiters
<1>2. pending \in [DOMAIN pending -> Callers]
  BY DEF CodexInv, CodexTypes
<1>3. CASE Codex!Ends(c)
  <2>1. /\ Codex!Idle \in Calls /\ Codex!Idle.pc \notin Waits /\ Codex!Idle.id = 0
        /\ Codex!Idle.answer = Codex!NoAnswer /\ call' = [call EXCEPT ![c] = Codex!Idle]
    <3>1. call' = [call EXCEPT ![c] = Codex!Idle]
      BY <1>3 DEF Codex!Ends
    <3>2. Codex!Idle \in Calls
      BY DEF Codex!Idle, Calls, CodexLabels, CodexMethods
    <3>3. Codex!Idle.pc = "idle" /\ Codex!Idle.id = 0 /\ Codex!Idle.answer = Codex!NoAnswer
      BY DEF Codex!Idle
    <3> QED BY <3>1, <3>2, <3>3 DEF Waits, Unsent
  <2>2. /\ pending' \in [DOMAIN pending' -> Callers] /\ DOMAIN pending' \subseteq DOMAIN pending
        /\ \A i \in DOMAIN pending' : pending'[i] = pending[i] /\ pending[i] # c
    BY <1>1, <1>2, <1>3 DEF Codex!Ends, Codex!Pop
  <2> QED BY <2>1, <2>2, CallerMoves DEF Waits
<1>4. ASSUME UNCHANGED pending, call[c].pc \notin Waits,
             NEW label \in CodexLabels \ Waits, NEW method \in CodexMethods,
             call' = [call EXCEPT ![c] = [Codex!Idle EXCEPT !.pc = label, !.method = method]]
      PROVE  CodexInv'
  <2> DEFINE new == [Codex!Idle EXCEPT !.pc = label, !.method = method]
  <2>1. /\ new \in Calls /\ new.pc = label /\ new.id = 0 /\ new.answer = Codex!NoAnswer
        /\ call' = [call EXCEPT ![c] = new]
    BY <1>4 DEF Codex!Idle, Calls, CodexLabels, CodexMethods
  <2> HIDE DEF new
  <2> QED BY <1>1, <1>2, <1>4, <2>1, CallerMoves DEF Waits
<1> QED BY <1>3, <1>4

\* It registers a waiter under the next id.
LEMMA CallerRegisters ==
  ASSUME CodexInv, NEW c \in Callers, NEW label \in Unsent, Codex!Register(c, label),
         call[c].pc \notin Waits, UNCHANGED <<server, launched, inbox, stdout, browser>>
  PROVE  CodexInv'
<1> DEFINE new == [call[c] EXCEPT !.pc = label, !.id = nextId + 1, !.answer = Codex!NoAnswer]
<1>1. /\ call \in [Callers -> Calls] /\ nextId \in Nat /\ nextId' = nextId + 1
      /\ \A d \in Callers : call[d].id \in Nat /\ call[d].id <= nextId
  BY DEF CodexInv, CodexTypes, CodexWaiters, Calls, Codex!Register
<1>2. /\ new \in Calls /\ new.pc = label /\ new.id = nextId + 1 /\ new.answer = Codex!NoAnswer
      /\ call' = [call EXCEPT ![c] = new]
  <2>1. new \in Calls /\ new.pc = label /\ new.id = nextId + 1 /\ new.answer = Codex!NoAnswer
    <3>1. call[c] \in Calls /\ nextId + 1 \in Nat /\ label \in CodexLabels
      BY <1>1 DEF Unsent, CodexLabels
    <3> QED BY <3>1 DEF Calls
  <2>2. call' = [call EXCEPT ![c] = new]
    BY <1>1 DEF Codex!Register
  <2> QED BY <2>1, <2>2
<1> HIDE DEF new
<1>3. /\ call' \in [Callers -> Calls] /\ call'[c] = new
      /\ \A d \in Callers \ {c} : call'[d] = call[d]
  BY <1>1, <1>2
<1>4. /\ pending' = [i \in DOMAIN pending \cup {nextId + 1} |->
                       IF i = nextId + 1 THEN c ELSE pending[i]]
      /\ pending \in [DOMAIN pending -> Callers]
      /\ \A i \in DOMAIN pending : call[pending[i]].id = i /\ call[pending[i]].pc \in Waits
  BY <1>1 DEF CodexInv, CodexTypes, CodexWaiters, Codex!Register
<1>5. CodexTypes'
  BY <1>1, <1>3, <1>4 DEF CodexInv, CodexTypes
<1>6. \A p \in Codex!Processes : \A id : Asked(p, id) => Asked(p, id)'
  BY <1>1, <1>2, <1>3 DEF Asked
<1>7. CodexMail'
  BY <1>6 DEF CodexInv, CodexMail, Posted
<1>8. CodexWaiters'
  <2>1. \A i \in DOMAIN pending' : call'[pending'[i]].id = i /\ call'[pending'[i]].pc \in Waits
    BY <1>2, <1>3, <1>4 DEF Waits
  <2>2. \A d \in Callers :
          /\ call'[d].id <= nextId'
          /\ call'[d].pc \in Unsent => call'[d].id # 0 /\ call'[d].answer = Codex!NoAnswer
    BY <1>1, <1>2, <1>3 DEF CodexInv, CodexWaiters
  <2>3. \A d, e \in Callers : call'[d].id = call'[e].id /\ call'[d].id # 0 => d = e
    BY <1>1, <1>2, <1>3 DEF CodexInv, CodexWaiters
  <2> QED BY <2>1, <2>2, <2>3 DEF CodexWaiters
<1>9. Codex!AnswerIsOwn'
  BY <1>2, <1>3 DEF CodexInv, Codex!AnswerIsOwn
<1> QED BY <1>5, <1>7, <1>8, <1>9 DEF CodexInv

\* It sends its request, and from now on waits for this server.
LEMMA CallerSends ==
  ASSUME CodexInv, NEW c \in Callers, NEW label \in {"initializing", "waiting"},
         NEW method \in CodexMethods, Codex!Sent(c, label, method), call[c].pc \in Unsent,
         UNCHANGED <<server, launched, stdout, pending, nextId, browser>>
  PROVE  CodexInv'
<1> DEFINE new == [call[c] EXCEPT !.pc = label, !.asked = server]
           sent == [id |-> call[c].id, method |-> method]
<1>1. /\ call \in [Callers -> Calls] /\ nextId \in Nat /\ server \in Nat
      /\ call[c].id \in Nat \ {0} /\ call[c].id <= nextId /\ call[c].answer = Codex!NoAnswer
      /\ inbox \in [Codex!Processes -> SUBSET [id : Nat, method : CodexMethods]]
  BY DEF CodexInv, CodexTypes, CodexWaiters, Calls
<1>2. /\ new \in Calls /\ new.pc = label /\ new.id = call[c].id /\ new.asked = server
      /\ new.answer = Codex!NoAnswer
  <2>1. call[c] \in Calls /\ label \in CodexLabels
    BY <1>1 DEF CodexLabels
  <2> QED BY <1>1, <2>1 DEF Calls
<1>3. call' = [call EXCEPT ![c] = new]
  BY <1>1 DEF Codex!Sent
<1> HIDE DEF new
<1>4. /\ call' \in [Callers -> Calls] /\ call'[c] = new
      /\ \A d \in Callers \ {c} : call'[d] = call[d]
  BY <1>1, <1>2, <1>3
<1>5. sent \in [id : Nat, method : CodexMethods] /\ sent.id = call[c].id
  BY <1>1
<1>6. inbox' = [inbox EXCEPT ![server] = @ \cup {sent}]
  BY DEF Codex!Sent
<1> HIDE DEF sent
<1>7. /\ inbox' \in [Codex!Processes -> SUBSET [id : Nat, method : CodexMethods]]
      /\ \A p \in Codex!Processes : \A r \in inbox'[p] : r \in inbox[p] \/ (r = sent /\ p = server)
  BY <1>1, <1>5, <1>6
<1>8. CodexTypes'
  BY <1>4, <1>7 DEF CodexInv, CodexTypes
<1>9. \A p, id : Asked(p, id) => Asked(p, id)'
  BY <1>2, <1>4 DEF Asked
<1>10. \A i : i = call[c].id => Asked(server, i)'
  <2>1. \A d \in Callers : call'[d].id = call[c].id => d = c
    BY <1>1, <1>2, <1>4 DEF CodexInv, CodexWaiters
  <2>2. \A d \in Callers :
          call'[d].id = call[c].id => call'[d].asked = server' /\ call'[d].pc \notin Unsent
    BY <2>1, <1>2, <1>4 DEF Unsent
  <2> QED BY <1>1, <2>2 DEF Asked
<1>11. CodexMail'
  <2>1. \A p \in Codex!Processes : \A r \in inbox'[p] : Asked(p, r.id)'
    BY <1>5, <1>7, <1>9, <1>10 DEF CodexInv, CodexMail
  <2>2. \A p \in Codex!Processes : \A i \in 1..Len(stdout'[p]) : Posted(p, stdout[p][i])'
    BY <1>9 DEF CodexInv, CodexMail, Posted
  <2> QED BY <2>1, <2>2 DEF CodexMail
<1>12. CodexWaiters'
  <2>1. \A i \in DOMAIN pending : pending[i] \in Callers
    BY DEF CodexInv, CodexTypes
  <2>2. \A i \in DOMAIN pending' : call'[pending'[i]].id = i /\ call'[pending'[i]].pc \in Waits
    BY <1>2, <1>4, <2>1 DEF CodexInv, CodexWaiters, Waits
  <2>3. \A d \in Callers :
          /\ call'[d].id <= nextId'
          /\ call'[d].pc \in Unsent => call'[d].id # 0 /\ call'[d].answer = Codex!NoAnswer
    BY <1>1, <1>2, <1>4 DEF CodexInv, CodexWaiters
  <2>4. \A d, e \in Callers : call'[d].id = call'[e].id /\ call'[d].id # 0 => d = e
    BY <1>2, <1>4 DEF CodexInv, CodexWaiters
  <2> QED BY <2>2, <2>3, <2>4 DEF CodexWaiters
<1>13. Codex!AnswerIsOwn'
  BY <1>2, <1>4 DEF CodexInv, Codex!AnswerIsOwn
<1> QED BY <1>8, <1>11, <1>12, <1>13 DEF CodexInv

\* No caller moves: answers come and are dropped.
LEMMA PostMoves ==
  ASSUME CodexInv, UNCHANGED <<server, launched, nextId, pending, call>>,
         browser' \subseteq Codex!Processes \X Nat,
         inbox' \in [Codex!Processes -> SUBSET [id : Nat, method : CodexMethods]],
         \A p \in Codex!Processes : inbox'[p] \subseteq inbox[p],
         stdout' \in [Codex!Processes -> Seq(Messages)],
         \A p \in Codex!Processes : \A i \in 1..Len(stdout'[p]) : Posted(p, stdout'[p][i])
  PROVE  CodexInv'
<1>1. CodexTypes'
  BY DEF CodexInv, CodexTypes
<1>2. CodexWaiters' /\ Codex!AnswerIsOwn'
  BY DEF CodexInv, CodexWaiters, Codex!AnswerIsOwn
<1>3. \A p, id : Asked(p, id)' <=> Asked(p, id)
  BY DEF Asked
<1>4. CodexMail'
  BY <1>3 DEF CodexInv, CodexMail, Posted
<1> QED BY <1>1, <1>2, <1>4 DEF CodexInv

\* One more message in the pipe of a server.
LEMMA PostMore ==
  ASSUME CodexInv, NEW p \in Codex!Processes, NEW m \in Messages, Posted(p, m),
         stdout' = [stdout EXCEPT ![p] = Append(@, m)]
  PROVE  /\ stdout' \in [Codex!Processes -> Seq(Messages)]
         /\ \A q \in Codex!Processes : \A i \in 1..Len(stdout'[q]) : Posted(q, stdout'[q][i])
<1>1. stdout \in [Codex!Processes -> Seq(Messages)] /\ stdout[p] \in Seq(Messages)
  BY DEF CodexInv, CodexTypes
<1>2. /\ Append(stdout[p], m) \in Seq(Messages)
      /\ \A i \in 1..Len(Append(stdout[p], m)) :
           Append(stdout[p], m)[i] = m \/ (i \in 1..Len(stdout[p]) /\ Append(stdout[p], m)[i] = stdout[p][i])
  BY <1>1
<1> DEFINE new == Append(stdout[p], m)
<1>3. stdout' = [stdout EXCEPT ![p] = new]
  OBVIOUS
<1>4. \A i \in 1..Len(new) : Posted(p, new[i])
  BY <1>2 DEF CodexInv, CodexMail
<1> HIDE DEF new
<1> QED BY <1>1, <1>2, <1>3, <1>4 DEF CodexInv, CodexMail, new

LEMMA ReaderKeeps ==
  ASSUME CodexInv, NEW p \in Codex!Processes, Codex!reader(p)
  PROVE  CodexInv'
<1> DEFINE message == Head(stdout[p])
           id == message.of[2]
           rest == Tail(stdout[p])
<1>1. /\ stdout \in [Codex!Processes -> Seq(Messages)] /\ stdout[p] \in Seq(Messages) /\ stdout[p] # <<>>
      /\ stdout' = [stdout EXCEPT ![p] = rest]
      /\ UNCHANGED <<server, launched, inbox, nextId, pending, browser>>
  BY DEF CodexInv, CodexTypes, Codex!reader
<1>2. message \in Messages /\ message = stdout[p][1] /\ 1 \in 1..Len(stdout[p])
  BY <1>1
<1>3. rest \in Seq(Messages)
      /\ \A i \in 1..Len(rest) : i + 1 \in 1..Len(stdout[p]) /\ rest[i] = stdout[p][i + 1]
  BY <1>1
<1>4. Posted(p, message) /\ \A i \in 1..Len(rest) : Posted(p, rest[i])
  BY <1>2, <1>3 DEF CodexInv, CodexMail
<1>5. \/ UNCHANGED call
      \/ /\ message.kind # "completed" /\ id \in DOMAIN pending
         /\ call' = [call EXCEPT ![pending[id]] = [@ EXCEPT !.answer = message]]
  BY DEF Codex!reader
<1> HIDE DEF rest, message
<1>6. /\ stdout' \in [Codex!Processes -> Seq(Messages)]
      /\ \A q \in Codex!Processes : \A i \in 1..Len(stdout'[q]) : Posted(q, stdout'[q][i])
  BY <1>1, <1>3, <1>4 DEF CodexInv, CodexMail
<1>7. CASE UNCHANGED call
  BY <1>1, <1>6, <1>7, PostMoves DEF CodexInv, CodexTypes
<1>8. CASE /\ message.kind # "completed" /\ id \in DOMAIN pending
           /\ call' = [call EXCEPT ![pending[id]] = [@ EXCEPT !.answer = message]]
  <2> DEFINE c == pending[id]
             new == [call[c] EXCEPT !.answer = message]
  <2>1. c \in Callers /\ call[c].id = id /\ call[c].pc \in Waits
    BY <1>8 DEF CodexInv, CodexTypes, CodexWaiters
  <2>2. message.of[1] = p /\ call[c].asked = p /\ call[c].pc \notin Unsent
    BY <1>4, <1>8, <2>1 DEF Posted, Asked
  <2>3. message.of = <<call[c].asked, call[c].id>>
    BY <1>2, <2>1, <2>2 DEF Messages
  <2>4. call \in [Callers -> Calls] /\ call' = [call EXCEPT ![c] = new]
    BY <1>8 DEF CodexInv, CodexTypes
  <2>5. /\ new \in Calls /\ new.pc = call[c].pc /\ new.id = call[c].id /\ new.asked = call[c].asked
        /\ new.answer = message
    BY <1>2, <2>1, <2>4 DEF Calls
  <2> HIDE DEF new, c, id
  <2>6. /\ call' \in [Callers -> Calls] /\ call'[c] = new
        /\ \A d \in Callers \ {c} : call'[d] = call[d]
    BY <2>1, <2>4, <2>5
  <2>7. \A d \in Callers : /\ call'[d].pc = call[d].pc /\ call'[d].id = call[d].id
                           /\ call'[d].asked = call[d].asked
    BY <2>5, <2>6
  <2>8. CodexTypes'
    BY <1>1, <1>6, <2>6 DEF CodexInv, CodexTypes
  <2>9. \A q, x : Asked(q, x)' <=> Asked(q, x)
    BY <1>1, <2>7 DEF Asked
  <2>10. CodexMail'
    BY <1>1, <1>6, <2>9 DEF CodexInv, CodexMail, Posted
  <2>11. CodexWaiters'
    <3>1. \A i \in DOMAIN pending : pending[i] \in Callers
      BY DEF CodexInv, CodexTypes
    <3>2. \A i \in DOMAIN pending' : call'[pending'[i]].id = i /\ call'[pending'[i]].pc \in Waits
      BY <1>1, <2>7, <3>1 DEF CodexInv, CodexWaiters
    <3>3. \A d \in Callers :
            /\ call'[d].id <= nextId'
            /\ call'[d].pc \in Unsent => call'[d].id # 0 /\ call'[d].answer = Codex!NoAnswer
      BY <1>1, <2>2, <2>6, <2>7 DEF CodexInv, CodexWaiters
    <3>4. \A d, e \in Callers : call'[d].id = call'[e].id /\ call'[d].id # 0 => d = e
      BY <2>7 DEF CodexInv, CodexWaiters
    <3> QED BY <3>2, <3>3, <3>4 DEF CodexWaiters
  <2>12. Codex!AnswerIsOwn'
    BY <2>3, <2>5, <2>6 DEF CodexInv, Codex!AnswerIsOwn
  <2> QED BY <2>8, <2>10, <2>11, <2>12 DEF CodexInv
<1> QED BY <1>5, <1>7, <1>8

LEMMA CallerKeeps ==
  ASSUME CodexInv, NEW c \in Callers,
         \/ Codex!Start(c) \/ Codex!TakeLock(c) \/ Codex!Launch(c) \/ Codex!LaunchFails(c)
         \/ Codex!Hello(c) \/ Codex!SendHello(c) \/ Codex!Initialized(c)
         \/ Codex!InitializationFails(c) \/ Codex!TakeId(c) \/ Codex!SendRequest(c)
         \/ Codex!Receive(c) \/ Codex!start_chatgpt_login(c)
  PROVE  CodexInv'
<1> USE DEF Codex!At
<1>1. /\ server \in Nat /\ launched \in Nat /\ launched + 1 \in Nat /\ 0 \in Nat
      /\ call \in [Callers -> Calls] /\ call[c].method \in CodexMethods
  BY DEF CodexInv, CodexTypes, Calls
<1>2. CASE Codex!Start(c)
  <2>1. PICK label \in {"register", "wait_lock"} : Codex!Goto(c, label)
    BY <1>2 DEF Codex!Start
  <2> QED BY <1>1, <1>2, <2>1, CallerGoes DEF Codex!Start, CodexLabels, Waits, Unsent
<1>3. CASE Codex!TakeLock(c)
  <2>1. PICK label \in {"register", "launch"} : Codex!Goto(c, label)
    BY <1>3 DEF Codex!TakeLock
  <2> QED BY <1>1, <1>3, <2>1, CallerGoes DEF Codex!TakeLock, CodexLabels, Waits, Unsent
<1>4. CASE Codex!Launch(c)
  BY <1>1, <1>4, CallerGoes DEF Codex!Launch, CodexLabels, Waits, Unsent
<1>5. CASE Codex!LaunchFails(c)
  BY <1>1, <1>5, CallerEnds DEF Codex!LaunchFails, Codex!close
<1>6. CASE Codex!Hello(c)
  BY <1>6, CallerRegisters DEF Codex!Hello, Waits, Unsent
<1>7. CASE Codex!SendHello(c)
  BY <1>7, CallerSends DEF Codex!SendHello, Unsent, CodexMethods
<1>8. CASE Codex!Initialized(c)
  BY <1>1, <1>8, CallerGoes DEF Codex!Initialized, CodexLabels, Waits, Unsent
<1>9. CASE Codex!InitializationFails(c)
  BY <1>1, <1>9, CallerEnds DEF Codex!InitializationFails, Codex!close
<1>10. CASE Codex!TakeId(c)
  BY <1>10, CallerRegisters DEF Codex!TakeId, Waits, Unsent
<1>11. CASE Codex!SendRequest(c)
  <2>1. CASE Codex!Sent(c, "waiting", call[c].method) /\ UNCHANGED pending
    BY <1>1, <1>11, <2>1, CallerSends DEF Codex!SendRequest, Unsent
  <2>2. CASE Codex!Ends(c) /\ UNCHANGED inbox
    BY <1>1, <1>11, <2>2, CallerEnds DEF Codex!SendRequest
  <2> QED BY <1>11, <2>1, <2>2 DEF Codex!SendRequest
<1>12. CASE Codex!Receive(c)
  <2>1. CASE Codex!Goto(c, "login") /\ Codex!Pop(call[c].id)
    BY <1>1, <1>12, <2>1, CallerGoes DEF Codex!Receive, CodexLabels, Waits, Unsent
  <2>2. CASE Codex!Ends(c)
    BY <1>1, <1>12, <2>2, CallerEnds DEF Codex!Receive
  <2> QED BY <1>12, <2>1, <2>2 DEF Codex!Receive
<1>13. CASE Codex!start_chatgpt_login(c)
  <2>1. /\ Codex!Idle \in Calls /\ Codex!Idle.pc = "idle" /\ Codex!Idle.id = 0
        /\ Codex!Idle.answer = Codex!NoAnswer
    BY DEF Codex!Idle, Calls, CodexLabels, CodexMethods
  <2>2. /\ call' = [call EXCEPT ![c] = Codex!Idle] /\ call[c].pc = "login"
        /\ UNCHANGED <<inbox, stdout, browser, nextId, pending, server, launched>>
    BY <1>13 DEF Codex!start_chatgpt_login
  <2>3. /\ pending \in [DOMAIN pending -> Callers]
        /\ \A i \in DOMAIN pending : pending[i] # c
    BY <2>2 DEF CodexInv, CodexTypes, CodexWaiters, Waits, Unsent
  <2> QED BY <1>1, <2>1, <2>2, <2>3, CallerMoves DEF Unsent
<1> QED BY <1>2, <1>3, <1>4, <1>5, <1>6, <1>7, <1>8, <1>9, <1>10, <1>11, <1>12, <1>13

LEMMA AskKeeps ==
  ASSUME CodexInv, NEW c \in Callers, NEW method \in Codex!Methods, Codex!Ask(c, method)
  PROVE  CodexInv'
<1>1. /\ call' = [call EXCEPT ![c] = [Codex!Idle EXCEPT !.pc = "start", !.method = method]]
      /\ call[c].pc = "idle" /\ UNCHANGED <<inbox, stdout, browser, nextId, pending, server, launched>>
  BY DEF Codex!Ask, Codex!At
<1>2. server \in Nat /\ launched \in Nat
  BY DEF CodexInv, CodexTypes
<1>3. "start" \in CodexLabels \ Waits /\ method \in CodexMethods /\ call[c].pc \notin Waits
  BY <1>1 DEF CodexLabels, CodexMethods, Codex!Methods, Waits, Unsent
<1> QED BY <1>1, <1>2, <1>3, CallerEnds

LEMMA AnswerKeeps ==
  ASSUME CodexInv, NEW p \in Codex!Processes, NEW r \in inbox[p], Codex!Answer(p, r)
  PROVE  CodexInv'
<1>1. PICK kind \in {"result", "error"} :
        stdout' = [stdout EXCEPT ![p] = Append(@, [kind |-> kind, of |-> <<p, r.id>>])]
  BY DEF Codex!Answer
<1> DEFINE m == [kind |-> kind, of |-> <<p, r.id>>]
<1>2. Asked(p, r.id)
  BY DEF CodexInv, CodexMail
<1>3. r.id \in Nat
  BY <1>2 DEF Asked
<1>4. m \in Messages /\ m.of[1] = p /\ m.of[2] = r.id
  BY <1>3 DEF Messages
<1>5. Posted(p, m)
  BY <1>2, <1>4 DEF Posted
<1>6. stdout' = [stdout EXCEPT ![p] = Append(@, m)]
  BY <1>1
<1> HIDE DEF m
<1>7. /\ stdout' \in [Codex!Processes -> Seq(Messages)]
      /\ \A q \in Codex!Processes : \A i \in 1..Len(stdout'[q]) : Posted(q, stdout'[q][i])
  BY <1>4, <1>5, <1>6, PostMore
<1>8. /\ inbox' = [inbox EXCEPT ![p] = @ \ {r}]
      /\ UNCHANGED <<server, launched, nextId, pending, call>>
      /\ inbox \in [Codex!Processes -> SUBSET [id : Nat, method : CodexMethods]]
  BY DEF Codex!Answer, CodexInv, CodexTypes
<1>9. /\ inbox' \in [Codex!Processes -> SUBSET [id : Nat, method : CodexMethods]]
      /\ \A q \in Codex!Processes : inbox'[q] \subseteq inbox[q]
  BY <1>8
<1>10. browser' \subseteq Codex!Processes \X Nat
  BY <1>3 DEF Codex!Answer, CodexInv, CodexTypes
<1> QED BY <1>7, <1>8, <1>9, <1>10, PostMoves

LEMMA CompleteLoginKeeps ==
  ASSUME CodexInv, NEW login \in browser, Codex!CompleteLogin(login)
  PROVE  CodexInv'
<1> DEFINE m == [kind |-> "completed", of |-> login]
<1>1. login \in Codex!Processes \X Nat
  BY DEF CodexInv, CodexTypes
<1>2. login[1] \in Codex!Processes /\ m \in Messages /\ Posted(login[1], m)
  BY <1>1 DEF Messages, Posted
<1>3. /\ stdout' = [stdout EXCEPT ![login[1]] = Append(@, m)]
      /\ browser' = browser \ {login}
      /\ UNCHANGED <<server, launched, nextId, pending, call, inbox>>
  BY DEF Codex!CompleteLogin
<1> HIDE DEF m
<1>4. /\ stdout' \in [Codex!Processes -> Seq(Messages)]
      /\ \A q \in Codex!Processes : \A i \in 1..Len(stdout'[q]) : Posted(q, stdout'[q][i])
  BY <1>2, <1>3, PostMore
<1> QED BY <1>3, <1>4, PostMoves DEF CodexInv, CodexTypes

LEMMA CodexStep ==
  ASSUME CodexInv, [Codex!ServerNext]_Codex!serverVars
  PROVE  CodexInv'
<1>1. ASSUME UNCHANGED <<server, launched, nextId, pending, call, inbox, stdout, browser>>
      PROVE  CodexInv'
  BY <1>1, PostMoves DEF CodexInv, CodexTypes, CodexMail
<1>2. CASE UNCHANGED Codex!serverVars
  BY <1>1, <1>2 DEF Codex!serverVars
<1>3. ASSUME NEW p \in Codex!Processes, Codex!ProcessDies(p)
      PROVE  CodexInv'
  BY <1>1, <1>3 DEF Codex!ProcessDies
<1> QED BY <1>2, <1>3, AskKeeps, CallerKeeps, ReaderKeeps, AnswerKeeps, CompleteLoginKeeps
        DEF Codex!ServerNext, Codex!ConnectionRequests

LEMMA CodexAtWork ==
  ASSUME [Next]_rows
  PROVE  [Codex!ServerNext]_Codex!serverVars
<1>1. CASE Only("codex") /\ Codex!ServerNext
  BY <1>1
<1>2. CASE UNCHANGED codexRows
  BY <1>2 DEF codexRows, Codex!serverVars
<1> QED BY <1>1, <1>2 DEF Next, Only, rows

LEMMA CodexStart ==
  ASSUME Init
  PROVE  CodexInv
<1>1. /\ server = 0 /\ launched = 0 /\ nextId = 0 /\ pending = <<>> /\ browser = {}
      /\ inbox = [p \in Codex!Processes |-> {}] /\ stdout = [p \in Codex!Processes |-> <<>>]
      /\ call = [c \in Callers |-> Codex!Idle]
  BY DEF Init, Codex!ServerInit
<1>2. Codex!Idle \in Calls /\ Codex!Idle.id = 0 /\ Codex!Idle.answer = Codex!NoAnswer
      /\ Codex!Idle.pc \notin Unsent
  BY DEF Codex!Idle, Calls, CodexLabels, CodexMethods, Unsent
<1>3. DOMAIN pending = {} /\ pending \in [DOMAIN pending -> Callers]
  BY <1>1
<1>4. CodexTypes
  BY <1>1, <1>2, <1>3 DEF CodexTypes
<1>5. CodexWaiters /\ CodexMail /\ Codex!AnswerIsOwn
  BY <1>1, <1>2, <1>3 DEF CodexWaiters, CodexMail, Codex!AnswerIsOwn
<1> QED BY <1>4, <1>5 DEF CodexInv

\* No caller is ever given the answer to another request, whatever is still
\* read from a process that timed out, died or was replaced
\* (providers/codex_cli.py).
THEOREM AnswersOwn == Spec => []AnswerIsOwn
<1>1. Init => CodexInv
  BY CodexStart
<1>2. CodexInv /\ [Next]_rows => CodexInv'
  BY CodexAtWork, CodexStep
<1>3. CodexInv => AnswerIsOwn
  BY DEF CodexInv, AnswerIsOwn
<1> QED BY <1>1, <1>2, <1>3, PTL DEF Spec

-----------------------------------------------------------------------------
(* MainlineMonitor: what a job stands for is stored before the job is, and *)
(* is never taken back.                                                    *)

Hands == Workers \cup Users
JobOf(a) == <<assessments[a].market, assessments[a].day>>

LocalsShape(m) == IsOn(m, {"job", "assessment", "new", "proposal"})
ProposalShape(p) == IsOn(p, {"assessment", "action", "origin", "human"})

Proposed(a) ==
  Monitor!ActionFor(a) # "none" =>
    \E p \in proposals : p.assessment = a /\ p.action = Monitor!ActionFor(a)

WorkLabels == {"start", "snapshot", "metric", "assess", "save_assessment", "transition", "propose",
               "finish", "failed"}

\* What a thread's locals say at each of its points.
MonitorKnows(label, m) ==
  /\ LocalsShape(m) /\ ProposalShape(m.proposal)
  /\ label \in WorkLabels => m.job \in Monitor!Jobs
  /\ label = "save_assessment" => <<m.new.market, m.new.day>> = m.job
  /\ label \in {"transition", "propose", "finish"} =>
       m.assessment \in DOMAIN assessments /\ JobOf(m.assessment) = m.job
  /\ label \in {"propose", "finish"} => (Monitor!Changed(m.assessment) => m.assessment \in events)
  /\ label = "finish" => Proposed(m.assessment)

MonitorInv ==
  /\ IsOn(worker, Hands) /\ IsOn(job, Hands) /\ IsOn(jobs, Monitor!Jobs)
  /\ \E X : assessments \in Seq(X)
  /\ \A p \in proposals : ProposalShape(p)
  /\ \A p, q \in proposals : p.assessment = q.assessment /\ p.action = q.action => p = q
  /\ \A t \in Hands : MonitorKnows(worker[t], job[t])
  /\ Monitor!JobBacked

\* What no step takes back.
Grows ==
  /\ DOMAIN assessments \subseteq DOMAIN assessments'
  /\ \A a \in DOMAIN assessments : assessments'[a] = assessments[a]
  /\ events \subseteq events'
  /\ \A p \in proposals : \E q \in proposals' : q.assessment = p.assessment /\ q.action = p.action

LEMMA GrowsStill ==
  ASSUME Grows, NEW a \in DOMAIN assessments
  PROVE  /\ JobOf(a)' = JobOf(a) /\ (Monitor!Changed(a)' <=> Monitor!Changed(a))
         /\ Monitor!ActionFor(a)' = Monitor!ActionFor(a)
         /\ Proposed(a) => Proposed(a)'
<1>1. assessments'[a] = assessments[a]
  BY DEF Grows
<1>2. JobOf(a)' = JobOf(a) /\ (Monitor!Changed(a)' <=> Monitor!Changed(a))
  BY <1>1 DEF JobOf, Monitor!Changed
<1>3. Monitor!ActionFor(a)' = Monitor!ActionFor(a)
  BY <1>1, <1>2 DEF Monitor!ActionFor
<1> QED BY <1>2, <1>3 DEF Grows, Proposed

LEMMA KnowsStill ==
  ASSUME Grows, NEW label, NEW m, MonitorKnows(label, m)
  PROVE  MonitorKnows(label, m)'
  BY GrowsStill DEF MonitorKnows, Grows

\* What a job that is done stands for.
Backs(j, r) ==
  r.status \in Monitor!Done =>
    /\ r.assessment \in DOMAIN assessments /\ JobOf(r.assessment) = j
    /\ Monitor!Changed(r.assessment) => r.assessment \in events
    /\ Proposed(r.assessment)

LEMMA BacksMeans == Monitor!JobBacked <=> \A j \in Monitor!Jobs : Backs(j, jobs[j])
  BY DEF Monitor!JobBacked, Backs, JobOf, Proposed

LEMMA BacksStill ==
  ASSUME Grows, NEW j, NEW r, Backs(j, r)
  PROVE  Backs(j, r)'
  BY GrowsStill DEF Backs, Grows

\* A step of thread t.
LEMMA MonitorMove ==
  ASSUME MonitorInv, NEW t \in Hands, NEW label, NEW m, Monitor!Goto(t, label, m), Grows,
         MonitorKnows(label, m)', \E X : assessments' \in Seq(X),
         \A p \in proposals' : ProposalShape(p),
         \A p, q \in proposals' : p.assessment = q.assessment /\ p.action = q.action => p = q,
         IsOn(jobs', Monitor!Jobs),
         \A j \in Monitor!Jobs : \A r : r = jobs'[j] => r = jobs[j] \/ Backs(j, r)'
  PROVE  MonitorInv'
<1>1. /\ IsOn(worker', Hands) /\ IsOn(job', Hands) /\ worker'[t] = label /\ job'[t] = m
      /\ \A u \in Hands \ {t} : worker'[u] = worker[u] /\ job'[u] = job[u]
  BY DEF MonitorInv, Monitor!Goto, IsOn
<1>2. \A u \in Hands : MonitorKnows(worker[u], job[u])
  BY DEF MonitorInv
<1>3. \A u \in Hands : \A l, n : MonitorKnows(l, n) => MonitorKnows(l, n)'
  BY KnowsStill
<1>4. \A u \in Hands : \A l, n : worker'[u] = l /\ job'[u] = n => MonitorKnows(l, n)'
  BY <1>1, <1>2, <1>3
<1>5. \A u \in Hands : MonitorKnows(worker[u], job[u])'
  BY <1>4
<1>6. \A j \in Monitor!Jobs : \A r : Backs(j, r) => Backs(j, r)'
  BY BacksStill
<1>7. \A j \in Monitor!Jobs : \A r : r = jobs[j] => Backs(j, r)
  BY BacksMeans DEF MonitorInv
<1>8. \A j \in Monitor!Jobs : \A r : r = jobs'[j] => Backs(j, r)'
  BY <1>6, <1>7
<1>9. Monitor!JobBacked'
  <2>1. \A j \in Monitor!Jobs : Backs(j, jobs[j])'
    BY <1>8
  <2> QED BY <2>1 DEF Monitor!JobBacked, Backs, JobOf, Proposed
<1> QED BY <1>1, <1>5, <1>9 DEF MonitorInv, IsOn, ProposalShape

\* One that leaves the rows of the other tables, or changes none.
LEMMA MonitorLocal ==
  ASSUME MonitorInv, NEW t \in Hands, NEW label, NEW m, Monitor!Goto(t, label, m),
         MonitorKnows(label, m), UNCHANGED <<assessments, events, proposals, jobs>>
  PROVE  MonitorInv'
<1>1. Grows
  BY DEF Grows
<1>2. MonitorKnows(label, m)'
  BY <1>1, KnowsStill
<1> QED BY <1>1, <1>2, MonitorMove DEF MonitorInv

LEMMA SetLocals ==
  ASSUME NEW m, LocalsShape(m), NEW v
  PROVE  /\ LocalsShape([m EXCEPT !.job = v]) /\ [m EXCEPT !.job = v].job = v
         /\ [m EXCEPT !.job = v].proposal = m.proposal
         /\ LocalsShape([m EXCEPT !.new = v]) /\ [m EXCEPT !.new = v].new = v
         /\ [m EXCEPT !.new = v].job = m.job /\ [m EXCEPT !.new = v].proposal = m.proposal
         /\ LocalsShape([m EXCEPT !.assessment = v]) /\ [m EXCEPT !.assessment = v].assessment = v
         /\ [m EXCEPT !.assessment = v].job = m.job /\ [m EXCEPT !.assessment = v].new = m.new
         /\ [m EXCEPT !.assessment = v].proposal = m.proposal
         /\ LocalsShape([m EXCEPT !.proposal = v]) /\ [m EXCEPT !.proposal = v].proposal = v
  BY DEF LocalsShape, IsOn

LEMMA NothingKnown ==
  /\ MonitorKnows("idle", Monitor!Blank)
  /\ LocalsShape(Monitor!Blank) /\ ProposalShape(Monitor!Blank.proposal)
  /\ ProposalShape(Monitor!NoProposal)
<1>1. LocalsShape(Monitor!Blank)
  BY DEF LocalsShape, IsOn, Monitor!Blank
<1>2. ProposalShape(Monitor!NoProposal)
  BY DEF ProposalShape, IsOn, Monitor!NoProposal
<1>3. Monitor!Blank.proposal = Monitor!NoProposal
  BY DEF Monitor!Blank
<1> QED BY <1>1, <1>2, <1>3 DEF MonitorKnows, WorkLabels

\* A worker saves the row of its job.
LEMMA SaveJobMoves ==
  ASSUME MonitorInv, NEW t \in Hands, NEW status, Monitor!SaveJob(t, status),
         NEW label, NEW m, Monitor!Goto(t, label, m), MonitorKnows(label, m),
         job[t].job \in Monitor!Jobs,
         Backs(job[t].job, [status |-> status, assessment |-> job[t].assessment]),
         UNCHANGED <<assessments, events, proposals>>
  PROVE  MonitorInv'
<1> DEFINE j == job[t].job
           new == [status |-> status, assessment |-> job[t].assessment]
<1>1. Grows
  BY DEF Grows
<1>2. IsOn(jobs, Monitor!Jobs) /\ jobs' = [jobs EXCEPT ![j] = new]
  BY DEF MonitorInv, Monitor!SaveJob
<1>3. Backs(j, new)
  OBVIOUS
<1> HIDE DEF j, new
<1>4. /\ IsOn(jobs', Monitor!Jobs)
      /\ \A i \in Monitor!Jobs : jobs'[i] = IF i = j THEN new ELSE jobs[i]
  BY <1>2 DEF IsOn
<1>5. \A i \in Monitor!Jobs : \A r : r = jobs'[i] => r = jobs[i] \/ Backs(i, r)
  BY <1>3, <1>4
<1>6. \A i \in Monitor!Jobs : \A r : Backs(i, r) => Backs(i, r)'
  BY <1>1, BacksStill
<1>7. \A i \in Monitor!Jobs : \A r : r = jobs'[i] => r = jobs[i] \/ Backs(i, r)'
  BY <1>5, <1>6
<1>8. MonitorKnows(label, m)'
  BY <1>1, KnowsStill
<1> QED BY <1>1, <1>4, <1>7, <1>8, MonitorMove DEF MonitorInv

\* The rows of proposals after one was saved.
LEMMA SaveProposalGrows ==
  ASSUME MonitorInv, NEW p, ProposalShape(p), Monitor!SaveProposal(p), ~Monitor!Conflicts(p)
  PROVE  /\ \A q \in proposals : \E r \in proposals' : r.assessment = q.assessment /\ r.action = q.action
         /\ \A q \in proposals' : ProposalShape(q)
         /\ \A q, r \in proposals' : q.assessment = r.assessment /\ q.action = r.action => q = r
         /\ p \in proposals'
<1>1. proposals' = {q \in proposals : ~Monitor!SameId(p, q)} \cup {p}
  BY DEF Monitor!SaveProposal
<1>2. ASSUME NEW q \in proposals, Monitor!SameId(p, q)
      PROVE  p.assessment = q.assessment /\ p.action = q.action
  <2>1. ProposalShape(p) /\ [p EXCEPT !.human = q.human] = q
    BY <1>2 DEF Monitor!SameId
  <2>2. /\ [p EXCEPT !.human = q.human].assessment = p.assessment
        /\ [p EXCEPT !.human = q.human].action = p.action
    BY <2>1 DEF ProposalShape, IsOn
  <2> QED BY <2>1, <2>2
<1>3. \A q \in proposals : ProposalShape(q)
  BY DEF MonitorInv
<1>4. \A q \in proposals : q.assessment = p.assessment /\ q.action = p.action => Monitor!SameId(p, q)
  BY DEF Monitor!Conflicts
<1>5. \A q, r \in proposals' : q.assessment = r.assessment /\ q.action = r.action => q = r
  BY <1>1, <1>4 DEF MonitorInv
<1> QED BY <1>1, <1>2, <1>3, <1>5

LEMMA RunMoves ==
  ASSUME MonitorInv, NEW t \in Hands, NEW j \in Monitor!Jobs, Monitor!Run(t, j)
  PROVE  MonitorInv'
<1> DEFINE m == [Monitor!Blank EXCEPT !.job = j]
<1>1. /\ Monitor!Goto(t, "start", m)
      /\ UNCHANGED <<assessments, events, proposals, jobs>>
  BY DEF Monitor!Run, Monitor!tables
<1>2. LocalsShape(m) /\ m.job = j /\ m.proposal = Monitor!Blank.proposal
  BY NothingKnown, SetLocals
<1> HIDE DEF m
<1>3. MonitorKnows("start", m)
  BY <1>2, NothingKnown DEF MonitorKnows
<1> QED BY <1>1, <1>3, MonitorLocal

LEMMA SaveRunningMoves ==
  ASSUME MonitorInv, NEW t \in Hands, Monitor!SaveRunning(t)
  PROVE  MonitorInv'
<1>1. MonitorKnows(worker[t], job[t])
  BY DEF MonitorInv
<1>2. PICK label, m : /\ Monitor!Goto(t, label, m)
                      /\ \/ worker[t] = "start" /\ label = "snapshot" /\ m = job[t]
                         \/ worker[t] = "snapshot" /\ label = "metric" /\ m = job[t]
                         \/ \E n : /\ worker[t] = "metric" /\ label = "assess"
                                    /\ m = [job[t] EXCEPT !.new = n]
  BY DEF Monitor!SaveRunning
<1>3. job[t].job \in Monitor!Jobs /\ LocalsShape(m) /\ m.job = job[t].job
      /\ m.proposal = job[t].proposal
  <2>1. LocalsShape(job[t]) /\ job[t].job \in Monitor!Jobs
    BY <1>1, <1>2 DEF MonitorKnows, WorkLabels
  <2>2. CASE m = job[t]
    BY <2>1, <2>2
  <2>3. CASE \E n : m = [job[t] EXCEPT !.new = n]
    <3>1. PICK n : m = [job[t] EXCEPT !.new = n]
      BY <2>3
    <3>2. LET x == [job[t] EXCEPT !.new = n]
          IN  LocalsShape(x) /\ x.job = job[t].job /\ x.proposal = job[t].proposal
      BY <2>1, SetLocals
    <3> QED BY <2>1, <3>1, <3>2
  <2> QED BY <1>2, <2>1, <2>2, <2>3
<1>4. MonitorKnows(label, m)
  BY <1>1, <1>2, <1>3 DEF MonitorKnows
<1>5. Backs(job[t].job, [status |-> "running", assessment |-> job[t].assessment])
  BY DEF Backs, Monitor!Done
<1> QED BY <1>2, <1>3, <1>4, <1>5, SaveJobMoves DEF Monitor!SaveRunning

LEMMA AssessMoves ==
  ASSUME MonitorInv, NEW t \in Hands, Monitor!Assess(t)
  PROVE  MonitorInv'
<1>1. MonitorKnows("assess", job[t])
  BY DEF MonitorInv, Monitor!Assess
<1>2. PICK n : /\ Monitor!Goto(t, "save_assessment", [job[t] EXCEPT !.new = n])
               /\ n.market = job[t].job[1] /\ n.day = job[t].job[2]
  <2> DEFINE previous == Monitor!Previous(Monitor!DayOf(job[t].job))
             n == [market |-> Monitor!MarketOf(job[t].job), day |-> Monitor!DayOf(job[t].job),
                   data |-> job[t].new.data, previous |-> previous,
                   state |-> Monitor!NextState(GradeOf[job[t].new.data], previous)]
  <2>1. Monitor!Goto(t, "save_assessment", [job[t] EXCEPT !.new = n])
    BY DEF Monitor!Assess
  <2>2. n.market = job[t].job[1] /\ n.day = job[t].job[2]
    BY DEF Monitor!MarketOf, Monitor!DayOf
  <2> HIDE DEF n
  <2> QED BY <2>1, <2>2
<1> DEFINE m == [job[t] EXCEPT !.new = n]
<1>3. LocalsShape(m) /\ m.job = job[t].job /\ m.proposal = job[t].proposal /\ m.new = n
  BY <1>1, SetLocals DEF MonitorKnows
<1>4. Monitor!Goto(t, "save_assessment", m)
  BY <1>2
<1> HIDE DEF m
<1>5. m.job \in Monitor!Jobs /\ <<n.market, n.day>> = m.job
  BY <1>1, <1>2, <1>3 DEF MonitorKnows, WorkLabels, Monitor!Jobs
<1>6. MonitorKnows("save_assessment", m)
  BY <1>1, <1>3, <1>5 DEF MonitorKnows
<1> QED BY <1>4, <1>6, MonitorLocal DEF Monitor!Assess, Monitor!tables

LEMMA SaveAssessmentMoves ==
  ASSUME MonitorInv, NEW t \in Hands, Monitor!SaveAssessment(t)
  PROVE  MonitorInv'
<1>1. MonitorKnows("save_assessment", job[t])
  BY DEF MonitorInv, Monitor!SaveAssessment
<1>2. PICK X : assessments \in Seq(X)
  BY DEF MonitorInv
<1>3. PICK n : n = job[t].new
  OBVIOUS
<1>4. \/ UNCHANGED assessments
      \/ assessments' = Append(assessments, n)
  BY <1>3 DEF Monitor!SaveAssessment
<1>5. /\ assessments' \in Seq(X \cup {n}) /\ DOMAIN assessments \subseteq DOMAIN assessments'
      /\ \A a \in DOMAIN assessments : assessments'[a] = assessments[a]
  <2>1. CASE UNCHANGED assessments
    BY <1>2, <2>1
  <2>2. CASE assessments' = Append(assessments, n)
    BY <1>2, <2>2
  <2> QED BY <1>4, <2>1, <2>2
<1>6. Grows /\ UNCHANGED <<jobs, events, proposals>>
  BY <1>5 DEF Grows, Monitor!SaveAssessment
<1>7. PICK a \in DOMAIN assessments' :
        assessments'[a] = n /\ Monitor!Goto(t, "transition", [job[t] EXCEPT !.assessment = a])
  BY <1>3 DEF Monitor!SaveAssessment
<1>8. PICK m : m = [job[t] EXCEPT !.assessment = a]
  OBVIOUS
<1>9. /\ LocalsShape(m) /\ m.job = job[t].job /\ m.proposal = job[t].proposal /\ m.assessment = a
      /\ <<n.market, n.day>> = m.job /\ m.job \in Monitor!Jobs
  <2>1. LocalsShape(job[t]) /\ job[t].job \in Monitor!Jobs /\ <<n.market, n.day>> = job[t].job
    BY <1>1, <1>3 DEF MonitorKnows, WorkLabels
  <2>2. LET x == [job[t] EXCEPT !.assessment = a]
        IN  /\ LocalsShape(x) /\ x.job = job[t].job /\ x.proposal = job[t].proposal
            /\ x.assessment = a
    BY <2>1, SetLocals
  <2> QED BY <1>8, <2>1, <2>2
<1>10. Monitor!Goto(t, "transition", m)
  BY <1>7, <1>8
<1>11. MonitorKnows("transition", m)'
  <2>1. ProposalShape(m.proposal)
    BY <1>1, <1>9 DEF MonitorKnows
  <2>2. assessments'[m.assessment] = n /\ m.assessment \in DOMAIN assessments'
    BY <1>7, <1>9
  <2>3. JobOf(m.assessment)' = m.job
    BY <1>9, <2>2 DEF JobOf
  <2> QED BY <1>9, <2>1, <2>2, <2>3 DEF MonitorKnows, WorkLabels, LocalsShape, ProposalShape, IsOn
<1>12. \E Y : assessments' \in Seq(Y)
  BY <1>5
<1> QED BY <1>6, <1>10, <1>11, <1>12, MonitorMove DEF MonitorInv

LEMMA RecordTransitionMoves ==
  ASSUME MonitorInv, NEW t \in Hands, Monitor!RecordTransition(t)
  PROVE  MonitorInv'
<1>1. PICK m : m = job[t]
  OBVIOUS
<1>2. MonitorKnows("transition", m)
  BY <1>1 DEF MonitorInv, Monitor!RecordTransition, Monitor!SaveStateEvent
<1>3. /\ Monitor!Goto(t, "propose", m) /\ UNCHANGED <<jobs, assessments, proposals>>
      /\ events' = IF Monitor!Changed(m.assessment) THEN events \cup {m.assessment} ELSE events
  BY <1>1 DEF Monitor!RecordTransition, Monitor!SaveStateEvent
<1>4. Grows
  BY <1>3 DEF Grows
<1>5. MonitorKnows("transition", m)'
  BY <1>2, <1>4, KnowsStill
<1>6. Monitor!Changed(m.assessment)' => m.assessment \in events'
  BY <1>2, <1>3, <1>4, GrowsStill DEF MonitorKnows
<1>7. MonitorKnows("propose", m)'
  BY <1>5, <1>6 DEF MonitorKnows, WorkLabels
<1> QED BY <1>3, <1>4, <1>7, MonitorMove DEF MonitorInv

LEMMA ProposeMoves ==
  ASSUME MonitorInv, NEW t \in Hands, Monitor!Propose(t)
  PROVE  MonitorInv'
<1>1. PICK m : m = job[t]
  OBVIOUS
<1>2. MonitorKnows("propose", m)
  BY <1>1 DEF MonitorInv, Monitor!Propose
<1> DEFINE action == Monitor!ActionFor(m.assessment)
           p == [Monitor!NoProposal EXCEPT !.assessment = m.assessment, !.action = action]
<1>3. /\ Monitor!Goto(t, "finish", m) /\ UNCHANGED <<jobs, assessments, events>>
      /\ \/ action = "none" /\ UNCHANGED proposals
         \/ ~Monitor!Conflicts(p) /\ Monitor!SaveProposal(p)
  BY <1>1 DEF Monitor!Propose
<1>4. ProposalShape(p) /\ p.assessment = m.assessment /\ p.action = action
  BY DEF ProposalShape, IsOn, Monitor!NoProposal
<1> HIDE DEF p
<1>5. /\ \A q \in proposals : \E r \in proposals' : r.assessment = q.assessment /\ r.action = q.action
      /\ \A q \in proposals' : ProposalShape(q)
      /\ \A q, r \in proposals' : q.assessment = r.assessment /\ q.action = r.action => q = r
      /\ action = "none" \/ p \in proposals'
  <2>1. CASE action = "none" /\ UNCHANGED proposals
    BY <2>1 DEF MonitorInv
  <2>2. CASE ~Monitor!Conflicts(p) /\ Monitor!SaveProposal(p)
    BY <1>4, <2>2, SaveProposalGrows
  <2> QED BY <1>3, <2>1, <2>2
<1>6. Grows
  BY <1>3, <1>5 DEF Grows
<1>7. MonitorKnows("propose", m)'
  BY <1>2, <1>6, KnowsStill
<1>8. Monitor!ActionFor(m.assessment)' = action
  BY <1>2, <1>6, GrowsStill DEF MonitorKnows
<1>9. Proposed(m.assessment)'
  BY <1>4, <1>5, <1>8 DEF Proposed
<1>10. MonitorKnows("finish", m)'
  BY <1>7, <1>9 DEF MonitorKnows, WorkLabels
<1> QED BY <1>3, <1>5, <1>6, <1>10, MonitorMove DEF MonitorInv

LEMMA FinishMoves ==
  ASSUME MonitorInv, NEW t \in Hands, Monitor!Finish(t) \/ Monitor!SaveFailed(t)
  PROVE  MonitorInv'
<1>1. MonitorKnows(worker[t], job[t])
  BY DEF MonitorInv
<1>2. Monitor!Goto(t, "idle", Monitor!Blank) /\ UNCHANGED <<assessments, events, proposals>>
  BY DEF Monitor!Finish, Monitor!SaveFailed, Monitor!Leave
<1>3. CASE Monitor!Finish(t)
  <2>1. PICK status : Monitor!SaveJob(t, status)
    BY <1>3 DEF Monitor!Finish
  <2>2. worker[t] = "finish"
    BY <1>3 DEF Monitor!Finish
  <2>3. job[t].job \in Monitor!Jobs
        /\ Backs(job[t].job, [status |-> status, assessment |-> job[t].assessment])
    BY <1>1, <2>2 DEF MonitorKnows, WorkLabels, Backs
  <2> QED BY <1>2, <2>1, <2>3, NothingKnown, SaveJobMoves
<1>4. CASE Monitor!SaveFailed(t)
  <2>1. Monitor!SaveJob(t, "failed") /\ worker[t] = "failed"
    BY <1>4 DEF Monitor!SaveFailed
  <2>2. job[t].job \in Monitor!Jobs
        /\ Backs(job[t].job, [status |-> "failed", assessment |-> job[t].assessment])
    BY <1>1, <2>1 DEF MonitorKnows, WorkLabels, Backs, Monitor!Done
  <2> QED BY <1>2, <2>1, <2>2, NothingKnown, SaveJobMoves
<1> QED BY <1>3, <1>4

LEMMA WorkFailsMoves ==
  ASSUME MonitorInv, NEW t \in Hands, Monitor!Fail(t) \/ Monitor!Crash(t)
  PROVE  MonitorInv'
<1>1. MonitorKnows(worker[t], job[t])
  BY DEF MonitorInv
<1>2. UNCHANGED <<assessments, events, proposals, jobs>>
  BY DEF Monitor!Fail, Monitor!Crash, Monitor!tables
<1>3. CASE Monitor!Fail(t)
  <2>1. Monitor!Goto(t, "failed", job[t]) /\ worker[t] \in WorkLabels
    BY <1>3 DEF Monitor!Fail, WorkLabels
  <2>2. MonitorKnows("failed", job[t])
    BY <1>1, <2>1 DEF MonitorKnows
  <2> QED BY <1>2, <2>1, <2>2, MonitorLocal
<1>4. CASE Monitor!Crash(t)
  <2>1. Monitor!Goto(t, "idle", Monitor!Blank)
    BY <1>4 DEF Monitor!Crash, Monitor!Leave
  <2> QED BY <1>2, <2>1, NothingKnown, MonitorLocal
<1> QED BY <1>3, <1>4

LEMMA DecideMoves ==
  ASSUME MonitorInv, NEW t \in Hands,
         (\E p \in proposals, h \in {"accepted", "rejected"} : Monitor!Decide(t, p, h))
           \/ (\E f \in MonitorFilings : Monitor!Link(t, f))
  PROVE  /\ MonitorInv'
         /\ \E label \in {"decide", "link"} : \E p :
              /\ Monitor!Goto(t, label, [Monitor!Blank EXCEPT !.proposal = p])
              /\ \A q \in proposals : Monitor!SameId(p, q) => ~Monitor!Decided(q)
         /\ UNCHANGED <<assessments, events, proposals, jobs>>
<1>1. UNCHANGED <<assessments, events, proposals, jobs>>
  BY DEF Monitor!Decide, Monitor!Link, Monitor!tables
<1>2. ASSUME NEW label \in {"decide", "link"}, NEW p, ProposalShape(p),
             Monitor!Goto(t, label, [Monitor!Blank EXCEPT !.proposal = p])
      PROVE  MonitorInv'
  <2> DEFINE m == [Monitor!Blank EXCEPT !.proposal = p]
  <2>1. LocalsShape(m) /\ m.proposal = p
    BY NothingKnown DEF LocalsShape, IsOn
  <2>2. Monitor!Goto(t, label, m)
    BY <1>2
  <2> HIDE DEF m
  <2>3. MonitorKnows(label, m)
    BY <1>2, <2>1 DEF MonitorKnows, WorkLabels
  <2> QED BY <1>1, <2>2, <2>3, MonitorLocal
<1>3. ASSUME NEW p \in proposals, NEW h \in {"accepted", "rejected"}, Monitor!Decide(t, p, h)
      PROVE  /\ MonitorInv'
             /\ \E label \in {"decide", "link"} : \E x :
                  /\ Monitor!Goto(t, label, [Monitor!Blank EXCEPT !.proposal = x])
                  /\ \A q \in proposals : Monitor!SameId(x, q) => ~Monitor!Decided(q)
  <2> DEFINE x == [p EXCEPT !.human = h]
  <2>1. Monitor!Goto(t, "decide", [Monitor!Blank EXCEPT !.proposal = x]) /\ ~Monitor!Decided(p)
    BY <1>3 DEF Monitor!Decide
  <2>2. ProposalShape(p)
    BY DEF MonitorInv
  <2>3. ProposalShape(x) /\ x.assessment = p.assessment /\ x.action = p.action
    BY <2>2 DEF ProposalShape, IsOn
  <2> HIDE DEF x
  <2>4. ASSUME NEW q \in proposals, Monitor!SameId(x, q)
        PROVE  ~Monitor!Decided(q)
    <3>1. [x EXCEPT !.human = q.human] = q
      BY <2>4 DEF Monitor!SameId
    <3>2. /\ [x EXCEPT !.human = q.human].assessment = x.assessment
          /\ [x EXCEPT !.human = q.human].action = x.action
      BY <2>3 DEF ProposalShape, IsOn
    <3>3. q = p
      BY <2>3, <3>1, <3>2 DEF MonitorInv
    <3> QED BY <2>1, <3>3
  <2> QED BY <1>2, <2>1, <2>3, <2>4
<1>4. ASSUME NEW f \in MonitorFilings, Monitor!Link(t, f)
      PROVE  /\ MonitorInv'
             /\ \E label \in {"decide", "link"} : \E x :
                  /\ Monitor!Goto(t, label, [Monitor!Blank EXCEPT !.proposal = x])
                  /\ \A q \in proposals : Monitor!SameId(x, q) => ~Monitor!Decided(q)
  <2> DEFINE x == [assessment |-> Monitor!Latest(DOMAIN assessments), action |-> "reevaluate_candidates",
                   origin |-> f, human |-> "pending"]
  <2>1. /\ Monitor!Goto(t, "link", [Monitor!Blank EXCEPT !.proposal = x])
        /\ \A q \in proposals : q.assessment # x.assessment \/ q.action # x.action
    BY <1>4 DEF Monitor!Link
  <2>2. ProposalShape(x)
    BY DEF ProposalShape, IsOn
  <2> HIDE DEF x
  <2>3. ASSUME NEW q \in proposals, Monitor!SameId(x, q)
        PROVE  FALSE
    <3>1. [x EXCEPT !.human = q.human] = q
      BY <2>3 DEF Monitor!SameId
    <3>2. /\ [x EXCEPT !.human = q.human].assessment = x.assessment
          /\ [x EXCEPT !.human = q.human].action = x.action
      BY <2>2 DEF ProposalShape, IsOn
    <3> QED BY <2>1, <3>1, <3>2
  <2> QED BY <1>2, <2>1, <2>2, <2>3
<1> QED BY <1>1, <1>3, <1>4

LEMMA SaveUserProposalMoves ==
  ASSUME MonitorInv, NEW t \in Hands, Monitor!SaveUserProposal(t)
  PROVE  MonitorInv'
<1>1. /\ Monitor!Goto(t, "idle", Monitor!Blank) /\ UNCHANGED <<jobs, assessments, events>>
      /\ \/ UNCHANGED proposals
         \/ ~Monitor!Conflicts(job[t].proposal) /\ Monitor!SaveProposal(job[t].proposal)
  BY DEF Monitor!SaveUserProposal, Monitor!Leave
<1>2. PICK p : p = job[t].proposal
  OBVIOUS
<1>3. ProposalShape(p)
  BY <1>2 DEF MonitorInv, MonitorKnows
<1>4. CASE UNCHANGED proposals
  BY <1>1, <1>4, NothingKnown, MonitorLocal
<1>5. CASE ~Monitor!Conflicts(p) /\ Monitor!SaveProposal(p)
  <2>1. /\ \A q \in proposals : \E r \in proposals' : r.assessment = q.assessment /\ r.action = q.action
        /\ \A q \in proposals' : ProposalShape(q)
        /\ \A q, r \in proposals' : q.assessment = r.assessment /\ q.action = r.action => q = r
    BY <1>3, <1>5, SaveProposalGrows
  <2>2. Grows
    BY <1>1, <2>1 DEF Grows
  <2>3. MonitorKnows("idle", Monitor!Blank)'
    BY <2>2, NothingKnown, KnowsStill
  <2> QED BY <1>1, <2>1, <2>2, <2>3, MonitorMove DEF MonitorInv
<1> QED BY <1>1, <1>2, <1>4, <1>5

LEMMA MonitorStep ==
  ASSUME MonitorInv, [Monitor!Next]_Monitor!vars
  PROVE  MonitorInv'
<1>1. ASSUME UNCHANGED <<jobs, assessments, events, proposals, worker, job>>
      PROVE  MonitorInv'
  <2>1. Monitor!JobBacked'
    BY <1>1 DEF MonitorInv, Monitor!JobBacked, Monitor!Changed, Monitor!ActionFor
  <2>2. Grows
    BY <1>1 DEF Grows
  <2>3. \A t \in Hands : \A label, m : MonitorKnows(label, m) => MonitorKnows(label, m)'
    BY <2>2, KnowsStill
  <2>4. \A t \in Hands : MonitorKnows(worker[t], job[t])'
    <3>1. \A t \in Hands : \A label, m : label = worker'[t] /\ m = job'[t] => MonitorKnows(label, m)'
      BY <1>1, <2>3 DEF MonitorInv
    <3> QED BY <3>1
  <2> QED BY <1>1, <2>1, <2>4 DEF MonitorInv, IsOn, ProposalShape
<1>2. CASE UNCHANGED Monitor!vars
  BY <1>1, <1>2 DEF Monitor!vars
<1>3. ASSUME NEW t \in Workers, Monitor!Work(t) \/ \E j \in Monitor!Jobs : Monitor!Run(t, j)
      PROVE  MonitorInv'
  BY <1>3, RunMoves, SaveRunningMoves, AssessMoves, SaveAssessmentMoves, RecordTransitionMoves,
     ProposeMoves, FinishMoves, WorkFailsMoves DEF Monitor!Work, Hands
<1>4. ASSUME NEW u \in Users, NEW a \in events, Monitor!Acknowledge(u, a)
      PROVE  MonitorInv'
  BY <1>1, <1>4 DEF Monitor!Acknowledge
<1>5. ASSUME NEW u \in Users,
             \/ \E p \in proposals, h \in {"accepted", "rejected"} : Monitor!Decide(u, p, h)
             \/ \E f \in MonitorFilings : Monitor!Link(u, f)
             \/ Monitor!SaveUserProposal(u)
      PROVE  MonitorInv'
  BY <1>5, DecideMoves, SaveUserProposalMoves DEF Hands
<1>6. ASSUME NEW t \in Hands, Monitor!Crash(t)
      PROVE  MonitorInv'
  BY <1>6, WorkFailsMoves
<1> QED BY <1>2, <1>3, <1>4, <1>5, <1>6 DEF Monitor!Next, Hands

LEMMA MonitorAtWork ==
  ASSUME [Next]_rows
  PROVE  [Monitor!Next]_Monitor!vars
<1>1. CASE Only("monitor") /\ Monitor!Next
  BY <1>1
<1>2. CASE UNCHANGED monitorRows
  BY <1>2 DEF monitorRows, Monitor!vars
<1> QED BY <1>1, <1>2 DEF Next, Only, rows

LEMMA MonitorStart ==
  ASSUME Init
  PROVE  MonitorInv
<1>1. /\ assessments = <<>> /\ events = {} /\ proposals = {}
      /\ jobs = [j \in Monitor!Jobs |-> [status |-> "absent", assessment |-> 0]]
      /\ worker = [t \in Hands |-> "idle"] /\ job = [t \in Hands |-> Monitor!Blank]
  BY DEF Init, Monitor!Init, Hands
<1>2. assessments \in Seq({})
  BY <1>1
<1>3. Monitor!JobBacked
  BY <1>1 DEF Monitor!JobBacked, Monitor!Done
<1> QED BY <1>1, <1>2, <1>3, NothingKnown DEF MonitorInv, IsOn

\* A job that is done has everything it stands for, whatever attempts of
\* however many workers failed, crashed or overlapped before
\* (monitoring/service.py).
THEOREM JobsBacked == Spec => []JobBacked
<1>1. Init => MonitorInv
  BY MonitorStart
<1>2. MonitorInv /\ [Next]_rows => MonitorInv'
  BY MonitorAtWork, MonitorStep
<1>3. MonitorInv => JobBacked
  BY DEF MonitorInv, JobBacked
<1> QED BY <1>1, <1>2, <1>3, PTL DEF Spec

-----------------------------------------------------------------------------
(* With one worker and one analyst, nobody else changes a proposal between *)
(* the read and the save of either.                                        *)

DecisionInv ==
  /\ MonitorInv
  /\ \A w \in Workers :
       worker[w] # "idle" /\ job[w].job \in Monitor!Jobs => jobs[job[w].job].status \notin Monitor!Done
  /\ \A u \in Users : worker[u] \in {"decide", "link"} =>
       \A q \in proposals : Monitor!SameId(job[u].proposal, q) => ~Monitor!Decided(q)

Alone == (\A v, w \in Workers : v = w) /\ (\A u, v \in Users : u = v)

\* What a step changes of the job and the proposal at work.
LEMMA DecisionMove ==
  ASSUME DecisionInv, MonitorInv',
         \A w \in Workers : \A j :
           worker'[w] # "idle" /\ j = job'[w].job /\ j \in Monitor!Jobs =>
             jobs'[j].status \notin Monitor!Done,
         \A u \in Users : \A p :
           worker'[u] \in {"decide", "link"} /\ p = job'[u].proposal =>
             \A q \in proposals' : Monitor!SameId(p, q) => ~Monitor!Decided(q)
  PROVE  DecisionInv'
  BY DEF DecisionInv

LEMMA Apart == \A w \in Workers, u \in Users : w # u
  BY WorkbenchAssumption DEF Monitor!MonitorActors

\* A step of the worker.
LEMMA WorkerDecides ==
  ASSUME Alone, DecisionInv, MonitorInv', NEW w \in Workers, NEW label, NEW m, Monitor!Goto(w, label, m),
         label # "idle" /\ m.job \in Monitor!Jobs => jobs'[m.job].status \notin Monitor!Done,
         \A q \in proposals' : q \in proposals \/ ~Monitor!Decided(q)
  PROVE  DecisionInv'
<1>1. /\ \A t \in Hands : t = w => worker'[t] = label /\ job'[t] = m
      /\ \A t \in Hands : t # w => worker'[t] = worker[t] /\ job'[t] = job[t]
  BY DEF DecisionInv, MonitorInv, IsOn, Monitor!Goto
<1>2. \A u \in Users : worker'[u] = worker[u] /\ job'[u] = job[u]
  BY <1>1, Apart DEF Hands
<1>3. \A v \in Workers : worker'[v] = label /\ job'[v] = m
  BY <1>1 DEF Alone, Hands
<1> QED BY <1>2, <1>3, DecisionMove DEF DecisionInv

\* A step of the analyst.
LEMMA UserDecides ==
  ASSUME Alone, DecisionInv, MonitorInv', NEW u \in Users, NEW label, NEW m, Monitor!Goto(u, label, m),
         UNCHANGED jobs,
         label \in {"decide", "link"} =>
           \A q \in proposals' : Monitor!SameId(m.proposal, q) => ~Monitor!Decided(q)
  PROVE  DecisionInv'
<1>1. /\ \A t \in Hands : t = u => worker'[t] = label /\ job'[t] = m
      /\ \A t \in Hands : t # u => worker'[t] = worker[t] /\ job'[t] = job[t]
  BY DEF DecisionInv, MonitorInv, IsOn, Monitor!Goto
<1>2. \A w \in Workers : worker'[w] = worker[w] /\ job'[w] = job[w]
  BY <1>1, Apart DEF Hands
<1>3. \A v \in Users : worker'[v] = label /\ job'[v] = m
  BY <1>1 DEF Alone, Hands
<1> QED BY <1>2, <1>3, DecisionMove DEF DecisionInv

LEMMA WorkDecides ==
  ASSUME Alone, DecisionInv, MonitorInv', NEW w \in Workers,
         \/ Monitor!Work(w) \/ (\E j \in Monitor!Jobs : Monitor!Run(w, j)) \/ Monitor!Crash(w)
  PROVE  DecisionInv'
<1>1. MonitorKnows(worker[w], job[w])
      /\ (worker[w] # "idle" /\ job[w].job \in Monitor!Jobs =>
            jobs[job[w].job].status \notin Monitor!Done)
  BY DEF DecisionInv, MonitorInv, Hands
<1>2. ASSUME NEW j \in Monitor!Jobs, Monitor!Run(w, j)
      PROVE  DecisionInv'
  <2> DEFINE m == [Monitor!Blank EXCEPT !.job = j]
  <2>1. Monitor!Goto(w, "start", m) /\ UNCHANGED <<jobs, proposals>>
        /\ jobs[j].status \notin Monitor!Done
    BY <1>2 DEF Monitor!Run, Monitor!tables
  <2>2. m.job = j
    BY NothingKnown, SetLocals
  <2> HIDE DEF m
  <2> QED BY <2>1, <2>2, WorkerDecides
<1>3. CASE Monitor!SaveRunning(w)
  <2>1. PICK label, m : Monitor!Goto(w, label, m) /\ m.job = job[w].job
    <3>1. PICK label, m : /\ Monitor!Goto(w, label, m)
                          /\ m = job[w] \/ \E n : m = [job[w] EXCEPT !.new = n]
      BY <1>3 DEF Monitor!SaveRunning
    <3>2. LocalsShape(job[w])
      BY <1>1 DEF MonitorKnows
    <3>3. ASSUME NEW n PROVE [job[w] EXCEPT !.new = n].job = job[w].job
      BY <3>2, SetLocals
    <3> QED BY <3>1, <3>3
  <2>2. PICK j : j = job[w].job
    OBVIOUS
  <2>3. jobs' = [jobs EXCEPT ![j] = [status |-> "running", assessment |-> job[w].assessment]]
        /\ UNCHANGED proposals
    BY <1>3, <2>2 DEF Monitor!SaveRunning, Monitor!SaveJob
  <2>4. j \in Monitor!Jobs => jobs'[j].status \notin Monitor!Done
    BY <2>3 DEF DecisionInv, MonitorInv, IsOn, Monitor!Done
  <2> QED BY <2>1, <2>2, <2>3, <2>4, WorkerDecides
<1>4. ASSUME NEW label, NEW m, Monitor!Goto(w, label, m), m.job = job[w].job, worker[w] # "idle",
             UNCHANGED jobs, \A q \in proposals' : q \in proposals \/ ~Monitor!Decided(q)
      PROVE  DecisionInv'
  BY <1>1, <1>4, WorkerDecides
<1>5. CASE Monitor!Assess(w)
  <2>1. PICK n : Monitor!Goto(w, "save_assessment", [job[w] EXCEPT !.new = n])
    BY <1>5 DEF Monitor!Assess
  <2> DEFINE m == [job[w] EXCEPT !.new = n]
  <2>2. m.job = job[w].job
    BY <1>1, SetLocals DEF MonitorKnows
  <2>3. Monitor!Goto(w, "save_assessment", m) /\ worker[w] = "assess" /\ UNCHANGED <<jobs, proposals>>
    BY <1>5, <2>1 DEF Monitor!Assess, Monitor!tables
  <2> HIDE DEF m
  <2> QED BY <2>2, <2>3, <1>4
<1>6. CASE Monitor!SaveAssessment(w)
  <2>1. PICK a : Monitor!Goto(w, "transition", [job[w] EXCEPT !.assessment = a])
    BY <1>6 DEF Monitor!SaveAssessment
  <2> DEFINE m == [job[w] EXCEPT !.assessment = a]
  <2>2. m.job = job[w].job
    BY <1>1, SetLocals DEF MonitorKnows
  <2>3. Monitor!Goto(w, "transition", m) /\ worker[w] = "save_assessment" /\ UNCHANGED <<jobs, proposals>>
    BY <1>6, <2>1 DEF Monitor!SaveAssessment
  <2> HIDE DEF m
  <2> QED BY <2>2, <2>3, <1>4
<1>7. CASE Monitor!RecordTransition(w)
  BY <1>4, <1>7 DEF Monitor!RecordTransition
<1>8. CASE Monitor!Propose(w)
  <2> DEFINE p == [Monitor!NoProposal EXCEPT !.assessment = job[w].assessment,
                                             !.action = Monitor!ActionFor(job[w].assessment)]
  <2>1. p.human = "pending"
    BY DEF Monitor!NoProposal
  <2>2. UNCHANGED proposals \/ Monitor!SaveProposal(p)
    BY <1>8 DEF Monitor!Propose
  <2> HIDE DEF p
  <2>3. \A q \in proposals' : q \in proposals \/ ~Monitor!Decided(q)
    BY <2>1, <2>2 DEF Monitor!SaveProposal, Monitor!Decided
  <2>4. Monitor!Goto(w, "finish", job[w]) /\ worker[w] = "propose" /\ UNCHANGED jobs
    BY <1>8 DEF Monitor!Propose
  <2> QED BY <1>4, <2>3, <2>4
<1>9. CASE Monitor!Finish(w) \/ Monitor!SaveFailed(w)
  <2>1. Monitor!Goto(w, "idle", Monitor!Blank) /\ UNCHANGED proposals
    BY <1>9 DEF Monitor!Finish, Monitor!SaveFailed, Monitor!Leave
  <2> QED BY <2>1, WorkerDecides
<1>10. CASE Monitor!Fail(w)
  BY <1>4, <1>10 DEF Monitor!Fail, Monitor!tables
<1>11. CASE Monitor!Crash(w)
  <2>1. Monitor!Goto(w, "idle", Monitor!Blank) /\ UNCHANGED proposals
    BY <1>11 DEF Monitor!Crash, Monitor!Leave, Monitor!tables
  <2> QED BY <2>1, WorkerDecides
<1> QED BY <1>2, <1>3, <1>5, <1>6, <1>7, <1>8, <1>9, <1>10, <1>11 DEF Monitor!Work

LEMMA DecisionStep ==
  ASSUME Alone, DecisionInv, [Monitor!Next]_Monitor!vars
  PROVE  DecisionInv'
<1>1. MonitorInv'
  BY MonitorStep DEF DecisionInv
<1>2. ASSUME UNCHANGED <<jobs, proposals, worker, job>>
      PROVE  DecisionInv'
  BY <1>1, <1>2, DecisionMove DEF DecisionInv
<1>3. CASE UNCHANGED Monitor!vars
  BY <1>2, <1>3 DEF Monitor!vars
<1>4. ASSUME NEW w \in Workers,
             \/ Monitor!Work(w) \/ (\E j \in Monitor!Jobs : Monitor!Run(w, j)) \/ Monitor!Crash(w)
      PROVE  DecisionInv'
  BY <1>1, <1>4, WorkDecides
<1>5. ASSUME NEW u \in Users, NEW a \in events, Monitor!Acknowledge(u, a)
      PROVE  DecisionInv'
  BY <1>2, <1>5 DEF Monitor!Acknowledge
<1>6. ASSUME NEW u \in Users,
             \/ \E p \in proposals, h \in {"accepted", "rejected"} : Monitor!Decide(u, p, h)
             \/ \E f \in MonitorFilings : Monitor!Link(u, f)
      PROVE  DecisionInv'
  <2>0. PICK label \in {"decide", "link"} : \E p :
          /\ Monitor!Goto(u, label, [Monitor!Blank EXCEPT !.proposal = p])
          /\ \A q \in proposals : Monitor!SameId(p, q) => ~Monitor!Decided(q)
          /\ UNCHANGED <<proposals, jobs>>
    BY <1>6, DecideMoves DEF DecisionInv, Hands
  <2>1. PICK p :
          /\ Monitor!Goto(u, label, [Monitor!Blank EXCEPT !.proposal = p])
          /\ \A q \in proposals : Monitor!SameId(p, q) => ~Monitor!Decided(q)
          /\ UNCHANGED <<proposals, jobs>>
    BY <2>0
  <2> DEFINE m == [Monitor!Blank EXCEPT !.proposal = p]
  <2>2. m.proposal = p
    BY NothingKnown DEF LocalsShape, IsOn
  <2>3. Monitor!Goto(u, label, m)
    BY <2>1
  <2> HIDE DEF m
  <2> QED BY <1>1, <2>1, <2>2, <2>3, UserDecides
<1>7. ASSUME NEW u \in Users, Monitor!SaveUserProposal(u) \/ Monitor!Crash(u)
      PROVE  DecisionInv'
  <2>1. Monitor!Goto(u, "idle", Monitor!Blank) /\ UNCHANGED jobs
    BY <1>7 DEF Monitor!SaveUserProposal, Monitor!Crash, Monitor!Leave, Monitor!tables
  <2> QED BY <1>1, <2>1, UserDecides
<1> QED BY <1>3, <1>4, <1>5, <1>6, <1>7 DEF Monitor!Next

\* No step takes a decision back whose job is done.
LEMMA DecidedStays ==
  ASSUME DecisionInv, [Monitor!Next]_Monitor!vars, NEW p \in proposals, Monitor!Decided(p),
         jobs[JobOf(p.assessment)].status \in Monitor!Done
  PROVE  p \in proposals'
<1>1. ASSUME NEW x, Monitor!SaveProposal(x), ~Monitor!SameId(x, p)
      PROVE  p \in proposals'
  BY <1>1 DEF Monitor!SaveProposal
<1>2. CASE UNCHANGED proposals
  BY <1>2
<1>3. ASSUME NEW w \in Workers, Monitor!Propose(w)
      PROVE  p \in proposals'
  <2>1. MonitorKnows("propose", job[w])
    BY <1>3 DEF DecisionInv, MonitorInv, Hands, Monitor!Propose
  <2>2. JobOf(job[w].assessment) = job[w].job /\ job[w].job \in Monitor!Jobs
    BY <2>1 DEF MonitorKnows, WorkLabels
  <2>3. jobs[job[w].job].status \notin Monitor!Done
    BY <1>3, <2>2 DEF DecisionInv, Monitor!Propose
  <2>4. p.assessment # job[w].assessment
    BY <2>2, <2>3
  <2> DEFINE x == [Monitor!NoProposal EXCEPT !.assessment = job[w].assessment,
                                             !.action = Monitor!ActionFor(job[w].assessment)]
  <2>5. ProposalShape(x) /\ x.assessment = job[w].assessment
    BY DEF ProposalShape, IsOn, Monitor!NoProposal
  <2>6. UNCHANGED proposals \/ Monitor!SaveProposal(x)
    BY <1>3 DEF Monitor!Propose
  <2> HIDE DEF x
  <2>7. ~Monitor!SameId(x, p)
    <3>1. [x EXCEPT !.human = p.human].assessment = x.assessment
      BY <2>5 DEF ProposalShape, IsOn
    <3> QED BY <2>4, <2>5, <3>1 DEF Monitor!SameId
  <2> QED BY <1>1, <1>2, <2>6, <2>7
<1>4. ASSUME NEW u \in Users, Monitor!SaveUserProposal(u)
      PROVE  p \in proposals'
  <2>1. ~Monitor!SameId(job[u].proposal, p)
    BY <1>4 DEF DecisionInv, Monitor!SaveUserProposal
  <2> QED BY <1>1, <1>2, <1>4, <2>1 DEF Monitor!SaveUserProposal
<1>5. ASSUME NEW w \in Workers,
             \/ Monitor!SaveRunning(w) \/ Monitor!Assess(w) \/ Monitor!SaveAssessment(w)
             \/ Monitor!RecordTransition(w) \/ Monitor!Finish(w) \/ Monitor!Fail(w)
             \/ Monitor!SaveFailed(w) \/ \E j \in Monitor!Jobs : Monitor!Run(w, j)
      PROVE  UNCHANGED proposals
  BY <1>5 DEF Monitor!SaveRunning, Monitor!Assess, Monitor!SaveAssessment, Monitor!RecordTransition,
              Monitor!Finish, Monitor!Fail, Monitor!SaveFailed, Monitor!Run, Monitor!tables
<1>6. ASSUME NEW u \in Users,
             \/ \E a \in events : Monitor!Acknowledge(u, a)
             \/ \E q \in proposals, h \in {"accepted", "rejected"} : Monitor!Decide(u, q, h)
             \/ \E f \in MonitorFilings : Monitor!Link(u, f)
      PROVE  UNCHANGED proposals
  BY <1>6 DEF Monitor!Acknowledge, Monitor!Decide, Monitor!Link, Monitor!tables
<1>7. ASSUME NEW t \in Hands, Monitor!Crash(t)
      PROVE  UNCHANGED proposals
  BY <1>7 DEF Monitor!Crash, Monitor!tables
<1>8. CASE UNCHANGED Monitor!vars
  BY <1>8 DEF Monitor!vars
<1> QED BY <1>2, <1>3, <1>4, <1>5, <1>6, <1>7, <1>8 DEF Monitor!Next, Monitor!Work, Hands

\* With one worker and one analyst, a decision about a job that is done is
\* final: no later attempt, official event or decision undoes it
\* (monitoring/service.py).  Two workers at one job can: the second saves its
\* proposal over the one decided after the first was done.
THEOREM DecisionsFinal ==
  ASSUME \A v, w \in Workers : v = w, \A u, v \in Users : u = v
  PROVE  Spec => DoneDecisionStays
<1>1. Alone
  BY DEF Alone
<1>2. Init => DecisionInv
  <2> SUFFICES ASSUME Init PROVE DecisionInv
    OBVIOUS
  <2>1. worker = [t \in Hands |-> "idle"]
    BY DEF Init, Monitor!Init, Hands
  <2> QED BY <2>1, MonitorStart DEF DecisionInv, Hands
<1>3. DecisionInv /\ [Next]_rows => DecisionInv'
  BY <1>1, MonitorAtWork, DecisionStep
<1>4. DecisionInv /\ [Next]_rows =>
        [\A p \in proposals :
           Monitor!Decided(p) /\ jobs[<<assessments[p.assessment].market,
                                        assessments[p.assessment].day>>].status \in Monitor!Done
             => p \in proposals']_Monitor!vars
  BY MonitorAtWork, DecidedStays DEF JobOf
<1> QED BY <1>2, <1>3, <1>4, PTL DEF Spec, DoneDecisionStays, Monitor!DoneDecisionStays

-----------------------------------------------------------------------------
(* LiveStream: a message is on its way once, from the provider to the      *)
(* queue, from there to the poll's batch and from there into the log; the  *)
(* poll that reads counts what it has not stored yet.                      *)

\* Distinct messages, none of which is in the log or yet to come.
Fresh(s) ==
  /\ s \in Seq(News)
  /\ \A i \in 1..Len(s) : s[i] \notin kept \cup unsent
  /\ \A i, j \in 1..Len(s) : s[i] = s[j] => i = j

Rests == {"failed", "dead", "stopped"}
Waiting == phase \notin Rests => source.queue = <<>>

\* A poll that has read owes the log what it still has to store.
Owed(p) ==
  /\ p = [pc |-> "ingest", then |-> p.then, else |-> p.else, batch |-> p.batch, next |-> p.next]
  /\ source.queue = <<>>
  /\ Fresh(p.batch)
  /\ p.next.cursor \in Nat /\ p.next.cursor <= Cardinality(kept) + Len(p.batch)
  /\ p.next.last \in kept \cup {"none"} \cup {p.batch[i] : i \in 1..Len(p.batch)}

Logged == row.cursor <= Cardinality(kept) /\ row.last \in kept \cup {"none"}

StreamInv ==
  /\ \/ poll = Stream!NoPoll /\ Waiting
     \/ /\ poll.pc = "load" /\ poll.else \in Rests
     \/ /\ poll.pc = "ingest" /\ poll.else \in Rests
        /\ Owed(poll)
  /\ source = [queue |-> source.queue, health |-> source.health, received |-> source.received]
  /\ Fresh(source.queue)
  /\ IsFiniteSet(kept) /\ kept \cap unsent = {} /\ unsent \subseteq News
  /\ row.cursor \in Nat
  /\ Logged

LEMMA SameCount == \A S : Stream!Cardinality(S) = Cardinality(S)
  BY DEF Stream!Cardinality, Cardinality

LEMMA FreshMore ==
  ASSUME NEW s, Fresh(s), NEW m \in unsent, m \in News, kept \cap unsent = {},
         kept' = kept, unsent' = unsent \ {m}
  PROVE  Fresh(Append(s, m))'
BY DEF Fresh

LEMMA FreshStill ==
  ASSUME NEW s, Fresh(s), kept' = kept, unsent' \subseteq unsent
  PROVE  Fresh(s)'
BY DEF Fresh

LEMMA FreshLess ==
  ASSUME NEW s, Fresh(s), s # <<>>, IsFiniteSet(kept), kept' = kept \cup {Head(s)},
         unsent' = unsent
  PROVE  /\ Fresh(Tail(s))' /\ Len(Tail(s)) = Len(s) - 1 /\ Len(s) \in Nat
         /\ IsFiniteSet(kept') /\ Cardinality(kept') = Cardinality(kept) + 1
         /\ Head(s) \notin unsent
         /\ {s[i] : i \in 1..Len(s)} \subseteq {Head(s)} \cup {Tail(s)[i] : i \in 1..Len(Tail(s))}
<1>1. /\ s \in Seq(News) /\ Len(s) \in Nat /\ Len(s) > 0 /\ Head(s) = s[1]
      /\ Tail(s) \in Seq(News) /\ Len(Tail(s)) = Len(s) - 1
      /\ \A i \in 1..Len(Tail(s)) : Tail(s)[i] = s[i + 1]
  BY DEF Fresh
<1>2. s[1] \notin kept \cup unsent
  BY <1>1 DEF Fresh
<1>3. Fresh(Tail(s))'
  BY <1>1, <1>2 DEF Fresh
<1>4. ASSUME NEW i \in 1..Len(s), i # 1
      PROVE  s[i] \in {Tail(s)[j] : j \in 1..Len(Tail(s))}
  <2>1. i - 1 \in 1..Len(Tail(s)) /\ Tail(s)[i - 1] = s[i]
    BY <1>1, <1>4
  <2> QED BY <2>1
<1> QED BY <1>1, <1>2, <1>3, <1>4, FS_AddElement

\* The worker goes on, or a poll begins: the log and the checkpoint stay.
LEMMA WorkerMoves ==
  ASSUME StreamInv, UNCHANGED <<row, kept>>, unsent' \subseteq unsent,
         source' = [queue |-> source'.queue, health |-> source'.health,
                    received |-> source'.received],
         Fresh(source.queue)',
         \/ poll' = Stream!NoPoll /\ Waiting'
         \/ poll'.pc = "load" /\ poll'.else \in Rests
  PROVE  StreamInv'
BY DEF StreamInv, Logged

\* What a change of health leaves of the source.
LEMMA HealthOnly ==
  ASSUME StreamInv, NEW h
  PROVE  [source EXCEPT !.health = h]
           = [queue |-> source.queue, health |-> h, received |-> source.received]
BY DEF StreamInv

LEMMA ReportMoves ==
  ASSUME StreamInv, NEW h, NEW then, NEW else \in Rests, Stream!Report(h, then, else),
         UNCHANGED <<row, kept, unsent>>
  PROVE  StreamInv'
<1>1. /\ source' = [queue |-> source.queue, health |-> h, received |-> source.received]
      /\ poll' = [pc |-> "load", then |-> then, else |-> else]
  BY HealthOnly DEF Stream!Report, Stream!Poll
<1>2. \A s : Fresh(s) => Fresh(s)'
  BY FreshStill
<1>3. Fresh(source.queue)'
  BY <1>1, <1>2 DEF StreamInv
<1> QED BY <1>1, <1>3, WorkerMoves

\* A step of the worker that polls nothing.
LEMMA PhaseMoves ==
  ASSUME StreamInv, UNCHANGED <<source, poll, row, kept, unsent>>,
         poll = Stream!NoPoll, phase' \in Rests \/ (phase \notin Rests)
  PROVE  StreamInv'
<1>1. Fresh(source.queue)'
  BY FreshStill DEF StreamInv
<1>2. Waiting'
  BY DEF StreamInv, Waiting, Stream!NoPoll
<1> QED BY <1>1, <1>2, WorkerMoves DEF StreamInv

LEMMA MessageMoves ==
  ASSUME StreamInv, NEW m \in News, Stream!Message(m)
  PROVE  StreamInv'
<1>1. /\ source' = [queue |-> Append(source.queue, m), health |-> "active",
                    received |-> source.received + 1]
      /\ poll' = [pc |-> "load", then |-> "open", else |-> "failed"]
      /\ m \in unsent /\ unsent' = unsent \ {m} /\ UNCHANGED <<row, kept>>
  BY DEF Stream!Message, Stream!Poll, Stream!Pushed
<1>2. \A s : Fresh(s) => Fresh(Append(s, m))'
  BY <1>1, FreshMore DEF StreamInv
<1>3. Fresh(source.queue)'
  BY <1>1, <1>2 DEF StreamInv
<1> QED BY <1>1, <1>3, WorkerMoves DEF Rests

LEMMA MissedMoves ==
  ASSUME StreamInv, NEW m \in News, Stream!Missed(m)
  PROVE  StreamInv'
<1>1. UNCHANGED <<phase, source, poll, row, kept>> /\ unsent' \subseteq unsent
  BY DEF Stream!Missed
<1>2. \A s : Fresh(s) => Fresh(s)'
  BY <1>1, FreshStill
<1>3. Fresh(source.queue)' /\ (Waiting => Waiting')
  BY <1>1, <1>2 DEF StreamInv, Waiting
<1>4. Owed(poll) => Owed(poll)'
  BY <1>1, <1>2 DEF Owed
<1> QED BY <1>1, <1>3, <1>4 DEF StreamInv, Logged

\* The poll is over: its worker rests, or the queue is empty.
LEMMA PollEnds ==
  ASSUME StreamInv, poll' = Stream!NoPoll, UNCHANGED <<source, kept, unsent>>,
         phase' \in Rests \/ source.queue = <<>>,
         row'.cursor \in Nat, Logged'
  PROVE  StreamInv'
<1>1. Fresh(source.queue)'
  BY FreshStill DEF StreamInv
<1> QED BY <1>1 DEF StreamInv, Waiting

LEMMA LogCounted ==
  ASSUME StreamInv
  PROVE  /\ IsFiniteSet(kept) /\ Cardinality(kept) \in Nat
         /\ row.cursor \in Nat /\ row.cursor <= Cardinality(kept)
         /\ row.last \in kept \cup {"none"}
         /\ kept \cap unsent = {}
<1>1. IsFiniteSet(kept)
  BY DEF StreamInv
<1>2. Cardinality(kept) \in Nat
  BY <1>1, FS_CardinalityType
<1> QED BY <1>1, <1>2 DEF StreamInv, Logged

LEMMA ReadMoves ==
  ASSUME StreamInv, Stream!Read
  PROVE  StreamInv'
<1> DEFINE n == Stream!Next_(source.queue)
<1>1. /\ poll.pc = "load" /\ poll.else \in Rests
      /\ poll' = [pc |-> "ingest", then |-> poll.then, else |-> poll.else,
                  batch |-> source.queue, next |-> n]
      /\ source' = [queue |-> <<>>, health |-> source.health, received |-> source.received]
      /\ UNCHANGED <<row, kept, unsent>>
  BY DEF StreamInv, Stream!Read, Stream!NoPoll
<1>2. source.queue \in Seq(News) /\ Len(source.queue) \in Nat
  BY DEF StreamInv, Fresh
<1>3. n.cursor \in Nat /\ n.cursor = row.cursor + Len(source.queue)
  BY <1>2 DEF StreamInv, Stream!Next_
<1>4. n.last \in kept \cup {"none"} \cup {source.queue[i] : i \in 1..Len(source.queue)}
  BY <1>2 DEF StreamInv, Stream!Next_, Logged
<1>5. row.cursor <= Cardinality(kept) /\ Cardinality(kept) \in Nat
  BY LogCounted
<1> HIDE DEF n
<1>6. \A s : Fresh(s) => Fresh(s)'
  BY <1>1, FreshStill
<1>7. Owed(poll)'
  BY <1>1, <1>2, <1>3, <1>4, <1>5, <1>6 DEF Owed, StreamInv
<1>8. Fresh(source.queue)'
  BY <1>1, <1>2 DEF Fresh
<1> QED BY <1>1, <1>7, <1>8 DEF StreamInv, Logged

LEMMA IngestOneMoves ==
  ASSUME StreamInv, Stream!IngestOne
  PROVE  StreamInv'
<1>1. /\ poll.pc = "ingest" /\ poll.else \in Rests /\ Owed(poll)
      /\ poll.batch # <<>> /\ Fresh(poll.batch)
      /\ kept' = kept \cup {Head(poll.batch)} /\ IsFiniteSet(kept)
      /\ UNCHANGED <<source, row, unsent>>
  BY DEF StreamInv, Stream!IngestOne, Owed, Stream!NoPoll
<1>2. poll' = [pc |-> "ingest", then |-> poll.then, else |-> poll.else,
               batch |-> Tail(poll.batch), next |-> poll.next]
  BY <1>1 DEF Owed, Stream!IngestOne
<1> DEFINE b == poll.batch
<1>3. /\ \A s : s = Tail(b) => Fresh(s)'
      /\ Len(Tail(b)) = Len(b) - 1 /\ Len(b) \in Nat
      /\ IsFiniteSet(kept') /\ Cardinality(kept') = Cardinality(kept) + 1
      /\ Head(b) \notin unsent
      /\ {b[i] : i \in 1..Len(b)} \subseteq {Head(b)} \cup {Tail(b)[i] : i \in 1..Len(Tail(b))}
  <2>1. PICK s : s = b
    OBVIOUS
  <2> QED BY <1>1, <2>1, FreshLess
<1>4. Cardinality(kept) \in Nat /\ Cardinality(kept') \in Nat
  BY <1>1, <1>3, FS_CardinalityType
<1>5. poll'.next.last \in kept' \cup {"none"} \cup {poll'.batch[i] : i \in 1..Len(poll'.batch)}
  BY <1>1, <1>2, <1>3 DEF Owed
<1>6. Fresh(poll.batch)'
  BY <1>2, <1>3
<1>7. Owed(poll)'
  BY <1>1, <1>2, <1>3, <1>4, <1>5, <1>6 DEF Owed
<1>8. Fresh(source.queue)'
  <2>1. source.queue' = <<>> /\ <<>> \in Seq(News) /\ Len(<<>>) = 0
    BY <1>1 DEF Owed
  <2> QED BY <2>1 DEF Fresh
<1>9. kept' \cap unsent' = {} /\ row'.cursor \in Nat /\ Logged'
  <2>1. row' = row /\ unsent' = unsent
    BY <1>1
  <2> QED BY <1>1, <1>3, <1>4, <2>1, LogCounted DEF Logged
<1> QED BY <1>1, <1>2, <1>3, <1>7, <1>8, <1>9 DEF StreamInv

LEMMA SaveCheckpointMoves ==
  ASSUME StreamInv, Stream!SaveCheckpoint
  PROVE  StreamInv'
<1>1. /\ poll.pc = "ingest" /\ Owed(poll) /\ poll.batch = <<>> /\ row' = poll.next
      /\ poll' = Stream!NoPoll /\ UNCHANGED <<source, kept, unsent>>
  BY DEF StreamInv, Stream!SaveCheckpoint, Stream!NoPoll
<1>2. Cardinality(kept) \in Nat
  BY LogCounted
<1> DEFINE b == poll.batch
           n == poll.next
<1>3. /\ n.cursor \in Nat /\ n.cursor <= Cardinality(kept) + Len(b) /\ source.queue = <<>>
      /\ n.last \in kept \cup {"none"} \cup {b[i] : i \in 1..Len(b)}
  BY <1>1 DEF Owed
<1>4. Len(b) = 0 /\ row' = n /\ kept' = kept
  BY <1>1
<1> HIDE DEF b, n
<1>5. row'.cursor \in Nat /\ Logged' /\ source.queue = <<>>
  BY <1>2, <1>3, <1>4 DEF Logged
<1> QED BY <1>1, <1>5, PollEnds

LEMMA RaiseMoves ==
  ASSUME StreamInv, Stream!PollFails
  PROVE  StreamInv'
<1>1. /\ poll.else \in Rests /\ phase' = poll.else /\ poll' = Stream!NoPoll
      /\ UNCHANGED <<source, row, kept, unsent>>
  BY DEF StreamInv, Stream!PollFails, Stream!Raise
<1> QED BY <1>1, PollEnds DEF StreamInv, Logged

LEMMA RestartMoves ==
  ASSUME StreamInv, Stream!Restart
  PROVE  StreamInv'
<1>1. /\ poll' = Stream!NoPoll /\ UNCHANGED <<row, kept, unsent>>
      /\ source' = [queue |-> <<>>, health |-> "not_configured", received |-> 0]
  BY DEF Stream!Restart, Stream!NewSource
<1>2. Fresh(source.queue)' /\ Waiting'
  BY <1>1 DEF Fresh, Waiting
<1> QED BY <1>1, <1>2, WorkerMoves

LEMMA StreamStep ==
  ASSUME StreamInv, [Stream!StreamNext]_Stream!streamVars
  PROVE  StreamInv'
<1>1. CASE UNCHANGED Stream!streamVars
  <2>1. (Fresh(source.queue) => Fresh(source.queue)') /\ (Waiting => Waiting')
    BY <1>1 DEF Stream!streamVars, Fresh, Waiting
  <2>2. Owed(poll) => Owed(poll)'
    BY <1>1 DEF Stream!streamVars, Owed, Fresh
  <2> QED BY <1>1, <2>1, <2>2 DEF Stream!streamVars, StreamInv, Logged
<1>2. ASSUME NEW i \in DOMAIN Stream!Handshake, Stream!Acknowledged(i)
      PROVE  StreamInv'
  <2>1. Stream!Handshake[i] \notin Rests /\ phase = Stream!Handshake[i] /\ poll = Stream!NoPoll
    BY <1>2 DEF Stream!Acknowledged, Stream!Awaits, Stream!Handshake, Rests
  <2>2. UNCHANGED <<row, kept, unsent>>
    BY <1>2 DEF Stream!Acknowledged
  <2>3. CASE Stream!Report("active", "open", "failed")
    BY <2>2, <2>3, ReportMoves DEF Rests
  <2>4. CASE UNCHANGED <<source, poll>>
    BY <2>1, <2>2, <2>4, PhaseMoves
  <2> QED BY <1>2, <2>3, <2>4 DEF Stream!Acknowledged
<1>3. CASE Stream!Breaks
  BY <1>3, PhaseMoves DEF Stream!Breaks, Stream!Awaits, Rests
<1>4. CASE Stream!Closes \/ Stream!Returned \/ Stream!Retry \/ Stream!Stop
  BY <1>4, PhaseMoves
     DEF Stream!Closes, Stream!Returned, Stream!Retry, Stream!Stop, Stream!Awaits, Rests
<1>5. CASE Stream!Malformed \/ Stream!Failed
  BY <1>5, ReportMoves DEF Stream!Malformed, Stream!Failed, Rests
<1> QED BY <1>1, <1>2, <1>3, <1>4, <1>5, MessageMoves, MissedMoves, ReadMoves, IngestOneMoves,
           SaveCheckpointMoves, RaiseMoves, RestartMoves DEF Stream!StreamNext

LEMMA StreamAtWork ==
  ASSUME [Next]_rows
  PROVE  [Stream!StreamNext]_Stream!streamVars
<1>1. CASE Only("stream") /\ Stream!StreamNext
  BY <1>1
<1>2. CASE UNCHANGED streamRows
  BY <1>2 DEF streamRows, Stream!streamVars
<1> QED BY <1>1, <1>2 DEF Next, Only, rows

LEMMA StreamStart ==
  ASSUME Init
  PROVE  StreamInv
<1>1. /\ source = [queue |-> <<>>, health |-> "not_configured", received |-> 0]
      /\ poll = Stream!NoPoll /\ kept = {} /\ unsent = News
      /\ row = [health |-> "none", cursor |-> 0, last |-> "none"]
  BY DEF Init, Stream!StreamInit, Stream!NewSource
<1>2. Fresh(source.queue) /\ Waiting
  BY <1>1 DEF Fresh, Waiting
<1>3. IsFiniteSet(kept) /\ Cardinality(kept) = 0
  BY <1>1, FS_EmptySet
<1>4. Logged
  BY <1>1, <1>3 DEF Logged
<1> QED BY <1>1, <1>2, <1>3, <1>4 DEF StreamInv

\* What the checkpoint counts, and the message it names last, is in the log,
\* whatever fails or dies between the read and the save (live/service.py,
\* poll_source).
THEOREM CountsLogged == Spec => []CountedIsLogged
<1>1. Init => StreamInv
  BY StreamStart
<1>2. StreamInv /\ [Next]_rows => StreamInv'
  BY StreamAtWork, StreamStep
<1>3. StreamInv => CountedIsLogged
  BY SameCount DEF StreamInv, Logged, CountedIsLogged, Stream!CountedIsLogged
<1> QED BY <1>1, <1>2, <1>3, PTL DEF Spec

\* No message is left in the queue of a stream that waits for the network or
\* for a retry (live/runtime.py, _set_websocket_health).
THEOREM NoneWaits == Spec => []NothingWaits
<1>1. Init => StreamInv
  BY StreamStart
<1>2. StreamInv /\ [Next]_rows => StreamInv'
  BY StreamAtWork, StreamStep
<1>3. StreamInv => NothingWaits
  BY DEF StreamInv, Waiting, Rests, NothingWaits, Stream!NothingWaits, Stream!NoPoll
<1> QED BY <1>1, <1>2, <1>3, PTL DEF Spec

-----------------------------------------------------------------------------
(* Database: whatever processes upgrade, copy, restore and die, a file has *)
(* a first part of the registry applied, as a whole.                       *)

Fields == {"tables", "ledger", "applied", "run", "names"}

\* The first k migrations and nothing else, or a database from before the registry.
Through(d, k) ==
  /\ d.applied = 1..k
  /\ IF k = 0 THEN d.tables \in {{}, Store!LEGACY_TABLES} ELSE d.tables = Store!TablesOf(1..k)

Sane(d) ==
  /\ IsOn(d, Fields)
  /\ \E k \in Nat : Through(d, k)
  /\ \A c \in d.names : c.column \in {"run_id", "parent_run_id"}
  /\ ~d.run => d.names = {}

Restores(j) == j.pc = "rename" /\ j.to = "database"

\* What process p knows of the database it works on.
Informed(p, j, applied) ==
  \/ j = [pc |-> "off"]
  \/ j = [pc |-> "ledger", automaticOnly |-> j.automaticOnly]
  \/ j = [pc |-> "read", automaticOnly |-> j.automaticOnly]
  \/ /\ j = [pc |-> "migrate", automaticOnly |-> j.automaticOnly, todo |-> j.todo]
     /\ \E a \in 0..KnownTo[p] : j.todo = (a + 1)..KnownTo[p] /\ 1..a \subseteq applied
  \/ j = [pc |-> "ready"] /\ 1..KnownTo[p] \subseteq applied
  \/ j = [pc |-> "rename", to |-> j.to] /\ j.to \in {"database", "backup"}

StoreInv ==
  /\ IsOn(file, Store!Paths) /\ IsOn(process, StoreProcesses)
  /\ \A x \in Store!Paths : Sane(file[x])
  /\ \A p \in StoreProcesses : Informed(p, process[p], file["database"].applied)
  /\ \A p, q \in StoreProcesses : Restores(process[p]) /\ p # q => process[q] = Store!Off

-----------------------------------------------------------------------------
(* The registry.                                                           *)

LEMMA RegistryEntries ==
  /\ Store!Versions = 1..12
  /\ Store!Registry[1] = Store!V1
  /\ \A i \in 1..12 : \A c \in Store!Registry[i].runs : c.column \in {"run_id", "parent_run_id"}
<1>1. /\ DOMAIN Store!Registry = 1..12
      /\ Store!Registry[1] = Store!V1 /\ Store!Registry[2] = Store!V2
      /\ Store!Registry[3] = Store!V3 /\ Store!Registry[4] = Store!V4
      /\ Store!Registry[5] = Store!V5 /\ Store!Registry[6] = Store!V6
      /\ Store!Registry[7] = Store!V7 /\ Store!Registry[8] = Store!V8
      /\ Store!Registry[9] = Store!V9 /\ Store!Registry[10] = Store!V10
      /\ Store!Registry[11] = Store!V11 /\ Store!Registry[12] = Store!V12
  BY DEF Store!Registry
<1> DEFINE Refers(r) == \A c \in r.runs : c.column \in {"run_id", "parent_run_id"}
<1>2. /\ Refers(Store!V1) /\ Refers(Store!V2) /\ Refers(Store!V3)
      /\ Refers(Store!V5) /\ Refers(Store!V10) /\ Refers(Store!V12)
  BY DEF Store!V1, Store!V2, Store!V3, Store!V5, Store!V10, Store!V12, Store!Column
<1>3. Refers(Store!V8)
  BY DEF Store!V8, Store!Column
<1>4. /\ Refers(Store!V4) /\ Refers(Store!V6) /\ Refers(Store!V7)
      /\ Refers(Store!V9) /\ Refers(Store!V11)
  BY DEF Store!V4, Store!V6, Store!V7, Store!V9, Store!V11
<1> HIDE DEF Refers
<1>5. \A i \in 1..12 : Refers(Store!Registry[i])
  BY <1>1, <1>2, <1>3, <1>4
<1> QED BY <1>1, <1>5 DEF Store!Versions, Refers

LEMMA ColumnsRefer ==
  ASSUME NEW tables, NEW c \in Store!RunColumns(tables)
  PROVE  c.column \in {"run_id", "parent_run_id"}
<1>1. PICK i \in DOMAIN Store!Registry : c \in Store!Registry[i].runs
  BY DEF Store!RunColumns, Store!Range
<1>2. i \in 1..12
  BY RegistryEntries DEF Store!Versions
<1> QED BY <1>1, <1>2, RegistryEntries

LEMMA TablesMore ==
  ASSUME NEW k \in Nat
  PROVE  /\ Store!TablesOf(1..(k + 1)) = Store!TablesOf(1..k) \cup Store!TablesOf({k + 1})
         /\ Store!TablesOf({}) = {}
         /\ Store!TablesOf({1}) = Store!LEGACY_TABLES
<1>1. 1..(k + 1) = (1..k) \cup {k + 1}
  OBVIOUS
<1>2. Store!TablesOf({1}) = Store!Registry[1].tables
  BY DEF Store!TablesOf
<1> QED BY <1>1, <1>2, RegistryEntries DEF Store!TablesOf, Store!LEGACY_TABLES

LEMMA VersionsKnown ==
  ASSUME NEW p \in StoreProcesses
  PROVE  /\ KnownTo[p] \in 1..12 /\ Store!Knows(p) = 1..KnownTo[p]
BY RegistryEntries, WorkbenchAssumption DEF Store!DatabaseAssumption, Store!Knows

-----------------------------------------------------------------------------
\* One process moves and no file loses a migration.
LEMMA ProcessMoves ==
  ASSUME StoreInv, NEW p \in StoreProcesses, NEW j, Store!Go(p, j), ~Restores(j),
         process[p] # Store!Off \/ ~Store!Restoring,
         IsOn(file', Store!Paths), \A x \in Store!Paths : Sane(file'[x]),
         file["database"].applied \subseteq file'["database"].applied,
         Informed(p, j, file'["database"].applied)
  PROVE  StoreInv'
<1>1. /\ IsOn(process', StoreProcesses) /\ process'[p] = j
      /\ \A q \in StoreProcesses \ {p} : process'[q] = process[q]
  BY DEF StoreInv, Store!Go, IsOn
<1>2. \A q \in StoreProcesses : \A k : Informed(q, k, file["database"].applied)
                                => Informed(q, k, file'["database"].applied)
  BY DEF Informed
<1>3. \A q \in StoreProcesses : Informed(q, process'[q], file'["database"].applied)
  BY <1>1, <1>2 DEF StoreInv
<1>4. ASSUME NEW q \in StoreProcesses, NEW r \in StoreProcesses, Restores(process'[q]), q # r
      PROVE  process'[r] = Store!Off
  <2>1. q # p /\ Restores(process[q])
    BY <1>1, <1>4
  <2>2. Store!Restoring
    BY <2>1 DEF Restores, Store!Restoring
  <2>3. process[p] = Store!Off
    BY <2>1 DEF StoreInv
  <2> QED BY <2>2, <2>3
<1> QED BY <1>1, <1>3, <1>4 DEF StoreInv

\* A process moves and leaves the files alone.
LEMMA OnlyProcess ==
  ASSUME StoreInv, NEW p \in StoreProcesses, NEW j, Store!Go(p, j), UNCHANGED file, ~Restores(j),
         process[p] # Store!Off \/ ~Store!Restoring,
         Informed(p, j, file["database"].applied)
  PROVE  StoreInv'
BY ProcessMoves DEF StoreInv

\* The database is written.
LEMMA Written ==
  ASSUME StoreInv, NEW d, Sane(d), Store!Write(d)
  PROVE  /\ IsOn(file', Store!Paths) /\ \A x \in Store!Paths : Sane(file'[x])
         /\ file'["database"] = d
BY DEF StoreInv, Store!Write, IsOn, Store!Paths

LEMMA SanePart ==
  ASSUME NEW d, Sane(d), NEW e, IsOn(e, Fields), e.tables = d.tables, e.applied = d.applied,
         \A c \in e.names : c.column \in {"run_id", "parent_run_id"},
         ~e.run => e.names = {}
  PROVE  Sane(e)
BY DEF Sane, Through

LEMMA OpenMoves ==
  ASSUME StoreInv, NEW p \in StoreProcesses, NEW flag \in BOOLEAN, Store!Open(p, flag)
  PROVE  StoreInv'
<1> DEFINE j == [pc |-> "ledger", automaticOnly |-> flag]
<1>1. Store!Go(p, j) /\ UNCHANGED file /\ ~Store!Restoring
  BY DEF Store!Open, Store!Upgrading, Store!Command
<1>2. ~Restores(j) /\ Informed(p, j, file["database"].applied)
  BY DEF Restores, Informed
<1> HIDE DEF j
<1> QED BY <1>1, <1>2, OnlyProcess

\* What a process knows, by where it is.
LEMMA InformedOf ==
  ASSUME NEW p, NEW j, NEW applied, Informed(p, j, applied)
  PROVE  /\ j.pc = "ledger" => j = [pc |-> "ledger", automaticOnly |-> j.automaticOnly]
         /\ j.pc = "migrate" =>
              /\ j = [pc |-> "migrate", automaticOnly |-> j.automaticOnly, todo |-> j.todo]
              /\ \E a \in 0..KnownTo[p] : j.todo = (a + 1)..KnownTo[p] /\ 1..a \subseteq applied
         /\ j.pc = "ready" => 1..KnownTo[p] \subseteq applied
         /\ j.pc = "rename" => j = [pc |-> "rename", to |-> j.to] /\ j.to \in {"database", "backup"}
<1>1. CASE j = [pc |-> "off"]
  BY <1>1
<1>2. CASE j = [pc |-> "ledger", automaticOnly |-> j.automaticOnly]
  BY <1>2
<1>3. CASE j = [pc |-> "read", automaticOnly |-> j.automaticOnly]
  BY <1>3
<1>4. CASE /\ j = [pc |-> "migrate", automaticOnly |-> j.automaticOnly, todo |-> j.todo]
           /\ \E a \in 0..KnownTo[p] : j.todo = (a + 1)..KnownTo[p] /\ 1..a \subseteq applied
  <2>1. j.pc = "migrate"
    BY <1>4
  <2> QED BY <1>4, <2>1
<1>5. CASE j = [pc |-> "ready"] /\ 1..KnownTo[p] \subseteq applied
  BY <1>5
<1>6. CASE j = [pc |-> "rename", to |-> j.to] /\ j.to \in {"database", "backup"}
  BY <1>6
<1> QED BY <1>1, <1>2, <1>3, <1>4, <1>5, <1>6 DEF Informed

LEMMA CreateLedgerMoves ==
  ASSUME StoreInv, NEW p \in StoreProcesses, Store!CreateLedger(p)
  PROVE  StoreInv'
<1> DEFINE d == file["database"]
           e == [d EXCEPT !.ledger = TRUE]
           j == [process[p] EXCEPT !.pc = "read"]
<1>1. Store!Write(e) /\ Store!Go(p, j) /\ process[p].pc = "ledger"
  BY DEF Store!CreateLedger, Store!Here
<1>2. Sane(d)
  BY DEF StoreInv, Store!Paths
<1>3. IsOn(e, Fields) /\ \A x \in Fields \ {"ledger"} : e[x] = d[x]
  BY <1>2 DEF Sane, IsOn, Fields
<1>4. Sane(e) /\ e.applied = d.applied
  <2>1. e.tables = d.tables /\ e.applied = d.applied /\ e.run = d.run /\ e.names = d.names
    BY <1>3 DEF Fields
  <2> HIDE DEF e
  <2> QED BY <1>2, <1>3, <2>1, SanePart DEF Sane
<1>5. process[p] = [pc |-> "ledger", automaticOnly |-> process[p].automaticOnly]
  BY <1>1, InformedOf DEF StoreInv
<1>6. j = [pc |-> "read", automaticOnly |-> process[p].automaticOnly]
  BY <1>5
<1>7. ~Restores(j) /\ Informed(p, j, e.applied) /\ process[p] # Store!Off
  BY <1>5, <1>6 DEF Restores, Informed, Store!Off
<1> HIDE DEF e, j
<1> QED BY <1>1, <1>4, <1>7, Written, ProcessMoves

LEMMA ReadAppliedMoves ==
  ASSUME StoreInv, NEW p \in StoreProcesses, Store!ReadApplied(p)
  PROVE  StoreInv'
<1> DEFINE applied == file["database"].applied
           j == [pc |-> "migrate", automaticOnly |-> process[p].automaticOnly,
                 todo |-> Store!Knows(p) \ applied]
<1>1. /\ UNCHANGED file /\ process[p].pc = "read"
      /\ \/ applied \subseteq Store!Knows(p) /\ Store!Go(p, j)
         \/ Store!Go(p, Store!Off)
  BY DEF Store!ReadApplied, Store!Here
<1>2. process[p] # Store!Off
  BY <1>1 DEF Store!Off
<1>3. CASE Store!Go(p, Store!Off)
  BY <1>1, <1>2, <1>3, OnlyProcess DEF Informed, Restores, Store!Off
<1>4. ASSUME applied \subseteq Store!Knows(p), Store!Go(p, j)
      PROVE  StoreInv'
  <2>1. PICK k \in Nat : applied = 1..k
    BY DEF StoreInv, Store!Paths, Sane, Through
  <2>2. KnownTo[p] \in Nat /\ Store!Knows(p) = 1..KnownTo[p]
    BY VersionsKnown
  <2>3. k <= KnownTo[p]
    BY <1>4, <2>1, <2>2
  <2>4. Store!Knows(p) \ applied = (k + 1)..KnownTo[p]
    BY <2>1, <2>2, <2>3
  <2>5. Informed(p, j, applied)
    BY <2>1, <2>2, <2>3, <2>4 DEF Informed
  <2>6. ~Restores(j)
    BY DEF Restores
  <2> HIDE DEF j
  <2> QED BY <1>1, <1>2, <1>4, <2>5, <2>6, OnlyProcess
<1> QED BY <1>1, <1>3, <1>4

\* A process with something to do has the first versions it knows behind it.
LEMMA NextVersion ==
  ASSUME StoreInv, NEW p \in StoreProcesses, process[p].pc = "migrate"
  PROVE  \E a \in 0..KnownTo[p] :
           /\ process[p] = [pc |-> "migrate", automaticOnly |-> process[p].automaticOnly,
                            todo |-> process[p].todo]
           /\ process[p].todo = (a + 1)..KnownTo[p]
           /\ 1..a \subseteq file["database"].applied
           /\ process[p].todo # {} =>
                /\ a < KnownTo[p]
                /\ (CHOOSE w \in process[p].todo : \A u \in process[p].todo : w <= u) = a + 1
<1>1. PICK a \in 0..KnownTo[p] :
         /\ process[p] = [pc |-> "migrate", automaticOnly |-> process[p].automaticOnly,
                          todo |-> process[p].todo]
         /\ process[p].todo = (a + 1)..KnownTo[p] /\ 1..a \subseteq file["database"].applied
  BY InformedOf DEF StoreInv
<1>2. KnownTo[p] \in Nat
  BY VersionsKnown
<1>3. ASSUME process[p].todo # {}
      PROVE  /\ a < KnownTo[p]
             /\ (CHOOSE w \in process[p].todo : \A u \in process[p].todo : w <= u) = a + 1
  <2>1. a < KnownTo[p] /\ a + 1 \in process[p].todo /\ \A u \in process[p].todo : a + 1 <= u
    BY <1>1, <1>2, <1>3
  <2>2. \A w \in process[p].todo : (\A u \in process[p].todo : w <= u) => w = a + 1
    BY <1>1, <1>2, <2>1
  <2> QED BY <2>1, <2>2
<1> QED BY <1>1, <1>3

\* The migration after the last one applied.
LEMMA MigratedSane ==
  ASSUME NEW d, Sane(d), NEW a \in Nat, 1..a \subseteq d.applied, a + 1 \notin d.applied,
         NEW e, IsOn(e, Fields), e.names = d.names, e.run = d.run,
         e.tables = d.tables \cup Store!TablesOf({a + 1}), e.applied = d.applied \cup {a + 1}
  PROVE  Sane(e)
<1>1. PICK k \in Nat : Through(d, k)
  BY DEF Sane
<1>2. k = a
  BY <1>1 DEF Through
<1>3. e.applied = 1..(a + 1)
  BY <1>1, <1>2 DEF Through
<1>4. e.tables = Store!TablesOf(1..(a + 1))
  <2>1. CASE a = 0
    <3>1. d.tables \in {{}, Store!LEGACY_TABLES} /\ 1..(a + 1) = {1}
      BY <1>1, <1>2, <2>1 DEF Through
    <3> QED BY <2>1, <3>1, TablesMore
  <2>2. CASE a # 0
    BY <1>1, <1>2, <2>2, TablesMore DEF Through
  <2> QED BY <2>1, <2>2
<1>5. a + 1 \in Nat /\ a + 1 # 0
  OBVIOUS
<1>6. Through(e, a + 1)
  BY <1>3, <1>4, <1>5 DEF Through
<1> QED BY <1>5, <1>6 DEF Sane

LEMMA MigrateMoves ==
  ASSUME StoreInv, NEW p \in StoreProcesses, Store!Migrate(p)
  PROVE  StoreInv'
<1> DEFINE d == file["database"]
           v == CHOOSE w \in process[p].todo : \A u \in process[p].todo : w <= u
           e == [d EXCEPT !.tables = d.tables \cup Store!TablesOf({v}),
                          !.applied = d.applied \cup {v}]
           j == [process[p] EXCEPT !.todo = process[p].todo \ {v}]
<1>1. /\ process[p].pc = "migrate" /\ process[p].todo # {}
      /\ \/ Store!Go(p, Store!Off) /\ UNCHANGED file
         \/ v \notin d.applied /\ Store!Write(e) /\ Store!Go(p, j)
  BY DEF Store!Migrate, Store!Here
<1>2. process[p] # Store!Off
  BY <1>1 DEF Store!Off
<1>3. CASE Store!Go(p, Store!Off) /\ UNCHANGED file
  BY <1>2, <1>3, OnlyProcess DEF Informed, Restores, Store!Off
<1>4. ASSUME v \notin d.applied, Store!Write(e), Store!Go(p, j)
      PROVE  StoreInv'
  <2>1. PICK a \in 0..KnownTo[p] :
          /\ process[p] = [pc |-> "migrate", automaticOnly |-> process[p].automaticOnly,
                           todo |-> process[p].todo]
          /\ process[p].todo = (a + 1)..KnownTo[p] /\ 1..a \subseteq d.applied
          /\ a < KnownTo[p] /\ v = a + 1
    BY <1>1, NextVersion
  <2>2. Sane(d) /\ KnownTo[p] \in Nat
    BY VersionsKnown DEF StoreInv, Store!Paths
  <2> HIDE DEF v
  <2>3. /\ IsOn(e, Fields) /\ e.names = d.names /\ e.run = d.run
        /\ e.tables = d.tables \cup Store!TablesOf({v}) /\ e.applied = d.applied \cup {v}
    <3>1. IsOn(d, Fields)
      BY <2>2 DEF Sane
    <3> QED BY <3>1 DEF IsOn, Fields
  <2>4. j = [pc |-> "migrate", automaticOnly |-> process[p].automaticOnly,
             todo |-> process[p].todo \ {v}]
    <3>1. \A k, w : k = [pc |-> "migrate", automaticOnly |-> k.automaticOnly, todo |-> k.todo]
            => [k EXCEPT !.todo = k.todo \ {w}]
                 = [pc |-> "migrate", automaticOnly |-> k.automaticOnly, todo |-> k.todo \ {w}]
      OBVIOUS
    <3> QED BY <2>1, <3>1
  <2>5. /\ a + 1 \in 0..KnownTo[p] /\ process[p].todo \ {v} = (a + 1 + 1)..KnownTo[p]
        /\ 1..(a + 1) \subseteq d.applied \cup {v}
    BY <2>1, <2>2
  <2>6. Informed(p, j, e.applied) /\ ~Restores(j)
    BY <2>3, <2>4, <2>5 DEF Informed, Restores
  <2> HIDE DEF e, j, d
  <2>7. Sane(e)
    <3>1. a \in Nat /\ a + 1 \notin d.applied /\ 1..a \subseteq d.applied
      BY <1>4, <2>1, <2>2
    <3>2. /\ e.tables = d.tables \cup Store!TablesOf({a + 1})
          /\ e.applied = d.applied \cup {a + 1}
      BY <2>1, <2>3
    <3> QED BY <2>2, <2>3, <3>1, <3>2, MigratedSane
  <2>8. file["database"] = d
    BY DEF d
  <2> QED BY <1>2, <1>4, <2>3, <2>6, <2>7, <2>8, Written, ProcessMoves
<1> QED BY <1>1, <1>3, <1>4

LEMMA FinishUpgradeMoves ==
  ASSUME StoreInv, NEW p \in StoreProcesses, Store!FinishUpgrade(p)
  PROVE  StoreInv'
<1>1. /\ process[p].pc = "migrate" /\ process[p].todo = {} /\ UNCHANGED file
      /\ Store!Go(p, [pc |-> "ready"]) \/ Store!Go(p, Store!Off)
  BY DEF Store!FinishUpgrade, Store!Here
<1>2. process[p] # Store!Off
  BY <1>1 DEF Store!Off
<1>3. 1..KnownTo[p] \subseteq file["database"].applied
  <2>1. PICK a \in 0..KnownTo[p] :
          (a + 1)..KnownTo[p] = {} /\ 1..a \subseteq file["database"].applied
    BY <1>1, NextVersion
  <2>2. KnownTo[p] \in Nat
    BY VersionsKnown
  <2>3. a = KnownTo[p]
    BY <2>1, <2>2
  <2> QED BY <2>1, <2>3
<1> QED BY <1>1, <1>2, <1>3, OnlyProcess DEF Informed, Restores, Store!Off

\* A migration that fails, a copy that fails, a stop.
LEMMA LeaveMoves ==
  ASSUME StoreInv, NEW p \in StoreProcesses, Store!MigrationFails(p) \/ Store!Stop(p)
  PROVE  StoreInv'
BY OnlyProcess DEF Store!MigrationFails, Store!Stop, Store!Here, Informed, Restores, Store!Off

LEMMA NoFileSane == Sane(Store!NoFile)
<1>1. Through(Store!NoFile, 0)
  BY DEF Through, Store!NoFile
<1> QED BY <1>1 DEF Sane, IsOn, Fields, Store!NoFile

LEMMA PathsApart ==
  /\ {"database", "backup"} \subseteq Store!Paths /\ StoreProcesses \subseteq Store!Paths
  /\ "database" # "backup" /\ \A p \in StoreProcesses : p # "database" /\ p # "backup"
BY WorkbenchAssumption DEF Store!Paths, Store!DatabaseAssumption

\* A process writes its temporary file, and the database stays.
LEMMA Copied ==
  ASSUME StoreInv, NEW x \in Store!Paths, x # "database", NEW d, Sane(d), NEW f,
         f = [file EXCEPT ![x] = d]
  PROVE  /\ IsOn(f, Store!Paths) /\ \A y \in Store!Paths : Sane(f[y])
         /\ f["database"] = file["database"]
BY PathsApart DEF StoreInv, IsOn

LEMMA CopyDoes ==
  ASSUME StoreInv, NEW p \in StoreProcesses, NEW x \in {"database", "backup"}, NEW j,
         Store!Copy(p, x, j)
  PROVE  /\ process[p] = Store!Off /\ ~Store!Restoring /\ Store!Go(p, j)
         /\ IsOn(file', Store!Paths) /\ \A y \in Store!Paths : Sane(file'[y])
         /\ file'["database"] = file["database"]
<1>1. /\ process[p] = Store!Off /\ ~Store!Restoring /\ Store!Go(p, j)
      /\ file' = [file EXCEPT ![p] = file[x]]
  BY DEF Store!Copy, Store!Command
<1>2. p \in Store!Paths /\ p # "database" /\ Sane(file[x])
  BY PathsApart DEF StoreInv
<1> QED BY <1>1, <1>2, Copied

LEMMA BackupMoves ==
  ASSUME StoreInv, NEW p \in StoreProcesses, NEW flag \in BOOLEAN, Store!Backup(p, flag)
  PROVE  StoreInv'
<1> DEFINE j == [pc |-> "rename", to |-> "backup"]
<1>1. Store!Copy(p, "database", j)
  BY DEF Store!Backup
<1>2. ~Restores(j) /\ Informed(p, j, file'["database"].applied)
  BY DEF Restores, Informed
<1> HIDE DEF j
<1> QED BY <1>1, <1>2, CopyDoes, ProcessMoves

\* Nothing else is at work while the database is put back.
LEMMA Restored ==
  ASSUME StoreInv, NEW p \in StoreProcesses, NEW j, Store!Go(p, j),
         \A q \in StoreProcesses \ {p} : process[q] = Store!Off,
         IsOn(file', Store!Paths), \A x \in Store!Paths : Sane(file'[x]),
         Informed(p, j, file'["database"].applied)
  PROVE  StoreInv'
<1>1. /\ IsOn(process', StoreProcesses) /\ process'[p] = j
      /\ \A q \in StoreProcesses \ {p} : process'[q] = Store!Off
  BY DEF StoreInv, Store!Go, IsOn
<1>2. \A q \in StoreProcesses : Informed(q, Store!Off, file'["database"].applied)
  BY DEF Informed, Store!Off
<1>3. ~Restores(Store!Off)
  BY DEF Restores, Store!Off
<1>4. \A q \in StoreProcesses : Informed(q, process'[q], file'["database"].applied)
  BY <1>1, <1>2
<1> QED BY <1>1, <1>3, <1>4 DEF StoreInv

LEMMA RestoreMoves ==
  ASSUME StoreInv, NEW p \in StoreProcesses, NEW flag \in BOOLEAN, Store!Restore(p, flag)
  PROVE  StoreInv'
<1> DEFINE j == [pc |-> "rename", to |-> "database"]
<1>1. Store!Copy(p, "backup", j) /\ \A q \in StoreProcesses : process[q] = Store!Off
  BY DEF Store!Restore
<1>2. Informed(p, j, file'["database"].applied)
  BY DEF Informed
<1> HIDE DEF j
<1> QED BY <1>1, <1>2, CopyDoes, Restored

LEMMA RenameMoves ==
  ASSUME StoreInv, NEW p \in StoreProcesses, Store!Rename(p)
  PROVE  StoreInv'
<1>1. process[p].pc = "rename" /\ process[p] # Store!Off
  BY DEF Store!Rename, Store!Here, Store!Off
<1>2. PICK to \in {"database", "backup"} : to = process[p].to
  BY <1>1, InformedOf DEF StoreInv
<1>3. /\ file' = [file EXCEPT ![to] = file[p], ![p] = Store!NoFile]
      /\ Store!Go(p, IF to = "database" THEN [pc |-> "ledger", automaticOnly |-> FALSE]
                     ELSE Store!Off)
  BY <1>2 DEF Store!Rename, Store!Upgrading
<1>4. to # p /\ to \in Store!Paths /\ p \in Store!Paths /\ Sane(file[p])
  BY PathsApart DEF StoreInv
<1>5. /\ IsOn(file', Store!Paths)
      /\ file'[to] = file[p] /\ file'[p] = Store!NoFile
      /\ \A x \in Store!Paths \ {to, p} : file'[x] = file[x]
  BY <1>3, <1>4 DEF StoreInv, IsOn
<1>6. \A x \in Store!Paths : Sane(file'[x])
  BY <1>4, <1>5, NoFileSane DEF StoreInv
<1>7. CASE to = "backup"
  <2>1. file'["database"] = file["database"] /\ Store!Go(p, Store!Off)
    BY <1>3, <1>5, <1>7, PathsApart
  <2>2. Informed(p, Store!Off, file'["database"].applied) /\ ~Restores(Store!Off)
    BY DEF Informed, Restores, Store!Off
  <2> QED BY <1>1, <1>5, <1>6, <2>1, <2>2, ProcessMoves
<1>8. CASE to = "database"
  <2> DEFINE j == [pc |-> "ledger", automaticOnly |-> FALSE]
  <2>1. Store!Go(p, j) /\ Informed(p, j, file'["database"].applied)
    BY <1>3, <1>8 DEF Informed
  <2>2. \A q \in StoreProcesses \ {p} : process[q] = Store!Off
    BY <1>1, <1>2, <1>8 DEF StoreInv, Restores
  <2> HIDE DEF j
  <2> QED BY <1>5, <1>6, <2>1, <2>2, Restored
<1> QED BY <1>2, <1>7, <1>8

LEMMA CopyFailsMoves ==
  ASSUME StoreInv, NEW p \in StoreProcesses, Store!CopyFails(p)
  PROVE  StoreInv'
<1>1. /\ process[p] # Store!Off /\ Store!Go(p, Store!Off)
      /\ file' = [file EXCEPT ![p] = Store!NoFile]
  BY DEF Store!CopyFails, Store!Here, Store!Off
<1>2. p \in Store!Paths /\ p # "database"
  BY PathsApart
<1>3. /\ IsOn(file', Store!Paths) /\ \A y \in Store!Paths : Sane(file'[y])
      /\ file'["database"] = file["database"]
  BY <1>1, <1>2, NoFileSane, Copied
<1>4. Informed(p, Store!Off, file'["database"].applied) /\ ~Restores(Store!Off)
  BY DEF Informed, Restores, Store!Off
<1> QED BY <1>1, <1>3, <1>4, ProcessMoves

\* The run's rows are written, under the tables there are.
LEMMA MigrationRuns ==
  ASSUME StoreInv, NEW e, Store!Write(e), UNCHANGED process, IsOn(e, Fields),
         e.tables = file["database"].tables, e.applied = file["database"].applied,
         \A c \in e.names : c.column \in {"run_id", "parent_run_id"},
         ~e.run => e.names = {}
  PROVE  StoreInv'
<1>1. Sane(file["database"])
  BY PathsApart DEF StoreInv
<1>2. Sane(e)
  BY <1>1, SanePart
<1>3. /\ IsOn(file', Store!Paths) /\ \A x \in Store!Paths : Sane(file'[x])
      /\ file'["database"].applied = file["database"].applied
  BY <1>2, Written
<1> QED BY <1>3 DEF StoreInv

\* What no blocker protects is named by no row.
LEMMA BlockersAll ==
  ASSUME StoreInv, Store!Blockers(file["database"]) = {}
  PROVE  file["database"].names = {}
BY PathsApart DEF StoreInv, Sane, Store!Blockers

LEMMA RunWrites ==
  ASSUME StoreInv, NEW p \in StoreProcesses,
         Store!SaveRun(p) \/ Store!NameRun(p) \/ Store!DeleteEmptyRun(p)
  PROVE  StoreInv'
<1> DEFINE d == file["database"]
<1>1. IsOn(d, Fields) /\ (\A c \in d.names : c.column \in {"run_id", "parent_run_id"})
  BY PathsApart DEF StoreInv, Sane
<1>2. \A v : IsOn([d EXCEPT !.run = v], Fields) /\ IsOn([d EXCEPT !.names = v], Fields)
  BY <1>1 DEF IsOn, Fields
<1>3. CASE Store!SaveRun(p)
  <2> DEFINE e == [d EXCEPT !.run = TRUE]
  <2>1. IsOn(e, Fields) /\ e.run = TRUE /\ e.names = d.names /\ e.tables = d.tables
        /\ e.applied = d.applied
    BY <1>1 DEF IsOn, Fields
  <2>2. Store!Write(e) /\ UNCHANGED process
    BY <1>3 DEF Store!SaveRun
  <2> HIDE DEF e
  <2> QED BY <1>1, <2>1, <2>2, MigrationRuns
<1>4. CASE Store!NameRun(p)
  <2>1. PICK c \in Store!RunColumns(d.tables) :
          /\ d.run /\ Store!Write([d EXCEPT !.names = {c}]) /\ UNCHANGED process
    BY <1>4 DEF Store!NameRun
  <2> DEFINE e == [d EXCEPT !.names = {c}]
  <2>2. IsOn(e, Fields) /\ e.run = d.run /\ e.names = {c} /\ e.tables = d.tables
        /\ e.applied = d.applied
    BY <1>1 DEF IsOn, Fields
  <2>3. Store!Write(e) /\ c.column \in {"run_id", "parent_run_id"}
    BY <2>1, ColumnsRefer
  <2> HIDE DEF e
  <2> QED BY <2>1, <2>2, <2>3, MigrationRuns
<1>5. CASE Store!DeleteEmptyRun(p)
  <2> DEFINE left == {c \in d.names : c.onDelete = "nothing"}
             e == [d EXCEPT !.run = FALSE, !.names = left]
  <2>1. Store!Write(e) /\ UNCHANGED process /\ Store!Blockers(d) = {}
    BY <1>5 DEF Store!DeleteEmptyRun
  <2>2. left = {}
    BY <2>1, BlockersAll
  <2> HIDE DEF left
  <2>3. IsOn(e, Fields) /\ e.run = FALSE /\ e.names = {} /\ e.tables = d.tables
        /\ e.applied = d.applied
    BY <1>1, <2>2 DEF IsOn, Fields
  <2> HIDE DEF e
  <2> QED BY <2>1, <2>3, MigrationRuns
<1> QED BY <1>3, <1>4, <1>5

LEMMA StoreStep ==
  ASSUME StoreInv, [Store!DatabaseNext]_Store!databaseVars
  PROVE  StoreInv'
<1>1. CASE UNCHANGED Store!databaseVars
  BY <1>1 DEF Store!databaseVars, StoreInv
<1>2. CASE \E p \in StoreProcesses, flag \in BOOLEAN :
             Store!Open(p, flag) \/ Store!Backup(p, flag) \/ Store!Restore(p, flag)
  BY <1>2, OpenMoves, BackupMoves, RestoreMoves
<1>3. CASE \E p \in StoreProcesses :
             \/ Store!CreateLedger(p) \/ Store!ReadApplied(p) \/ Store!Migrate(p)
             \/ Store!MigrationFails(p) \/ Store!FinishUpgrade(p) \/ Store!Stop(p)
  BY <1>3, CreateLedgerMoves, ReadAppliedMoves, MigrateMoves, LeaveMoves, FinishUpgradeMoves
<1>4. CASE \E p \in StoreProcesses :
             \/ Store!Rename(p) \/ Store!CopyFails(p)
             \/ Store!SaveRun(p) \/ Store!NameRun(p) \/ Store!DeleteEmptyRun(p)
  BY <1>4, RenameMoves, CopyFailsMoves, RunWrites
<1> QED BY <1>1, <1>2, <1>3, <1>4 DEF Store!DatabaseNext

LEMMA StoreAtWork ==
  ASSUME [Next]_rows
  PROVE  [Store!DatabaseNext]_Store!databaseVars
<1>1. CASE Only("database") /\ Store!DatabaseNext
  BY <1>1
<1>2. CASE UNCHANGED databaseRows
  BY <1>2 DEF databaseRows, Store!databaseVars
<1> QED BY <1>1, <1>2 DEF Next, Only, rows

LEMMA StoreStart ==
  ASSUME Init
  PROVE  StoreInv
<1>1. PICK d \in {Store!NoFile, Store!Legacy} :
        file = [x \in Store!Paths |-> IF x = "database" THEN d ELSE Store!NoFile]
  BY DEF Init, Store!DatabaseInit
<1>2. process = [p \in StoreProcesses |-> Store!Off]
  BY DEF Init, Store!DatabaseInit
<1>3. Sane(Store!Legacy)
  <2>1. Through(Store!Legacy, 0)
    BY DEF Through, Store!Legacy
  <2> QED BY <2>1 DEF Sane, IsOn, Fields, Store!Legacy
<1>4. IsOn(file, Store!Paths) /\ \A x \in Store!Paths : Sane(file[x])
  BY <1>1, <1>3, NoFileSane DEF IsOn
<1>5. IsOn(process, StoreProcesses) /\ \A p \in StoreProcesses : process[p] = Store!Off
  BY <1>2 DEF IsOn
<1>6. \A p, applied : Informed(p, Store!Off, applied)
  BY DEF Informed, Store!Off
<1> QED BY <1>4, <1>5, <1>6 DEF StoreInv

LEMMA StoreCount == \A k \in Nat : Store!Cardinality(1..k) = k
<1>1. \A S : Store!Cardinality(S) = Cardinality(S)
  BY DEF Store!Cardinality, Cardinality
<1> QED BY <1>1, FS_Interval

\* The rows of schema_migrations tell the schema of every file, whatever
\* upgrades, copies and restores met, failed or died; a process that is ready
\* found its whole registry applied (runtime/migrations/manager.py).
THEOREM LedgersTell == Spec => []LedgerTellsSchema
<1>1. Init => StoreInv
  BY StoreStart
<1>2. StoreInv /\ [Next]_rows => StoreInv'
  BY StoreAtWork, StoreStep
<1>3. StoreInv => LedgerTellsSchema
  <2> SUFFICES ASSUME StoreInv PROVE Store!LedgerTellsSchema
    BY DEF LedgerTellsSchema
  <2>1. ASSUME NEW d \in Store!Range(file)
        PROVE  /\ d.applied = 1..Store!Cardinality(d.applied)
               /\ IF d.applied = {} THEN d.tables \in {{}, Store!LEGACY_TABLES}
                  ELSE d.tables = Store!TablesOf(d.applied)
    <3>1. PICK k \in Nat : Through(d, k)
      BY <2>1 DEF StoreInv, IsOn, Store!Range, Sane
    <3>2. Store!Cardinality(d.applied) = k /\ (d.applied = {} <=> k = 0)
      BY <3>1, StoreCount DEF Through
    <3> QED BY <3>1, <3>2 DEF Through
  <2>2. ASSUME NEW p \in StoreProcesses, Store!Here(p, "ready")
        PROVE  Store!Knows(p) \subseteq file["database"].applied
    BY <2>2, InformedOf, VersionsKnown DEF StoreInv, Store!Here
  <2> QED BY <2>1, <2>2 DEF Store!LedgerTellsSchema
<1> QED BY <1>1, <1>2, <1>3, PTL DEF Spec

\* A run that no blocker protects can be deleted and takes nothing with it
\* that names it, at every schema (runtime/store.py, _delete_blockers).
THEOREM DeletionsTakeNothing == Spec => []DeletionTakesNothing
<1>1. Init => StoreInv
  BY StoreStart
<1>2. StoreInv /\ [Next]_rows => StoreInv'
  BY StoreAtWork, StoreStep
<1>3. StoreInv => DeletionTakesNothing
  BY BlockersAll, PathsApart DEF StoreInv, Sane, DeletionTakesNothing, Store!DeletionTakesNothing
<1> QED BY <1>1, <1>2, <1>3, PTL DEF Spec
=============================================================================
