----------------------------- MODULE CodexServer -----------------------------
(***************************************************************************)
(* CodexAppServerClient (providers/codex_cli.py): threads of the API share *)
(* one child process, started at the first request.  A request takes the   *)
(* next id, registers a waiter under it, writes to the process and waits   *)
(* for the answer or for the timeout.  One thread per process reads what   *)
(* the process wrote, which may go on after the process has died, and      *)
(* hands an answer to the waiter registered under its id.                  *)
(*                                                                         *)
(* The process answers in any order, refuses, does not answer, or dies.    *)
(* Replacing the client by one of another executable is left out.          *)
(***************************************************************************)
EXTENDS Naturals, FiniteSets, Sequences

CONSTANTS
  Callers,      \* threads
  MaxLaunches,  \* bound on the processes started
  MaxAsks       \* bound on the requests made

ServerAssumption == MaxLaunches \in Nat

VARIABLES
  process,     \* _process: the number of the process, or 0
  launched,    \* processes started so far
  live,        \* those that run
  inbox,       \* per process: requests it was sent and has not answered, [id, method]
  stdout,      \* per process: messages its reader has not read yet
  nextId,      \* _next_id
  pending,     \* _pending: waiter id -> caller
  startLock,   \* the caller that holds _start_lock, or Nobody
  loginState,  \* _login_state: [id, completed]
  browser,     \* logins the user has not completed yet, [process, id]
  call,        \* per caller: its request
  asks         \* requests made so far

serverVars == <<process, launched, live, inbox, stdout, nextId, pending, startLock,
                loginState, browser, call, asks>>

Nobody == "nobody"
Processes == 1..MaxLaunches
Methods == {"read", "login"}   \* account/read and model/list; account/login/start
NoAnswer == [kind |-> "none"]
Idle == [pc |-> "idle", method |-> "none", id |-> 0, asked |-> 0, answer |-> NoAnswer]

ServerInit ==
  /\ process = 0
  /\ launched = 0
  /\ live = {}
  /\ inbox = [p \in Processes |-> {}]
  /\ stdout = [p \in Processes |-> <<>>]
  /\ nextId = 0
  /\ pending = <<>>
  /\ startLock = Nobody
  /\ loginState = [id |-> 0, completed |-> FALSE]
  /\ browser = {}
  /\ call = [c \in Callers |-> Idle]
  /\ asks = 0

-----------------------------------------------------------------------------
running == process \in live

At(c, pc) == call[c].pc = pc
Goto(c, pc) == call' = [call EXCEPT ![c].pc = pc]
Pop(id) == pending' = [i \in DOMAIN pending \ {id} |-> pending[i]]

\* The next id and a waiter under it.
Register(c, pc) ==
  /\ nextId' = nextId + 1
  /\ pending' = [i \in DOMAIN pending \cup {nextId'} |-> IF i = nextId' THEN c ELSE pending[i]]
  /\ call' = [call EXCEPT ![c] = [@ EXCEPT !.pc = pc, !.id = nextId', !.answer = NoAnswer]]

\* The caller raises or returns: its waiter is gone, as is what it held.
Ends(c) == call' = [call EXCEPT ![c] = Idle] /\ Pop(call[c].id)

close == process' = 0 /\ live' = live \ {process}

\* _send: the request is in the pipe of the process that is running now.
Sent(c, pc, method) ==
  /\ inbox' = [inbox EXCEPT ![process] = @ \cup {[id |-> call[c].id, method |-> method]}]
  /\ call' = [call EXCEPT ![c] = [@ EXCEPT !.pc = pc, !.asked = process]]

\* account, models, start_chatgpt_login.
Ask(c, method) ==
  /\ At(c, "idle")
  /\ asks < MaxAsks
  /\ call' = [call EXCEPT ![c] = [Idle EXCEPT !.pc = "start", !.method = method]]
  /\ asks' = asks + 1
  /\ UNCHANGED <<process, launched, live, inbox, stdout, nextId, pending, startLock,
                 loginState, browser>>

-----------------------------------------------------------------------------
(* start: a running process is looked for without the lock and again with it. *)

Start(c) ==
  /\ At(c, "start")
  /\ Goto(c, IF running THEN "register" ELSE "wait_lock")
  /\ UNCHANGED <<process, launched, live, inbox, stdout, nextId, pending, startLock,
                 loginState, browser, asks>>

TakeLock(c) ==
  /\ At(c, "wait_lock")
  /\ startLock = Nobody
  /\ \/ ~running /\ startLock' = c /\ Goto(c, "launch")
     \/ running /\ Goto(c, "register") /\ UNCHANGED startLock
  /\ UNCHANGED <<process, launched, live, inbox, stdout, nextId, pending, loginState,
                 browser, asks>>

\* Mutant: the ids of a new process start at one again.
Launch_RestartIds(c) ==
  /\ At(c, "launch")
  /\ launched < MaxLaunches
  /\ launched' = launched + 1
  /\ process' = launched'
  /\ live' = (live \ {process}) \cup {launched'}
  /\ Goto(c, "hello")
  /\ nextId' = 0
  /\ UNCHANGED <<inbox, stdout, pending, startLock, loginState, browser, asks>>

\* close, then Popen: from here on the other callers see a running process.
Launch(c) ==
  /\ At(c, "launch")
  /\ launched < MaxLaunches
  /\ launched' = launched + 1
  /\ process' = launched'
  /\ live' = (live \ {process}) \cup {launched'}
  /\ Goto(c, "hello")
  /\ UNCHANGED <<inbox, stdout, nextId, pending, startLock, loginState, browser, asks>>

LaunchFails(c) ==
  /\ At(c, "launch")
  /\ close
  /\ startLock' = Nobody
  /\ Ends(c)
  /\ UNCHANGED <<launched, inbox, stdout, nextId, loginState, browser, asks>>

Hello(c) ==
  /\ At(c, "hello")
  /\ Register(c, "send_hello")
  /\ UNCHANGED <<process, launched, live, inbox, stdout, startLock, loginState, browser, asks>>

SendHello(c) ==
  /\ At(c, "send_hello")
  /\ running
  /\ Sent(c, "initializing", "initialize")
  /\ UNCHANGED <<process, launched, live, stdout, nextId, pending, startLock, loginState,
                 browser, asks>>

\* "initialized" is sent and the lock released; the request itself comes next.
Initialized(c) ==
  /\ At(c, "initializing")
  /\ call[c].answer.kind = "result"
  /\ running
  /\ startLock' = Nobody
  /\ Goto(c, "register")
  /\ Pop(call[c].id)
  /\ UNCHANGED <<process, launched, live, inbox, stdout, nextId, loginState, browser, asks>>

\* The process died, refused to initialize or did not answer in time.
InitializationFails(c) ==
  /\ \/ At(c, "send_hello") /\ ~running
     \/ At(c, "initializing") /\ (call[c].answer.kind # "result" \/ ~running)
  /\ close
  /\ startLock' = Nobody
  /\ Ends(c)
  /\ UNCHANGED <<launched, inbox, stdout, nextId, loginState, browser, asks>>

-----------------------------------------------------------------------------
(* _request *)

TakeId(c) ==
  /\ At(c, "register")
  /\ Register(c, "send")
  /\ UNCHANGED <<process, launched, live, inbox, stdout, startLock, loginState, browser, asks>>

SendRequest(c) ==
  /\ At(c, "send")
  /\ \/ running /\ Sent(c, "waiting", call[c].method) /\ UNCHANGED pending
     \/ ~running /\ Ends(c) /\ UNCHANGED inbox
  /\ UNCHANGED <<process, launched, live, stdout, nextId, startLock, loginState, browser, asks>>

\* The answer, or none in time.  Of a login the state is still to be stored.
Receive(c) ==
  /\ At(c, "waiting")
  /\ \/ call[c].answer.kind = "result" /\ call[c].method = "login"
        /\ Goto(c, "login") /\ Pop(call[c].id)
     \/ ~(call[c].answer.kind = "result" /\ call[c].method = "login") /\ Ends(c)
  /\ UNCHANGED <<process, launched, live, inbox, stdout, nextId, startLock, loginState,
                 browser, asks>>

start_chatgpt_login(c) ==
  /\ At(c, "login")
  /\ loginState' = [id |-> call[c].answer.of[2], completed |-> FALSE]
  /\ call' = [call EXCEPT ![c] = Idle]
  /\ UNCHANGED <<process, launched, live, inbox, stdout, nextId, pending, startLock,
                 browser, asks>>

-----------------------------------------------------------------------------
(* The process and its reader. *)

Answer(p, request) ==
  /\ p \in live
  /\ request \in inbox[p]
  /\ inbox' = [inbox EXCEPT ![p] = @ \ {request}]
  /\ \E kind \in {"result", "error"} :
       /\ stdout' = [stdout EXCEPT ![p] = Append(@, [kind |-> kind, of |-> <<p, request.id>>])]
       /\ browser' = IF kind = "result" /\ request.method = "login"
                     THEN browser \cup {<<p, request.id>>} ELSE browser
  /\ UNCHANGED <<process, launched, live, nextId, pending, startLock, loginState, call, asks>>

CompleteLogin(login) ==
  /\ login \in browser
  /\ login[1] \in live
  /\ browser' = browser \ {login}
  /\ stdout' = [stdout EXCEPT ![login[1]] = Append(@, [kind |-> "completed", of |-> login])]
  /\ UNCHANGED <<process, launched, live, inbox, nextId, pending, startLock, loginState,
                 call, asks>>

\* An answer nobody waits for any more is dropped.
reader(p) ==
  /\ stdout[p] # <<>>
  /\ stdout' = [stdout EXCEPT ![p] = Tail(@)]
  /\ LET message == Head(stdout[p])
         id == message.of[2]
     IN  \/ /\ message.kind = "completed"
            /\ loginState' = [id |-> id, completed |-> TRUE]
            /\ UNCHANGED call
         \/ /\ message.kind # "completed"
            /\ call' = IF id \in DOMAIN pending
                       THEN [call EXCEPT ![pending[id]] = [@ EXCEPT !.answer = message]]
                       ELSE call
            /\ UNCHANGED loginState
  /\ UNCHANGED <<process, launched, live, inbox, nextId, pending, startLock, browser, asks>>

ProcessDies(p) ==
  /\ p \in live
  /\ live' = live \ {p}
  /\ UNCHANGED <<process, launched, inbox, stdout, nextId, pending, startLock, loginState,
                 browser, call, asks>>

\* The handlers of the connections: status, login, login state, model.
ConnectionRequests == \E c \in Callers, method \in Methods : Ask(c, method)

ServerNext ==
  \/ ConnectionRequests
  \/ \E c \in Callers :
       \/ Start(c) \/ TakeLock(c) \/ Launch(c) \/ LaunchFails(c) \/ Hello(c) \/ SendHello(c)
       \/ Initialized(c) \/ InitializationFails(c)
       \/ TakeId(c) \/ SendRequest(c) \/ Receive(c) \/ start_chatgpt_login(c)
  \/ \E p \in Processes :
       \/ reader(p) \/ ProcessDies(p)
       \/ \E request \in inbox[p] : Answer(p, request)
  \/ \E login \in browser : CompleteLogin(login)

ServerSpec == ServerInit /\ [][ServerNext]_serverVars

-----------------------------------------------------------------------------
ServerTypeOK ==
  /\ process \in 0..launched /\ launched \in 0..MaxLaunches /\ live \subseteq 1..launched
  /\ startLock \in Callers \cup {Nobody}
  /\ DOMAIN pending \subseteq 1..nextId
  /\ \A c \in Callers : call[c].method \in Methods \cup {"none"}

\* What a caller is given is the answer to its own request, whatever is still read from
\* a process that timed out, died or was replaced in the meantime.
AnswerIsOwn ==
  \A c \in Callers : call[c].answer # NoAnswer =>
    call[c].answer.of = <<call[c].asked, call[c].id>>
=============================================================================
