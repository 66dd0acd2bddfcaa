--------------------------- MODULE McpClient ---------------------------
(***************************************************************************)
(* The client of ratchet-mcp: one child process per server, one pipe in    *)
(* each direction, one line per message.  A request is a line written and  *)
(* the next line read, whatever that line says; only its shape is looked   *)
(* at.  Nothing here is awaited with a timeout.                            *)
(*                                                                         *)
(* The module has no specification of its own: the harness that owns the   *)
(* registry decides what is asked (module ToolCalls).  The servers are     *)
(* external: one answers requests in the order they came, may answer the   *)
(* notification, which carries "id": null, may say something unasked (a    *)
(* notification of its own, a line of its log), and may die.               *)
(***************************************************************************)
EXTENDS Naturals, Sequences, FiniteSets

CONSTANTS
    Servers,     \* the servers under [mcp.servers]
    MaxUnasked   \* bound: unasked lines after which no server volunteers one

ASSUME MaxUnaskedIsNat == MaxUnasked \in Nat

VARIABLES
    nextId,      \* McpClient::next_id, by server
    stdin,       \* messages written and not yet read by the server
    stdout,      \* lines of the server not yet read by the client
    up,          \* the servers that run
    unasked,     \* lines a server wrote that answer no request
    wait,        \* the request whose answer is awaited
    answer       \* what the last request returned

mcpVars == <<nextId, stdin, stdout, up, unasked, wait, answer>>

Methods == {"initialize", "tools/list", "tools/call"}
NoId == 0
Unasked == [to |-> NoId, method |-> "none", ok |-> FALSE]
NoRequest == [server |-> "none", id |-> NoId, method |-> "none", sent |-> FALSE]
NoAnswer == [server |-> "none", id |-> NoId, to |-> NoId, ok |-> FALSE]

Messages == [id : Nat, method : Methods \cup {"none"}]
Lines == [to : Nat, method : Methods \cup {"none"}, ok : BOOLEAN]

McpTypeOK ==
    /\ nextId \in [Servers -> Nat \ {0}]
    /\ stdin \in [Servers -> Seq(Messages)]
    /\ stdout \in [Servers -> Seq(Lines)]
    /\ up \subseteq Servers
    /\ unasked \in [Servers -> Nat]
    /\ \/ wait = NoRequest
       \/ wait \in [server : Servers, id : Nat, method : Methods, sent : BOOLEAN]
    /\ \/ answer = NoAnswer
       \/ answer \in [server : Servers, id : Nat, to : Nat, ok : BOOLEAN]

McpInit ==
    /\ nextId = [s \in Servers |-> 1]
    /\ stdin = [s \in Servers |-> <<>>]
    /\ stdout = [s \in Servers |-> <<>>]
    /\ up = {}
    /\ unasked = [s \in Servers |-> 0]
    /\ wait = NoRequest
    /\ answer = NoAnswer

-----------------------------------------------------------------------------
(* The client. *)

Write(s, id, method) ==
    stdin' = [stdin EXCEPT ![s] =
                 IF s \in up THEN Append(@, [id |-> id, method |-> method]) ELSE @]

\* request, up to the await of read_line.
Await(s, method, sent) ==
    /\ wait = NoRequest
    /\ wait' = [server |-> s, id |-> nextId[s], method |-> method, sent |-> sent]
    /\ nextId' = [nextId EXCEPT ![s] = @ + 1]
    /\ UNCHANGED <<stdout, unasked, answer>>

\* Writing to a dead server fails, after the id was taken.
Request(s, method) == Await(s, method, s \in up) /\ Write(s, nextId[s], method) /\ UNCHANGED up

\* connect_stdio: spawn, and the first request.
Spawn(s) ==
    /\ Await(s, "initialize", TRUE)
    /\ up' = up \cup {s}
    /\ stdin' = [stdin EXCEPT ![s] = <<[id |-> nextId[s], method |-> "initialize"]>>]

\* A line is an Ok for the caller if it holds a result that reads as what the method returns.
Understood(line, method) == line.ok /\ line.method = method

Taken(line) ==
    [server |-> wait.server, id |-> wait.id, to |-> line.to, ok |-> Understood(line, wait.method)]

\* Mutant: the client waits for the line that carries its id.
ReceiveOwn ==
    LET s == wait.server IN
    /\ wait # NoRequest
    /\ wait' = NoRequest
    /\ \/ /\ wait.sent
          /\ stdout[s] # <<>> /\ Head(stdout[s]).to = wait.id
          /\ answer' = Taken(Head(stdout[s]))
          /\ stdout' = [stdout EXCEPT ![s] = Tail(@)]
       \/ /\ ~wait.sent \/ (stdout[s] = <<>> /\ s \notin up)
          /\ answer' = Taken(Unasked)
          /\ UNCHANGED stdout
    /\ UNCHANGED <<nextId, up, unasked>>

\* request, from read_line on; the caller says what else is written.
Receive ==
    LET s == wait.server IN
    /\ wait # NoRequest
    /\ wait' = NoRequest
    /\ \/ /\ wait.sent
          /\ stdout[s] # <<>>
          /\ answer' = Taken(Head(stdout[s]))
          /\ stdout' = [stdout EXCEPT ![s] = Tail(@)]
       \/ /\ ~wait.sent \/ (stdout[s] = <<>> /\ s \notin up)
          /\ answer' = Taken(Unasked)
          /\ UNCHANGED stdout
    /\ UNCHANGED <<nextId, up, unasked>>

\* initialize, once the answer is in: the notification with the null id.
Notify(s) == Write(s, NoId, "none")

-----------------------------------------------------------------------------
(* A server. *)

Say(s, line) == stdout' = [stdout EXCEPT ![s] = Append(@, line)]

Answer(s) ==
    LET m == Head(stdin[s]) IN
    /\ s \in up /\ stdin[s] # <<>>
    /\ stdin' = [stdin EXCEPT ![s] = Tail(@)]
    /\ \/ /\ m.id # NoId
          /\ \E ok \in BOOLEAN : Say(s, [to |-> m.id, method |-> m.method, ok |-> ok])
          /\ UNCHANGED unasked
       \/ /\ m.id = NoId
          /\ UNCHANGED <<stdout, unasked>>
       \/ /\ m.id = NoId
          /\ Say(s, Unasked)
          /\ unasked' = [unasked EXCEPT ![s] = @ + 1]
    /\ UNCHANGED <<nextId, up, wait, answer>>

Volunteer(s) ==
    /\ s \in up
    /\ \A t \in Servers : unasked[t] < MaxUnasked
    /\ Say(s, Unasked)
    /\ unasked' = [unasked EXCEPT ![s] = @ + 1]
    /\ UNCHANGED <<nextId, stdin, up, wait, answer>>

Die(s) ==
    /\ s \in up
    /\ up' = up \ {s}
    /\ UNCHANGED <<nextId, stdin, stdout, unasked, wait, answer>>

ServerStep == \E s \in Servers : Answer(s) \/ Volunteer(s) \/ Die(s)

-----------------------------------------------------------------------------
\* Where the lines are that answer nothing.
Strays(lines) == {k \in DOMAIN lines : lines[k].to = NoId}

\* How many of them the client has taken for answers.
Slip(s) == unasked[s] - Cardinality(Strays(stdout[s]))

\* The answer to a request is the server's answer to the request before it, or the one before that:
\* as many requests back as lines were taken for answers that answered nothing.  Without such a line
\* every call gets its own answer; after one, no call ever does again.
\* Aims at McpClient::request, which reads a line and never looks at its id.
AnswersSlipByTheUnasked ==
    answer.to # NoId => answer.id - answer.to = Slip(answer.server)
=============================================================================
