----------------------------- MODULE ClientLoop ------------------------------
(***************************************************************************)
(* remserc run and Client.Execute. The calling goroutine puts the terminal *)
(* into raw mode, opens the SSH tunnel and the connection, sends the       *)
(* execute command and then reads messages; the ping loop and the stdin    *)
(* loop share the connection with it without a lock, and two contexts and  *)
(* the channel of ping intervals.                                          *)
(*                                                                         *)
(* The server is the environment. It sends news of the queue to a waiting  *)
(* task and output of a running one, then task_finished; it pings while    *)
(* the task runs and answers pings. A connection may be lost at any time.  *)
(***************************************************************************)
EXTENDS Naturals, Sequences

CONSTANTS
  Interactive,  \* Client.Interactive
  UseSSH,       \* Client.useSSH: an SSH host is configured
  MaxWire       \* bound: messages under way to the client

ASSUME ClientConstantsOK ==
  /\ Interactive \in BOOLEAN
  /\ UseSSH \in BOOLEAN
  /\ MaxWire \in Nat \ {0}

VARIABLES
  alive,      \* the client process has not been ended by a panic
  pc,         \* where each goroutine is: main, pinger, feeder
  result,     \* what Execute, or the run command before it, returns
  tty,        \* the terminal: cooked, or raw
  tunnel,     \* the connection to the SSH server: none, open or closed
  writing,    \* the goroutines that are writing to the connection
  out,        \* whether the connection takes frames: open, or broken by a write
              \* error or by the close frame
  connOpen,   \* the dial has succeeded and conn.Close has not run
  ctxDone,    \* the caller's context was cancelled
  stdinDone,  \* cancelStdin was called
  ticker,     \* the ping loop's ticker: a rate, or off
  pingCh,     \* the channel of intervals, of capacity one
  stdinErr,   \* what the last read of stdin returned as its error
  late,       \* chunks of input taken from stdin after cancelStdin, up to two
  server,     \* what the server does with the task: idle, waiting, running, finished
  peer,       \* the other end of the connection: up or gone
  wire        \* messages under way to the client

connVars   == <<writing, out, connOpen>>
ctxVars    == <<ctxDone, stdinDone>>
pingVars   == <<ticker, pingCh>>
feedVars   == <<stdinErr, late>>
serverVars == <<server, peer, wire>>
held       == <<tty, tunnel>>
vars == <<alive, pc, result, held, connVars, ctxVars, pingVars, feedVars, serverVars>>

\* A goroutine goes on from one place to another.
Go(p, from, to) == pc[p] = from /\ pc' = [pc EXCEPT ![p] = to]

\* The interval a message asks for; the other messages ask for none.
News == {"queue_position", "task_started", "task_finished"}
Rate(m) == CASE m = "queue_position" -> "passive"
             [] m = "task_started"   -> "active"
             [] m = "task_finished"  -> "off"

StdinDone == ctxDone \/ stdinDone

\* Pings and pongs arrive and put off the read deadline.
Fresh ==
  /\ peer = "up"
  /\ server = "running" \/ (ticker # "off" /\ pc["pinger"] # "ended")

-----------------------------------------------------------------------------
Init ==
  /\ alive = TRUE
  /\ pc = [main |-> "run", pinger |-> "off", feeder |-> "off"]
  /\ result = "none"
  /\ tty = "cooked"
  /\ tunnel = "none"
  /\ writing = {}
  /\ out = "open"
  /\ connOpen = FALSE
  /\ ctxDone = FALSE
  /\ stdinDone = FALSE
  /\ ticker = "off"
  /\ pingCh = <<>>
  /\ stdinErr = "none"
  /\ late = 0
  /\ server = "idle"
  /\ peer = "up"
  /\ wire = <<>>

-----------------------------------------------------------------------------
(* Writes take time. The websocket library does not allow a second writer: it  *)
(* panics, which ends the process, or the frames go out somehow.               *)

StartWrite(p) ==
  /\ writing' = writing \cup {p}
  /\ alive' \in IF writing = {} THEN {TRUE} ELSE BOOLEAN
  /\ UNCHANGED <<out, connOpen>>

Written(p) ==
  /\ out = "open"
  /\ connOpen
  /\ writing' = writing \ {p}
  /\ UNCHANGED <<alive, out, connOpen>>

\* Every later write fails as well.
WriteFails(p) ==
  /\ writing' = writing \ {p}
  /\ out' = "broken"
  /\ UNCHANGED <<alive, connOpen>>

-----------------------------------------------------------------------------
(* The run command of remserc, around Execute. *)

\* The configuration, the arguments, the address, or a stdin that is no terminal.
PrepareFails ==
  /\ Go("main", "run", "exit")
  /\ result' = "error"
  /\ UNCHANGED <<alive, held, connVars, ctxVars, pingVars, feedVars, serverVars>>

MakeRaw ==
  /\ Go("main", "run", "tunnel")
  /\ tty' = IF Interactive THEN "raw" ELSE tty
  /\ UNCHANGED <<alive, result, tunnel, connVars, ctxVars, pingVars, feedVars, serverVars>>

\* The deferred call.
Restore ==
  /\ Go("main", "returned", "exit")
  /\ tty' = "cooked"
  /\ UNCHANGED <<alive, result, tunnel, connVars, ctxVars, pingVars, feedVars, serverVars>>

-----------------------------------------------------------------------------
(* Execute: the tunnel and the dial. *)

SetupTunnel ==
  /\ Go("main", "tunnel", "dial")
  /\ tunnel' = IF UseSSH THEN "open" ELSE "none"
  /\ UNCHANGED <<alive, result, tty, connVars, ctxVars, pingVars, feedVars, serverVars>>

\* There is no auth method or no host key check, or the SSH server does not answer.
SetupTunnelFails ==
  /\ UseSSH
  /\ Go("main", "tunnel", "returned")
  /\ result' = "error"
  /\ UNCHANGED <<alive, held, connVars, ctxVars, pingVars, feedVars, serverVars>>

\* The ping loop is started before the execute command is sent.
Dial ==
  /\ pc["main"] = "dial"
  /\ peer = "up"
  /\ pc' = [pc EXCEPT !["main"] = "request", !["pinger"] = "select"]
  /\ connOpen' = TRUE
  /\ UNCHANGED <<alive, result, held, writing, out, ctxVars, pingVars, feedVars, serverVars>>

\* Mutant: the tunnel is closed only where the connection is.
DialFailsBare ==
  /\ Go("main", "dial", "returned")
  /\ result' = "error"
  /\ UNCHANGED <<alive, held, connVars, ctxVars, pingVars, feedVars, serverVars>>

DialFails ==
  /\ Go("main", "dial", "untunnel")
  /\ result' = "error"
  /\ UNCHANGED <<alive, held, connVars, ctxVars, pingVars, feedVars, serverVars>>

-----------------------------------------------------------------------------
(* Execute: the request, and readMessageLoop. *)

SendRequest ==
  /\ Go("main", "request", "requesting")
  /\ StartWrite("main")
  /\ UNCHANGED <<result, held, ctxVars, pingVars, feedVars, serverVars>>

\* The stdin loop starts when the request has been sent.
RequestSent ==
  /\ pc["main"] = "requesting"
  /\ Written("main")
  /\ pc' = [pc EXCEPT !["main"] = "check", !["feeder"] = IF Interactive THEN "check" ELSE "off"]
  /\ server' = "waiting"
  /\ UNCHANGED <<result, held, peer, wire, ctxVars, pingVars, feedVars>>

RequestFails ==
  /\ Go("main", "requesting", "leave")
  /\ WriteFails("main")
  /\ result' = "error"
  /\ UNCHANGED <<held, ctxVars, pingVars, feedVars, serverVars>>

CheckCancelled ==
  /\ Go("main", "check", "leave")
  /\ ctxDone
  /\ result' = "cancelled"
  /\ UNCHANGED <<alive, held, connVars, ctxVars, pingVars, feedVars, serverVars>>

CheckGoesOn ==
  /\ Go("main", "check", "read")
  /\ ~ctxDone
  /\ UNCHANGED <<alive, result, held, connVars, ctxVars, pingVars, feedVars, serverVars>>

nonBlockingSend(r) == pingCh' = IF pingCh = <<>> THEN <<r>> ELSE pingCh

\* A message is read, its interval passed on, and it is handled.
ReadMessage ==
  /\ wire # <<>>
  /\ LET m == Head(wire) IN
     /\ Go("main", "read", IF m = "task_finished" THEN "finish" ELSE "check")
     /\ IF m \in News
        THEN nonBlockingSend(Rate(m))
        ELSE UNCHANGED pingCh
  /\ wire' = Tail(wire)
  /\ UNCHANGED <<alive, result, held, ticker, server, peer, connVars, ctxVars, feedVars>>

\* Mutant: the loop tries again after an error.
ReadFailsRetry ==
  /\ ~Fresh
  /\ Go("main", "read", "check")
  /\ UNCHANGED <<alive, result, held, connVars, ctxVars, pingVars, feedVars, serverVars>>

\* The connection is lost or the deadline passes. Execute returns nil unless the
\* error is an unexpected close.
ReadFails ==
  /\ ~Fresh
  /\ Go("main", "read", "leave")
  /\ result' \in {"nil", "error"}
  /\ UNCHANGED <<alive, held, connVars, ctxVars, pingVars, feedVars, serverVars>>

SendClose ==
  /\ Go("main", "finish", "closing")
  /\ StartWrite("main")
  /\ UNCHANGED <<result, held, ctxVars, pingVars, feedVars, serverVars>>

\* Sent or not, no frame may follow it, and the outcome is ignored.
CloseSent ==
  /\ Go("main", "closing", "leave")
  /\ WriteFails("main")
  /\ result' = "finished"
  /\ UNCHANGED <<held, ctxVars, pingVars, feedVars, serverVars>>

\* The deferred calls, last to first.
CancelStdin ==
  /\ Go("main", "leave", "close")
  /\ stdinDone' = TRUE
  /\ UNCHANGED <<alive, result, held, connVars, ctxDone, pingVars, feedVars, serverVars>>

CloseConn ==
  /\ Go("main", "close", "untunnel")
  /\ connOpen' = FALSE
  /\ UNCHANGED <<alive, result, held, writing, out, ctxVars, pingVars, feedVars, serverVars>>

CloseTunnel ==
  /\ Go("main", "untunnel", "returned")
  /\ tunnel' = IF tunnel = "open" THEN "closed" ELSE tunnel
  /\ UNCHANGED <<alive, result, tty, connVars, ctxVars, pingVars, feedVars, serverVars>>

-----------------------------------------------------------------------------
(* pingLoop. *)

PingerCancelled ==
  /\ Go("pinger", "select", "ended")
  /\ ctxDone
  /\ UNCHANGED <<alive, result, held, connVars, ctxVars, pingVars, feedVars, serverVars>>

TakeInterval ==
  /\ pc["pinger"] = "select"
  /\ pingCh # <<>>
  /\ ticker' = Head(pingCh)
  /\ pingCh' = Tail(pingCh)
  /\ UNCHANGED <<alive, pc, result, held, connVars, ctxVars, feedVars, serverVars>>

\* Mutant: the ticker runs from the start, with the configured interval.
TickFromStart ==
  /\ Go("pinger", "select", "ping")
  /\ StartWrite("pinger")
  /\ UNCHANGED <<result, held, ctxVars, pingVars, feedVars, serverVars>>

Tick ==
  /\ ticker # "off"
  /\ Go("pinger", "select", "ping")
  /\ StartWrite("pinger")
  /\ UNCHANGED <<result, held, ctxVars, pingVars, feedVars, serverVars>>

PingSent ==
  /\ Go("pinger", "ping", "select")
  /\ Written("pinger")
  /\ UNCHANGED <<result, held, ctxVars, pingVars, feedVars, serverVars>>

\* Mutant: the loop goes on after an error.
PingFailsGoOn ==
  /\ Go("pinger", "ping", "select")
  /\ WriteFails("pinger")
  /\ UNCHANGED <<result, held, ctxVars, pingVars, feedVars, serverVars>>

PingFails ==
  /\ Go("pinger", "ping", "ended")
  /\ WriteFails("pinger")
  /\ UNCHANGED <<result, held, ctxVars, pingVars, feedVars, serverVars>>

-----------------------------------------------------------------------------
(* readStdinLoop. *)

\* Mutant: the loop does not look at its context.
FeedCheckNever ==
  /\ Go("feeder", "check", "read")
  /\ UNCHANGED <<alive, result, held, connVars, ctxVars, pingVars, feedVars, serverVars>>

FeedCheck ==
  /\ Go("feeder", "check", IF StdinDone THEN "ended" ELSE "read")
  /\ UNCHANGED <<alive, result, held, connVars, ctxVars, pingVars, feedVars, serverVars>>

\* A read returns a chunk or none, and an error or none.
StdinRead(chunk, err) ==
  /\ Go("feeder", "read", IF chunk THEN "write" ELSE "after")
  /\ stdinErr' = err
  /\ late' = IF chunk /\ stdinDone /\ late < 2 THEN late + 1 ELSE late
  /\ UNCHANGED <<alive, result, held, connVars, ctxVars, pingVars, serverVars>>

SendInput ==
  /\ Go("feeder", "write", "writing")
  /\ StartWrite("feeder")
  /\ UNCHANGED <<result, held, ctxVars, pingVars, feedVars, serverVars>>

InputSent ==
  /\ Go("feeder", "writing", "after")
  /\ Written("feeder")
  /\ UNCHANGED <<result, held, ctxVars, pingVars, feedVars, serverVars>>

InputFails ==
  /\ Go("feeder", "writing", "ended")
  /\ WriteFails("feeder")
  /\ stdinDone' = TRUE
  /\ UNCHANGED <<result, held, ctxDone, pingVars, feedVars, serverVars>>

\* The end of input and a fatal error end the loop; the latter calls cancel.
AfterRead ==
  /\ Go("feeder", "after", IF stdinErr = "none" THEN "check" ELSE "ended")
  /\ stdinDone' = (stdinDone \/ stdinErr = "fatal")
  /\ UNCHANGED <<alive, result, held, connVars, ctxDone, pingVars, feedVars, serverVars>>

-----------------------------------------------------------------------------
(* The caller, the server and the network. *)

Cancel ==
  /\ ~ctxDone
  /\ ctxDone' = TRUE
  /\ UNCHANGED <<alive, pc, result, held, connVars, stdinDone, pingVars, feedVars, serverVars>>

\* In each state the server sends what belongs to it: news to a waiting task, output
\* of a running one, task_finished once it has ended or was dropped.
ServerSends(m, next) ==
  /\ peer = "up"
  /\ \/ server = "waiting" /\ m \in {"queue_position", "task_started"} /\ next = "waiting"
     \/ server = "running" /\ m = "output" /\ next = "running"
     \/ server \in {"waiting", "running"} /\ m = "task_finished" /\ next = "finished"
  /\ Len(wire) < MaxWire
  /\ wire' = Append(wire, m)
  /\ server' = next
  /\ UNCHANGED <<alive, pc, result, held, peer, connVars, ctxVars, pingVars, feedVars>>

ServerRuns ==
  /\ server = "waiting"
  /\ server' = "running"
  /\ UNCHANGED <<alive, pc, result, held, peer, wire, connVars, ctxVars, pingVars, feedVars>>

PeerGone ==
  /\ peer = "up"
  /\ peer' = "gone"
  /\ UNCHANGED <<alive, pc, result, held, server, wire, connVars, ctxVars, pingVars, feedVars>>

-----------------------------------------------------------------------------
RunCommand == PrepareFails \/ MakeRaw \/ Restore

Execute ==
  \/ SetupTunnel \/ SetupTunnelFails \/ Dial \/ DialFails
  \/ SendRequest \/ RequestSent \/ RequestFails
  \/ CheckCancelled \/ CheckGoesOn \/ ReadMessage \/ ReadFails
  \/ SendClose \/ CloseSent \/ CancelStdin \/ CloseConn \/ CloseTunnel

pingLoop == PingerCancelled \/ TakeInterval \/ Tick \/ PingSent \/ PingFails

FeederSteps == FeedCheck \/ SendInput \/ InputSent \/ InputFails \/ AfterRead

readStdinLoop ==
  \/ FeederSteps
  \/ \E chunk \in BOOLEAN, err \in {"none", "eof", "fatal"} : StdinRead(chunk, err)

Environment ==
  \/ Cancel \/ ServerRuns \/ PeerGone
  \/ \E m \in {"queue_position", "task_started", "output", "task_finished"},
        next \in {"waiting", "running", "finished"} : ServerSends(m, next)

Next ==
  /\ alive
  /\ RunCommand \/ Execute \/ pingLoop \/ readStdinLoop \/ Environment

Spec == Init /\ [][Next]_vars

(* Fairness. A goroutine that can go on does; the read deadline passes unless  *)
(* it is put off; a select does not neglect one of its channels for ever, as   *)
(* Go chooses at random. Nothing makes the server, the caller or the user at   *)
(* the terminal act.                                                           *)

FairSpec ==
  /\ Spec
  /\ WF_vars(alive /\ (RunCommand \/ Execute))
  /\ WF_vars(alive /\ pingLoop)
  /\ SF_vars(alive /\ PingerCancelled)
  /\ SF_vars(alive /\ TakeInterval)
  /\ WF_vars(alive /\ FeederSteps)

-----------------------------------------------------------------------------
(* Properties. *)

Rates == {"off", "passive", "active"}

FlagsOK ==
  /\ alive \in BOOLEAN /\ connOpen \in BOOLEAN
  /\ ctxDone \in BOOLEAN /\ stdinDone \in BOOLEAN

PlacesOK ==
  pc \in [main : {"run", "tunnel", "dial", "request", "requesting", "check", "read", "finish", "closing",
                  "leave", "close", "untunnel", "returned", "exit"},
         pinger : {"off", "select", "ping", "ended"},
         feeder : {"off", "check", "read", "write", "writing", "after", "ended"}]

ValuesOK ==
  /\ result \in {"none", "finished", "nil", "error", "cancelled"}
  /\ tty \in {"cooked", "raw"}
  /\ tunnel \in {"none", "open", "closed"}
  /\ writing \subseteq {"main", "pinger", "feeder"}
  /\ out \in {"open", "broken"}
  /\ ticker \in Rates
  /\ pingCh \in Seq(Rates) /\ Len(pingCh) <= 1
  /\ stdinErr \in {"none", "eof", "fatal"} /\ late \in 0..2
  /\ server \in {"idle", "waiting", "running", "finished"}
  /\ peer \in {"up", "gone"}
  /\ wire \in Seq(News \cup {"output"}) /\ Len(wire) <= MaxWire

\* The type invariant: the channel of intervals holds at most one of them.
TypeOK == FlagsOK /\ PlacesOK /\ ValuesOK

\* The ping loop starts before the execute command is sent, and there is no lock;
\* still the command is the first frame on the connection, as the handshake of the
\* server requires, and no other write meets it.
RequestFirst == pc["main"] \in {"request", "requesting"} => writing \subseteq {"main"}

\* Once Execute is about to return the stdin loop takes at most one more chunk from
\* the terminal, the one it was already waiting for.
OneChunkLate == late <= 1

\* Whichever step fails, and however Execute ends, it leaves neither its connection
\* nor its tunnel open; the connection goes first, while the tunnel still carries it;
\* and the user gets the terminal back as it was.
NothingLeftOpen ==
  /\ connOpen => tunnel # "closed"
  /\ pc["main"] \in {"returned", "exit"} => ~connOpen /\ tunnel # "open"
  /\ pc["main"] \in {"run", "exit"} => tty = "cooked"

\* The server's task runs without a word and its pings put off the read deadline.
SilentRun == pc["main"] = "read" /\ wire = <<>> /\ server = "running" /\ peer = "up"

Returned == pc["main"] \in {"returned", "exit"} \/ ~alive

\* Execute returns when the task finishes, when the connection is lost, and when its
\* context is cancelled, except that a silent run keeps it from seeing the latter.
ExecuteEnds ==
  ctxDone \/ server = "finished" \/ peer = "gone" ~> Returned \/ SilentRun

\* When Execute has returned the ping loop ends unless it has no ticker, and the stdin
\* loop ends unless it waits for the terminal.
LoopsEnd ==
  pc["main"] = "returned" ~>
    \/ /\ pc["pinger"] = "ended" \/ (ticker = "off" /\ pingCh = <<>>)
       /\ pc["feeder"] \in {"off", "read", "ended"}
    \/ ~alive

\* "processes messages until the task finishes or the context is cancelled"
\* (client.go:148): a cancelled Execute returns.
CancelEndsExecute == ctxDone ~> Returned

=============================================================================
