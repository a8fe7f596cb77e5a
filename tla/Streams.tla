-------------------------------- MODULE Streams --------------------------------
(***************************************************************************)
(* The terminal and log stream endpoints: podTerminal in                   *)
(* backend/internal/api/handler/terminal.go and podLogStream in            *)
(* backend/internal/api/handler/logstream.go, with the watchConn of        *)
(* watch.go they share.                                                    *)
(*                                                                         *)
(* A session is one WebSocket.  Its handler runs the exec or follows the   *)
(* log; a second goroutine, the pump, reads what the client sends.  The    *)
(* client, the process in the pod (client-go's exec and log streams        *)
(* included) and the network are environment.  Bytes are left out: what    *)
(* counts is who waits for whom and which frame reaches the client.        *)
(***************************************************************************)
EXTENDS Naturals, Sequences, FiniteSets

CONSTANTS Terms,      \* terminal sessions
          Logs,       \* log stream sessions
          SizeCap,    \* capacity of the resize queue
          MaxUnread   \* log chunks the pod may be ahead of the reader

ASSUME BoundsAssumption == SizeCap \in Nat \ {0} /\ MaxUnread \in Nat \ {0}
ASSUME KindsAssumption == Terms \cap Logs = {}

Sessions == Terms \cup Logs

VARIABLES
  stage,   \* where the handler of a session stands
  pump,    \* where the reading goroutine of a session stands
  sockets, \* sessions whose WebSocket the server has not closed
  gone,    \* sessions whose client has left
  stalled, \* sessions where a write timed out: gorilla fails every later one
  queued,  \* control frames put into watchConn.send and not written
  remote,  \* the process executed, or the log stream followed
  unread,  \* log chunks the handler has not read
  stdin,   \* terminals whose stdin pipe is open
  sizes,   \* length of the resize queue of a terminal
  audit,   \* audit rows of a session, in order
  lost     \* sessions with an audit row the store refused

streamsVars == <<stage, pump, sockets, gone, stalled, queued, remote, unread,
                 stdin, sizes, audit, lost>>

netVars == <<sockets, gone, stalled, queued>>
termVars == <<stdin, sizes, audit, lost>>

Handlers == {"idle", "refused", "opened", "stream", "ended", "exit", "audit",
             "read", "write", "check", "eof", "return", "done"}

StreamsTypeOK ==
  /\ stage \in [Sessions -> Handlers]
  /\ pump \in [Sessions -> {"none", "read", "write", "done"}]
  /\ sockets \subseteq Sessions /\ gone \subseteq Sessions /\ stalled \subseteq Sessions
  /\ queued \in [Sessions -> SUBSET {"error", "pong", "exit", "close"}]
  /\ remote \in [Sessions -> {"none", "running", "exited", "cancelled"}]
  /\ unread \in [Logs -> 0..MaxUnread]
  /\ stdin \subseteq Terms
  /\ sizes \in [Terms -> 0..SizeCap]
  /\ audit \in [Terms -> Seq({"terminal-open", "terminal-close"})]
  /\ lost \subseteq Terms
  /\ \A s \in Sessions : stage[s] \in {"idle", "refused"} => s \notin sockets /\ pump[s] = "none"

StreamsInit ==
  /\ stage = [s \in Sessions |-> "idle"]
  /\ pump = [s \in Sessions |-> "none"]
  /\ sockets = {} /\ gone = {} /\ stalled = {}
  /\ queued = [s \in Sessions |-> {}]
  /\ remote = [s \in Sessions |-> "none"]
  /\ unread = [s \in Logs |-> 0]
  /\ stdin = {}
  /\ sizes = [s \in Terms |-> 0]
  /\ audit = [s \in Terms |-> <<>>]
  /\ lost = {}

Goto(s, place) == stage[s] # place /\ stage' = [stage EXCEPT ![s] = place]

-----------------------------------------------------------------------------
(* watchConn                                                               *)

(* wsIdentity and HasPermScope refuse before the upgrade, the upgrade may  *)
(* fail as well.                                                           *)
Refuse(s) ==
  /\ stage[s] = "idle"
  /\ Goto(s, "refused")
  /\ UNCHANGED <<pump, netVars, remote, unread, termVars>>

(* newWatchConn.                                                           *)
Upgrade(s) == s \notin sockets /\ sockets' = sockets \cup {s}

(* watchConn.Send.  Neither endpoint starts runWriter, so nothing ever     *)
(* takes a frame out of the buffer, and a dropped one fares no worse.      *)
Send(s, frame) == queued' = [queued EXCEPT ![s] = @ \cup {frame}]

(* ws.WriteMessage with its deadline: written, be it to a client that has  *)
(* left, or failed for good.                                               *)
Written(s) == s \in sockets \ stalled /\ UNCHANGED netVars
WriteFails(s) == stalled' = stalled \cup {s} /\ UNCHANGED <<sockets, gone, queued>>

(* The deferred calls of a handler that returns: cancel, then close.       *)
Cancelled(s) == [remote EXCEPT ![s] = IF @ = "running" THEN "cancelled" ELSE @]

Return(s) ==
  /\ stage[s] = "return"
  /\ Goto(s, "done")
  /\ remote' = Cancelled(s)
  /\ sockets' = sockets \ {s}
  /\ UNCHANGED <<pump, gone, stalled, queued, unread, termVars>>

(* ReadMessage fails: the client has left, the server has closed the       *)
(* socket, or wsReadTimeout passed without a frame.                        *)
ReadFails(s) ==
  /\ pump[s] = "read"
  /\ pump' = [pump EXCEPT ![s] = "done"]
  /\ UNCHANGED <<stage, netVars, remote, unread, termVars>>

(* The client closes the tab, or the network breaks.                       *)
Leave(s) ==
  /\ stage[s] \notin {"idle", "refused"} /\ s \notin gone
  /\ gone' = gone \cup {s}
  /\ UNCHANGED <<stage, pump, sockets, stalled, queued, remote, unread, termVars>>

(* The process in the pod ends, or the connection to it breaks.            *)
RemoteExits(s) ==
  /\ remote[s] = "running"
  /\ remote' = [remote EXCEPT ![s] = "exited"]
  /\ UNCHANGED <<stage, pump, netVars, unread, termVars>>

-----------------------------------------------------------------------------
(* podTerminal                                                             *)

(* recordTerminalAudit: a row, or a warning when the store fails.          *)
Record(s, action) ==
  \/ audit' = [audit EXCEPT ![s] = Append(@, action)] /\ UNCHANGED lost
  \/ lost' = lost \cup {s} /\ UNCHANGED audit

OpenTerminal(s) ==
  /\ stage[s] = "idle"
  /\ Goto(s, "opened")
  /\ Upgrade(s)
  /\ Record(s, "terminal-open")
  /\ UNCHANGED <<pump, gone, stalled, queued, remote, unread, stdin, sizes>>

(* newExecExecutor fails: no runtime, or no transport.  The session has no *)
(* terminal-close row then.                                                *)
ExecFails(s) ==
  /\ stage[s] = "opened"
  /\ Goto(s, "return")
  /\ Send(s, "error")
  /\ UNCHANGED <<pump, sockets, gone, stalled, remote, unread, termVars>>

(* The pump starts and StreamWithContext runs the shell.                   *)
Exec(s) ==
  /\ stage[s] = "opened"
  /\ Goto(s, "stream")
  /\ pump' = [pump EXCEPT ![s] = "read"]
  /\ stdin' = stdin \cup {s}
  /\ remote' = [remote EXCEPT ![s] = "running"]
  /\ UNCHANGED <<netVars, unread, sizes, audit, lost>>

(* pumpTerminalInput: stdin goes to the pipe, where Write blocks until the *)
(* exec takes it; resize to the queue, dropped when full; ping is answered *)
(* through Send.                                                           *)
ReadStdin(s) ==
  /\ pump[s] = "read" /\ s \in sockets \ gone
  /\ pump' = [pump EXCEPT ![s] = "write"]
  /\ UNCHANGED <<stage, netVars, remote, unread, termVars>>

ReadResize(s) ==
  /\ pump[s] = "read" /\ s \in sockets \ gone
  /\ sizes[s] < SizeCap
  /\ sizes' = [sizes EXCEPT ![s] = @ + 1]
  /\ UNCHANGED <<stage, pump, netVars, remote, unread, stdin, audit, lost>>

ReadPing(s) ==
  /\ pump[s] = "read" /\ s \in sockets \ gone
  /\ Send(s, "pong")
  /\ UNCHANGED <<stage, pump, sockets, gone, stalled, remote, unread, termVars>>

(* client-go copies stdin and resize events while the process lives.       *)
RemoteTakesStdin(s) ==
  /\ pump[s] = "write" /\ remote[s] = "running"
  /\ pump' = [pump EXCEPT ![s] = "read"]
  /\ UNCHANGED <<stage, netVars, remote, unread, termVars>>

RemoteTakesSize(s) ==
  /\ sizes[s] > 0
  /\ sizes' = [sizes EXCEPT ![s] = @ - 1]
  /\ UNCHANGED <<stage, pump, netVars, remote, unread, stdin, audit, lost>>

(* wsStdoutWriter.Write fails: client-go drains the output from then on    *)
(* and keeps the process.                                                  *)
OutputFails(s) ==
  /\ remote[s] = "running"
  /\ WriteFails(s)
  /\ UNCHANGED <<stage, pump, remote, unread, termVars>>

StreamEnds(s) ==
  /\ stage[s] = "stream" /\ remote[s] = "exited"
  /\ Goto(s, "ended")
  /\ UNCHANGED <<pump, netVars, remote, unread, termVars>>

CloseStdinForgotten(s) ==
  /\ stage[s] = "ended"
  /\ Goto(s, "exit")
  /\ UNCHANGED <<pump, netVars, remote, unread, termVars>>

(* closeStdin: a Write that waits in the pipe returns.                     *)
CloseStdin(s) ==
  /\ stage[s] = "ended"
  /\ Goto(s, "exit")
  /\ stdin' = stdin \ {s}
  /\ UNCHANGED <<pump, netVars, remote, unread, sizes, audit, lost>>

StdinWriteFails(s) ==
  /\ pump[s] = "write" /\ s \notin stdin
  /\ pump' = [pump EXCEPT ![s] = "read"]
  /\ UNCHANGED <<stage, netVars, remote, unread, termVars>>

SendExit(s) ==
  /\ stage[s] = "exit"
  /\ Goto(s, "audit")
  /\ Send(s, "exit")
  /\ UNCHANGED <<pump, sockets, gone, stalled, remote, unread, termVars>>

RecordCloseIfConnected(s) ==
  /\ stage[s] = "audit"
  /\ Goto(s, "return")
  /\ IF s \in gone THEN UNCHANGED <<audit, lost>> ELSE Record(s, "terminal-close")
  /\ UNCHANGED <<pump, netVars, remote, unread, stdin, sizes>>

RecordClose(s) ==
  /\ stage[s] = "audit"
  /\ Goto(s, "return")
  /\ Record(s, "terminal-close")
  /\ UNCHANGED <<pump, netVars, remote, unread, stdin, sizes>>

-----------------------------------------------------------------------------
(* podLogStream                                                            *)

OpenLog(s) ==
  /\ stage[s] = "idle"
  /\ Upgrade(s)
  /\ \/ Goto(s, "return") /\ Send(s, "error") /\ UNCHANGED <<pump, remote>>
     \/ /\ Goto(s, "read")
        /\ pump' = [pump EXCEPT ![s] = "read"]
        /\ remote' = [remote EXCEPT ![s] = "running"]
        /\ UNCHANGED queued
  /\ UNCHANGED <<gone, stalled, unread, termVars>>

PodLogs(s) ==
  /\ remote[s] = "running" /\ unread[s] < MaxUnread
  /\ unread' = [unread EXCEPT ![s] = @ + 1]
  /\ UNCHANGED <<stage, pump, netVars, remote, termVars>>

(* rd.Read returns a chunk, or the end of the stream after the last one.   *)
ReadChunk(s) ==
  /\ stage[s] = "read" /\ unread[s] > 0
  /\ Goto(s, "write")
  /\ unread' = [unread EXCEPT ![s] = @ - 1]
  /\ UNCHANGED <<pump, netVars, remote, termVars>>

ReadEnd(s) ==
  /\ stage[s] = "read" /\ unread[s] = 0 /\ remote[s] = "exited"
  /\ Goto(s, "eof")
  /\ UNCHANGED <<pump, netVars, remote, unread, termVars>>

WriteChunk(s) ==
  /\ stage[s] = "write"
  /\ \/ Goto(s, "check") /\ Written(s)
     \/ Goto(s, "eof") /\ WriteFails(s)
  /\ UNCHANGED <<pump, remote, unread, termVars>>

CheckNothing(s) ==
  /\ stage[s] = "check"
  /\ Goto(s, "read")
  /\ UNCHANGED <<pump, netVars, remote, unread, termVars>>

(* After each chunk, and only then: has the pump closed stopRead?          *)
CheckClient(s) ==
  /\ stage[s] = "check"
  /\ IF pump[s] = "done" THEN Goto(s, "return") ELSE Goto(s, "read")
  /\ UNCHANGED <<pump, netVars, remote, unread, termVars>>

SendClose(s) ==
  /\ stage[s] = "eof"
  /\ Goto(s, "return")
  /\ Send(s, "close")
  /\ UNCHANGED <<pump, sockets, gone, stalled, remote, unread, termVars>>

-----------------------------------------------------------------------------
TermHandler(s) ==
  \/ ExecFails(s) \/ Exec(s) \/ StreamEnds(s) \/ CloseStdin(s) \/ SendExit(s) \/ RecordClose(s)

LogHandler(s) ==
  \/ ReadChunk(s) \/ ReadEnd(s) \/ WriteChunk(s) \/ CheckClient(s) \/ SendClose(s)

StreamsNext ==
  \/ \E s \in Sessions :
       Refuse(s) \/ Leave(s) \/ RemoteExits(s) \/ ReadFails(s) \/ Return(s)
  \/ \E s \in Terms :
       \/ OpenTerminal(s) \/ TermHandler(s) \/ StdinWriteFails(s)
       \/ ReadStdin(s) \/ ReadResize(s) \/ ReadPing(s)
       \/ RemoteTakesStdin(s) \/ RemoteTakesSize(s) \/ OutputFails(s)
  \/ \E s \in Logs : OpenLog(s) \/ PodLogs(s) \/ LogHandler(s)

StreamsSpec == StreamsInit /\ [][StreamsNext]_streamsVars

(* Goroutines that are not blocked run, and a read of a socket that was    *)
(* closed at either end returns.  Clients, pods and time-outs are free.    *)
StreamsFairness ==
  /\ \A s \in Sessions :
       /\ WF_streamsVars(Return(s))
       /\ WF_streamsVars(ReadFails(s) /\ (s \in gone \/ s \notin sockets))
  /\ \A s \in Terms : WF_streamsVars(TermHandler(s)) /\ WF_streamsVars(StdinWriteFails(s))
  /\ \A s \in Logs : WF_streamsVars(LogHandler(s))

StreamsFairSpec == StreamsSpec /\ StreamsFairness

-----------------------------------------------------------------------------
(* Properties                                                              *)

(* The reading goroutine of a session ends after its handler, even when it *)
(* was blocked in a write to stdin at the moment the shell exited          *)
(* (closeStdin and the deferred conn.close).                               *)
PumpEnds == \A s \in Sessions : stage[s] = "done" ~> pump[s] \in {"none", "done"}

(* An exec that ran leaves its two audit rows, open before close, whatever *)
(* the client did meanwhile, unless the store refused one.                 *)
SessionAudited ==
  \A s \in Terms :
    stage[s] = "done" /\ remote[s] # "none" /\ s \notin lost
      => audit[s] = <<"terminal-open", "terminal-close">>

(* While the pod keeps logging, a log session whose client has left ends.  *)
ChattyLogEnds ==
  \A s \in Logs :
    []<>(unread[s] > 0) => (s \in gone ~> stage[s] = "done")

================================================================================
