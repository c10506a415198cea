----------------------------- MODULE SshSession -----------------------------
(***************************************************************************)
(* One terminal session, from the first channel request to the end the     *)
(* client is told.  Two near sides share the path to the guest: an SSH     *)
(* channel (crates/sshfront/src/session.rs) and the web terminal's         *)
(* WebSocket (crates/api/src/pages/terminal.rs, joined by attach.rs and    *)
(* the Console of bentod/src/adapters.rs).  An SSH session whose user name *)
(* is no instance the user can reach runs the command interpreter instead, *)
(* behind the pumps of adapters.rs CliRunner.                              *)
(*                                                                         *)
(* Bytes are counted, not read: a unit of input or output is one chunk.    *)
(* Time in wait_ssh is counted in units of the dial interval's clock.  The *)
(* link offered to an unknown key is module Pairing's.                     *)
(***************************************************************************)
EXTENDS Naturals, Sequences

CONSTANTS PipeCap,    \* chunks the 64 KiB input pipe holds
          WindowCap,  \* sizes the resize queue holds (16 in the code)
          Timeout,    \* start_timeout: how long the wait for sshd may last
          Interval,   \* dial_interval: the pause between two dials
          DialMax,    \* the TCP dialer's own limit on one dial
          MaxSent,    \* bound: messages the client sends
          MaxOut      \* bound: chunks of output

VARIABLES ses

svars == <<ses>>

Kind == {"ssh", "web"}
\* The steps of join, in order; a session without a PTY skips the PTY request.
JoinSteps == <<"connect", "auth", "channel", "pty", "command", "loop">>
Stage == {"asked", "requests", "dispatch", "cli", "draining", "proxy", "wait", "done", "gone"}
           \cup {JoinSteps[i] : i \in 1..Len(JoinSteps)}

\* Output on its way: `made` chunks were written, of which `far` are in the
\* guest connection, `out` in a pump or a pipe, and `shown` with the client.
\* `left`: the guest has sent its status, signal or close behind its output.
Session == [kind : Kind, stage : Stage, inbox : Seq({"pty", "shell", "data", "resize", "eof"}),
            sent : 0..MaxSent, early : 0..MaxSent, pty : BOOLEAN, click : BOOLEAN,
            state : {"Stopped", "Running"}, started : BOOLEAN,
            pipe : 0..PipeCap, typed : 0..MaxSent, closed : BOOLEAN,
            resizes : 0..WindowCap, sizes : 0..WindowCap, windows : 0..WindowCap, elapsed : 0..Timeout,
            made : 0..MaxOut, far : 0..MaxOut, left : BOOLEAN, out : 0..MaxOut, shown : 0..MaxOut,
            code : {"none", "status", "fail", "off"}, ends : Seq({"status", "fail", "off"})]

NewSession(kind, click, state) ==
  [kind |-> kind, stage |-> "asked", inbox |-> <<>>,
   sent |-> 0, early |-> 0, pty |-> kind = "web", click |-> click,
   state |-> state, started |-> FALSE,
   pipe |-> 0, typed |-> 0, closed |-> FALSE,
   resizes |-> 0, sizes |-> 0, windows |-> 0, elapsed |-> 0,
   made |-> 0, far |-> 0, left |-> FALSE, out |-> 0, shown |-> 0, code |-> "none", ends |-> <<>>]

Init ==
  \E kind \in Kind, click \in BOOLEAN, state \in {"Stopped", "Running"} :
    ses = NewSession(kind, click, state)

Ended == ses.stage \in {"done", "gone"}

-----------------------------------------------------------------------------
(* The client.                                                             *)

\* The client sends a channel request, input, a new size, or its end of file.
Client(message) ==
  /\ ses.sent < MaxSent /\ ses.stage # "asked" /\ ~Ended
  /\ ses.kind = "web" => message \in {"data", "resize", "eof"}
  /\ ses' = [ses EXCEPT !.sent = @ + 1, !.inbox = Append(@, message)]

\* A channel is opened only on an authenticated connection.
channel_open_session ==
  /\ ses.stage = "asked" /\ ses.kind = "ssh"
  /\ \E authenticated \in BOOLEAN :
       ses' = [ses EXCEPT !.stage = IF authenticated THEN "requests" ELSE "gone"]

\* The WebSocket is upgraded for the dashboard's own origin, an instance the
\* viewer can read, and a real upgrade request; anything else is refused.
socket ==
  /\ ses.stage = "asked" /\ ses.kind = "web"
  /\ \E origin, readable, upgrade \in BOOLEAN :
       ses' = [ses EXCEPT !.stage = IF origin /\ readable /\ upgrade THEN "dispatch" ELSE "gone"]

\* The loop before dispatch: it records the PTY, keeps early input, and
\* leaves on a shell or exec request; an early end leaves without an answer.
collect_requests ==
  /\ ses.stage = "requests" /\ ses.inbox # <<>>
  /\ LET message == Head(ses.inbox)
         read == [ses EXCEPT !.inbox = Tail(@)]
     IN  ses' = CASE message = "pty"    -> [read EXCEPT !.pty = TRUE]
                  [] message = "shell"  -> [read EXCEPT !.stage = "dispatch"]
                  [] message = "data"   -> [read EXCEPT !.early = @ + 1]
                  [] message = "eof"    -> [read EXCEPT !.stage = "gone"]
                  [] message = "resize" -> read

\* The channel's input pump: early input first, then each message in order.
\* A full pipe or a full resize queue holds back everything behind it.
Pumping(kind) == ses.kind = kind /\ ses.stage \notin {"asked", "requests"} /\ ~Ended /\ ~ses.closed

pump_early ==
  /\ Pumping("ssh") /\ ses.early > 0 /\ ses.pipe < PipeCap
  /\ ses' = [ses EXCEPT !.early = @ - 1, !.pipe = @ + 1]

pump ==
  /\ Pumping("ssh") /\ ses.early = 0 /\ ses.inbox # <<>>
  /\ LET message == Head(ses.inbox)
         read == [ses EXCEPT !.inbox = Tail(@)]
     IN  \/ message = "data" /\ ses.pipe < PipeCap /\ ses' = [read EXCEPT !.pipe = @ + 1]
         \/ message = "resize" /\ ses.windows < WindowCap
              /\ ses' = [read EXCEPT !.windows = @ + 1]
         \/ message = "eof" /\ ses' = [read EXCEPT !.closed = TRUE]
         \/ message \in {"pty", "shell"} /\ ses' = read

\* The WebSocket's input pump.  It ends with the page's close, and with a key
\* typed when the session has let go of its input; the select then drops the
\* session future, with what it had not yet sent and its close frame.
from_browser ==
  /\ Pumping("web") /\ ses.inbox # <<>>
  /\ LET message == Head(ses.inbox)
         read == [ses EXCEPT !.inbox = Tail(@)]
         heard == ses.stage # "draining"
     IN  \/ message = "data" /\ heard /\ ses.pipe < PipeCap /\ ses' = [read EXCEPT !.pipe = @ + 1]
         \/ message = "data" /\ ~heard /\ ses' = [ses EXCEPT !.stage = "gone"]
         \/ message = "resize" /\ ses.resizes < WindowCap
              /\ ses' = [read EXCEPT !.resizes = @ + 1]
         \/ message = "eof" /\ ses' = [ses EXCEPT !.stage = "gone"]

\* A size crosses two more queues on its way: the Console's and attach's.
console_resize ==
  /\ Pumping("web") /\ ses.resizes > 0 /\ ses.sizes < WindowCap
  /\ ses' = [ses EXCEPT !.resizes = @ - 1, !.sizes = @ + 1]
attach_resize ==
  /\ Pumping("web") /\ ses.sizes > 0 /\ ses.windows < WindowCap
  /\ ses' = [ses EXCEPT !.sizes = @ - 1, !.windows = @ + 1]

-----------------------------------------------------------------------------
(* The end of a session.                                                   *)

\* Mutant of Finished: the end is told as soon as the interpreter or the
\* guest is done, while output is still in a pump.
FinishedAtOnce(code) ==
  [ses EXCEPT !.stage = "done", !.code = code, !.ends = Append(@, code)]

\* The session is over with this code.  An SSH guest session has written its
\* output already; the interpreter's pumps and the web terminal's pipe are
\* drained before anyone is told.
Finished(code) ==
  IF ses.kind = "web" \/ ses.stage = "cli"
    THEN [ses EXCEPT !.stage = "draining", !.code = code]
    ELSE [ses EXCEPT !.stage = "done", !.code = code, !.ends = Append(@, code)]

\* One chunk leaves the interpreter's output pump, or the web terminal's
\* screen pipe, for the client.
Passed == [ses EXCEPT !.out = @ - 1, !.shown = @ + 1]
out_pump == ses.kind = "ssh" /\ ses.out > 0 /\ ~Ended /\ ses' = Passed
to_browser == ses.kind = "web" /\ ses.out > 0 /\ ~Ended /\ ses' = Passed

\* The pumps are empty: the exit status and the channel's close, or the
\* WebSocket's close frame.
Told == [ses EXCEPT !.stage = "done", !.ends = Append(@, ses.code)]
exit == ses.kind = "ssh" /\ ses.stage = "draining" /\ ses.out = 0 /\ ses' = Told
close_frame == ses.kind = "web" /\ ses.stage = "draining" /\ ses.out = 0 /\ ses' = Told

-----------------------------------------------------------------------------
(* Dispatch, and the command interpreter.                                  *)

\* An instance the user can reach is joined; anything else is the command
\* line.
dispatch ==
  /\ ses.stage = "dispatch" /\ ses.kind = "ssh"
  /\ \E target \in {"proxy", "cli"} : ses' = [ses EXCEPT !.stage = target]

\* A page load without a click does not start a stopped instance.
attach ==
  /\ ses.stage = "dispatch" /\ ses.kind = "web"
  /\ ses' = IF ses.state = "Stopped" /\ ~ses.click
              THEN Finished("off")
              ELSE [ses EXCEPT !.stage = "proxy"]

\* The stdin pump moves input to the interpreter's unbounded channel.
stdin_pump ==
  /\ ses.stage = "cli" /\ ses.pipe > 0
  /\ ses' = [ses EXCEPT !.pipe = @ - 1, !.typed = @ + 1]

\* The interpreter reads a chunk, writes a chunk, or returns its code.  A
\* read with nothing typed blocks until the client's end of file.
cli_reads ==
  /\ ses.stage = "cli" /\ ses.typed > 0
  /\ ses' = [ses EXCEPT !.typed = @ - 1]
cli_writes ==
  /\ ses.stage = "cli" /\ ses.made < MaxOut
  /\ ses' = [ses EXCEPT !.made = @ + 1, !.out = @ + 1]
cli_returns ==
  /\ ses.stage = "cli"
  /\ \E code \in {"status", "fail"} : ses' = Finished(code)

-----------------------------------------------------------------------------
(* The path to the guest.                                                  *)

\* A stopped instance is started first; a start that fails ends the session.
proxy ==
  /\ ses.stage = "proxy"
  /\ \/ ses.state = "Running" /\ ses' = [ses EXCEPT !.stage = "wait"]
     \/ ses.state = "Stopped" /\ ses' = [ses EXCEPT !.stage = "wait", !.started = TRUE]
     \/ ses.state = "Stopped" /\ ses' = Finished("fail")

\* A dial is accepted; its stream carries the handshake.
dial_accepted ==
  /\ ses.stage = "wait"
  /\ ses' = [ses EXCEPT !.stage = "connect"]

\* Mutant of Fits: only the dialer's own limit bounds a dial.
FitsDialer(d) == d <= DialMax

\* A dial is bounded by its own limit and by what remains of the wait.
Fits(d) == d <= DialMax /\ d <= Timeout - ses.elapsed

\* One dial that takes d and is refused.  The wait gives up when the next
\* dial could not start before the timeout.
dial_refused(d) ==
  /\ ses.stage = "wait" /\ Fits(d)
  /\ LET elapsed == ses.elapsed + d
     IN  ses' = IF elapsed + Interval >= Timeout
                  THEN [Finished("fail") EXCEPT !.elapsed = elapsed]
                  ELSE [ses EXCEPT !.elapsed = elapsed + Interval]

\* The stage after a step of join that worked.
After(stage) ==
  LET i == CHOOSE j \in 1..Len(JoinSteps) : JoinSteps[j] = stage
  IN  IF stage = "channel" /\ ~ses.pty THEN "command" ELSE JoinSteps[i + 1]

\* Handshake, key, authentication, channel, PTY and command: each works, or
\* join_error tells the client and the session is over.
join ==
  /\ ses.stage \in {"connect", "auth", "channel", "pty", "command"}
  /\ ses' = [ses EXCEPT !.stage = After(@)]
join_error ==
  /\ ses.stage \in {"connect", "auth", "channel", "pty", "command"}
  /\ ses' = Finished("fail")

\* The joined loop: input and sizes go to the guest, and an input that a lost
\* connection does not take ends the loop at once, ...
to_guest ==
  /\ ses.stage = "loop" /\ ses.pipe > 0
  /\ ses' = [ses EXCEPT !.pipe = @ - 1]
guest_gone_on_input ==
  /\ ses.stage = "loop" /\ ses.left /\ ses.pipe > 0
  /\ ses' = [Finished("fail") EXCEPT !.pipe = @ - 1]
window_change ==
  /\ ses.stage = "loop" /\ ses.pty /\ ses.windows > 0
  /\ ses' = [ses EXCEPT !.windows = @ - 1]

\* The guest writes, and ends; what it sends after its status is not read,
\* and is not counted.
guest_writes ==
  /\ ses.stage = "loop" /\ ~ses.left /\ ses.made < MaxOut
  /\ ses' = [ses EXCEPT !.made = @ + 1, !.far = @ + 1]
guest_leaves ==
  /\ ses.stage = "loop" /\ ~ses.left
  /\ ses' = [ses EXCEPT !.left = TRUE]

\* ... the guest's output to the client, in the order it was sent, and its
\* status, signal or close ends the loop.
from_guest ==
  /\ ses.stage = "loop" /\ ses.far > 0
  /\ ses' = IF ses.kind = "ssh"
              THEN [ses EXCEPT !.far = @ - 1, !.shown = @ + 1]
              ELSE [ses EXCEPT !.far = @ - 1, !.out = @ + 1]
\* Mutant of StatusIsNext: the status is taken ahead of the output.
StatusIsThere == ses.left
StatusIsNext == ses.left /\ ses.far = 0
guest_ends ==
  /\ ses.stage = "loop" /\ StatusIsNext
  /\ ses' = Finished("status")

-----------------------------------------------------------------------------
Next ==
  \/ \E message \in {"pty", "shell", "data", "resize", "eof"} : Client(message)
  \/ channel_open_session \/ socket
  \/ collect_requests \/ pump_early \/ pump
  \/ from_browser \/ console_resize \/ attach_resize
  \/ out_pump \/ to_browser \/ exit \/ close_frame
  \/ dispatch \/ attach \/ stdin_pump \/ cli_reads \/ cli_writes \/ cli_returns
  \/ proxy \/ dial_accepted \/ (\E d \in 0..Timeout : dial_refused(d))
  \/ join \/ join_error
  \/ to_guest \/ guest_gone_on_input \/ window_change
  \/ guest_writes \/ guest_leaves \/ from_guest \/ guest_ends

Spec == Init /\ [][Next]_svars

SessionTypeOK == ses \in Session

\* A client is told the end of its session at most once, and nothing of its
\* output comes later: the interpreter's pumps are awaited before the exit
\* status (adapters.rs CliRunner::run), the guest's status is read behind its
\* output (session.rs join), and the screen pipe is read to its end before
\* the close frame (terminal.rs run).  Whoever is told a status has been
\* given all the output; with a failure, at most what a guest connection
\* that went away still held is missing.  A client that is told nothing was
\* refused, has gone, or is a page that typed after the end (terminal.rs
\* from_browser): it may miss output too.  A stopped instance was started
\* only for an SSH session or a click, and the wait for sshd ends in time.
EndsAfterOutput ==
  /\ ses.stage = "done" => Len(ses.ends) = 1 /\ ses.out = 0
  /\ ses.stage # "done" => ses.ends = <<>>
  /\ ses.stage = "done" /\ ses.ends[1] = "status" => ses.shown = ses.made
  /\ ses.shown + ses.out + ses.far = ses.made
  /\ ses.started => ses.kind = "ssh" \/ ses.click
  /\ ses.elapsed <= Timeout

=============================================================================
