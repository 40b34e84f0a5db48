-------------------------------- MODULE Chat --------------------------------
(***************************************************************************)
(* The chat front ends: the Telegram bot (frontends/telegram.ts), the Slack*)
(* bot (slack.ts) and the terminal (repl.ts), with their sessions and the  *)
(* client through which they run a turn, in the process or on a daemon     *)
(* (client/unified.ts over bridge/openclaw/client.ts).                     *)
(*                                                                         *)
(* A behaviour is of one front end in one mode.  What runs between two     *)
(* awaits is one action; the loop over a batch of Telegram updates has no  *)
(* await in it, so while it goes on nothing else runs (Idle).  The vendors'*)
(* servers, the user and the daemon are outside: a call of theirs may      *)
(* fail, and a connection may be lost, at any time.                        *)
(*                                                                         *)
(* A message of Slack is a delivery: when Slack has not seen its           *)
(* acknowledgement it delivers an event again, slack.ts does not know it   *)
(* again, and what the user wrote once is run twice, as two messages.      *)
(*                                                                         *)
(* Left out: texts and their formatting, throttling of progress edits (at  *)
(* most one is under way here), and the file with the terminal's input     *)
(* lines.  The terminal is a TTY, whose input is not read while readline is*)
(* paused (what is typed then is read later); with a pipe for input a turn *)
(* in the process also hears nothing, and there is no Ctrl-C.              *)
(***************************************************************************)
EXTENDS Sessions, FiniteSets

CONSTANTS
  ChatOf,     \* the chat of each message
  LinesOf,    \* what each message of each front end may be
  SessionCap, \* SESSION_CAP: sessions the Telegram bot keeps
  MaxRestarts \* bound: restarts of a process that has died

Fronts == {"telegram", "slack", "repl"}

ASSUME ChatAssumption ==
  /\ DOMAIN ChatOf = Messages
  /\ LinesOf \in [Fronts -> [Messages -> SUBSET Lines]]
  /\ SessionCap \in Nat \ {0}
  /\ MaxRestarts \in Nat

VARIABLES
  front,     \* the front end: "telegram", "slack" or "repl"
  mode,      \* "local" or "daemon": whether TACHI_DAEMON_URL is set
  up,        \* the process: "up", "ended", or "died" of an unhandled rejection
  socket,    \* Slack: the Socket Mode connection is open
  next,      \* the next message (Telegram: offset, Slack and terminal: to come)
  batch,     \* Telegram: the last update of the batch in hand
  confirmed, \* messages the vendor will not deliver again
  turn,      \* each message's handler and what the user sees of it
  sessions,  \* session objects: a Telegram session has the number of the message
             \* that created it, the terminal's is 0
  table,     \* Telegram: the sessions in the map, the least recently seen first
  daemon,    \* the run a message has on the daemon
  active,    \* terminal: the turn whose AbortController is in active, or 0
  paused,    \* terminal: readline is paused, so nothing typed is read
  starts,    \* history: how often a message's handler has begun
  overlap,   \* history: two turns of the terminal were under way at once
  restarts   \* history: restarts of the process

history == <<starts, restarts>>
vars == <<front, mode, up, socket, next, batch, confirmed, turn, sessions, table, daemon,
          active, paused, overlap, history>>

(* line: what the message was.  used: the options its run began with.      *)
(* past: history: its exchange was remembered when a /reset came.          *)
(* shows: what the status message says ("end": the answer or the error),   *)
(* or "apart" when they are in a message of their own.  edit: a progress   *)
(* edit is under way.  id: the client knows the run's id.  broken: a       *)
(* connection to the daemon was lost.  missed: the last thing the front end*)
(* had to show could not be shown.                                         *)
NoOptions == [driver |-> 0, skill |-> 0, heart |-> "none"]

NewTurn == [pc |-> "none", line |-> "ignored", session |-> 0, used |-> NoOptions,
            past |-> FALSE, shows |-> "nothing", edit |-> FALSE, id |-> FALSE, broken |-> FALSE,
            missed |-> FALSE]

Init ==
  /\ front \in Fronts
  /\ mode \in {"local", "daemon"}
  /\ up = "up" /\ socket = FALSE
  /\ next = 1 /\ batch = 0 /\ confirmed = {}
  /\ turn = [m \in Messages |-> NewTurn]
  /\ sessions = [s \in 0 .. N |-> NewSession]
  /\ table = <<>>
  /\ daemon = [m \in Messages |-> "none"]
  /\ active = 0 /\ paused = FALSE /\ overlap = FALSE
  /\ starts = [m \in Messages |-> 0] /\ restarts = 0

LineOf == [m \in Messages |-> turn[m].line]

(* No loop over a batch is in hand and no line of the terminal waits for   *)
(* its microtask, so a callback can run.                                   *)
Idle ==
  /\ up = "up"
  /\ front = "telegram" => next > batch
  /\ \A m \in Messages : turn[m].pc # "begin"

At(m, pcs) == Idle /\ turn[m].pc \in pcs

Goes(m, pc) == turn' = [turn EXCEPT ![m].pc = pc]

(* The turn is over.                                                       *)
Done(t) == [t EXCEPT !.pc = "done", !.used = NoOptions]

Running == {m \in Messages : turn[m].pc \in {"run", "post", "attach", "stream"}}

-----------------------------------------------------------------------------
(* The process. *)

(* What the process held is gone; runs on the daemon are no longer anyone's*)
(* here.  A message that was not confirmed comes again.                    *)
Forgotten ==
  /\ socket' = FALSE
  /\ turn' = [m \in Messages |->
                IF m \notin confirmed THEN NewTurn
                ELSE IF turn[m].pc = "done" THEN [turn[m] EXCEPT !.edit = FALSE]
                ELSE [NewTurn EXCEPT !.pc = "gone"]]
  /\ sessions' = [s \in 0 .. N |-> NewSession]
  /\ table' = <<>> /\ active' = 0 /\ paused' = FALSE
  /\ daemon' = [m \in Messages |-> "none"]
  /\ next' = Cardinality(confirmed) + 1 \* vendors deliver in order
  /\ batch' = 0
  /\ UNCHANGED <<front, mode, confirmed, overlap, starts, restarts>>

(* A bot is killed, or told to end: shutdown() waits for no handler.       *)
Ends ==
  /\ front # "repl" /\ up = "up" /\ restarts < MaxRestarts
  /\ Forgotten
  /\ up' = "ended"

(* A rejection that nobody handles.                                        *)
Dies ==
  /\ Forgotten
  /\ up' = "died"

Restart ==
  /\ up # "up" /\ front # "repl" /\ restarts < MaxRestarts
  /\ up' = "up" /\ restarts' = restarts + 1
  /\ UNCHANGED <<front, mode, socket, next, batch, confirmed, turn, sessions, table, daemon,
                 active, paused, overlap, starts>>

-----------------------------------------------------------------------------
(* Running a turn. *)

(* client.run() is called with the session's options, as they are now.     *)
Begun(t, m) ==
  [t EXCEPT !.pc = IF mode = "daemon" THEN "post" ELSE "run",
            !.used = RunOptions(sessions[t.session], LineOf)]

(* The catch block.  The terminal prints at once and lets go of its        *)
(* controller; the bots have a call of the vendor's to wait for.           *)
Failed(t) ==
  IF front = "repl" THEN [Done(t) EXCEPT !.shows = "end"]
  ELSE [t EXCEPT !.pc = "error", !.used = NoOptions]

(* Variant with a plausible bug: the finally block does not resume.        *)
LetsGoDeaf == active' = 0 /\ UNCHANGED paused

(* The finally block of the terminal's runTurn(): the controller in active *)
(* goes, whichever turn's it is, and readline resumes.  (Bots have neither.)*)
LetsGo == active' = 0 /\ paused' = FALSE

Fails(m) == turn' = [turn EXCEPT ![m] = Failed(@)] /\ LetsGo

Breaks(m) == turn' = [turn EXCEPT ![m] = Failed([@ EXCEPT !.broken = TRUE])] /\ LetsGo

unchangedByTurn == <<front, mode, up, socket, next, batch, table, overlap, confirmed, history>>

(* POST /runs.  The daemon creates the run or refuses (its validation, a   *)
(* history that is too long, the cap); its answer may be lost.             *)
Posts(m) ==
  /\ At(m, {"post"})
  /\ \/ /\ daemon' = [daemon EXCEPT ![m] = "running"]
        /\ turn' = [turn EXCEPT ![m].pc = "attach", ![m].id = TRUE]
        /\ UNCHANGED <<active, paused>>
     \/ /\ daemon' \in {daemon, [daemon EXCEPT ![m] = "running"]}
        /\ Fails(m)
  /\ UNCHANGED <<sessions, unchangedByTurn>>

(* attach(): the listener for the signal is on, and the GET of the events  *)
(* is answered or fails.                                                   *)
Attaches(m) ==
  /\ At(m, {"attach"})
  /\ \/ Goes(m, "stream") /\ UNCHANGED <<active, paused>>
     \/ Breaks(m)
  /\ UNCHANGED <<daemon, sessions, unchangedByTurn>>

DaemonRunEnds(m) ==
  /\ daemon[m] = "running"
  /\ daemon' = [daemon EXCEPT ![m] = IF turn[m].pc \in {"attach", "stream"} THEN "over" ELSE "none"]
  /\ UNCHANGED <<turn, active, paused, sessions, unchangedByTurn>>

(* The front end has an answer: pushHistory() at once, which leaves out    *)
(* blank and halted ones, and then the edit of the status message, or a    *)
(* message of its own when there is none.  The terminal prints.            *)
Answered(t) ==
  IF front = "repl" THEN [Done(t) EXCEPT !.shows = "end"]
  ELSE [t EXCEPT !.pc = IF t.shows = "working" THEN "final" ELSE "fallback",
                 !.used = NoOptions]

Answers(m) ==
  /\ turn' = [turn EXCEPT ![m] = Answered(@)] /\ LetsGo
  /\ \/ UNCHANGED sessions
     \/ /\ front # "slack"
        /\ sessions' = [sessions EXCEPT ![turn[m].session] = Pushed(@, m)]

(* The run in this process resolves, or rejects.                           *)
LocalRunEnds(m) ==
  /\ At(m, {"run"})
  /\ Answers(m) \/ (Fails(m) /\ UNCHANGED sessions)
  /\ UNCHANGED <<daemon, unchangedByTurn>>

(* The stream ends: with the final or the error event of a run that is     *)
(* over, or because the connection was lost; nobody attaches again.        *)
StreamEnds(m) ==
  /\ At(m, {"stream"})
  /\ \/ daemon[m] = "over" /\ Answers(m)
     \/ daemon[m] = "over" /\ Fails(m) /\ UNCHANGED sessions
     \/ Breaks(m) /\ UNCHANGED sessions
  /\ daemon' = [daemon EXCEPT ![m] = IF @ = "over" THEN "none" ELSE @]
  /\ UNCHANGED unchangedByTurn

-----------------------------------------------------------------------------
(* What a bot shows: a status message that is edited. *)

unchangedByShow == <<sessions, daemon, active, paused, unchangedByTurn>>

(* The status message is there (the vendor may not have given it a number) *)
(* and the run begins; or sending it throws, which nobody catches in the   *)
(* Telegram bot, and the guard of handleEvent() logs in the Slack bot.     *)
StatusSettles(m) ==
  /\ At(m, {"status"})
  /\ \/ /\ \E shows \in {"working", "nothing"} :
             turn' = [turn EXCEPT ![m] = Begun([@ EXCEPT !.shows = shows], m)]
        /\ UNCHANGED unchangedByShow
     \/ /\ front = "slack"
        /\ turn' = [turn EXCEPT ![m] = [Done(@) EXCEPT !.missed = TRUE]]
        /\ UNCHANGED unchangedByShow
     \/ front = "telegram" /\ Dies

(* onEvent: an edit that nobody waits for.                                 *)
Progress(m) ==
  /\ At(m, {"run", "stream"}) /\ turn[m].shows = "working" /\ ~turn[m].edit
  /\ turn' = [turn EXCEPT ![m].edit = TRUE]
  /\ UNCHANGED unchangedByShow

(* The vendor carries it out, maybe after the turn's last edit, or not.    *)
EditSettles(m) ==
  /\ turn[m].edit
  /\ \/ turn' = [turn EXCEPT ![m].edit = FALSE]
     \/ turn' = [turn EXCEPT ![m].edit = FALSE, ![m].shows = IF @ = "apart" THEN @ ELSE "working",
                             ![m].missed = @ \/ turn[m].shows = "end"]
  /\ UNCHANGED unchangedByShow

(* The status message becomes the answer; else the answer is sent.         *)
FinalEditSettles(m) ==
  /\ At(m, {"final"})
  /\ \/ turn' = [turn EXCEPT ![m] = [Done(@) EXCEPT !.shows = "end"]]
     \/ Goes(m, "fallback")
  /\ UNCHANGED unchangedByShow

(* It is shown; the vendor refuses it, which is not looked at; or sending  *)
(* throws, inside the try block.                                           *)
FallbackSettles(m) ==
  /\ At(m, {"fallback"})
  /\ \/ turn' = [turn EXCEPT ![m] = [Done(@) EXCEPT !.shows = "apart"]]
     \/ turn' = [turn EXCEPT ![m] = [Done(@) EXCEPT !.missed = TRUE]]
     \/ Goes(m, "error")
  /\ UNCHANGED unchangedByShow

(* Variant with a plausible bug: an error is shown only by an edit.        *)
ErrorSettlesByEdit(m) ==
  /\ At(m, {"error"})
  /\ turn' \in IF turn[m].shows = "nothing" THEN {[turn EXCEPT ![m] = Done(@)]}
                ELSE {[turn EXCEPT ![m] = [Done(@) EXCEPT !.shows = "end"]],
                      [turn EXCEPT ![m] = [Done(@) EXCEPT !.missed = TRUE]]}
  /\ UNCHANGED unchangedByShow

(* The error, in the place of the status message or apart.                 *)
ErrorSettles(m) ==
  /\ At(m, {"error"})
  /\ \/ turn' = [turn EXCEPT ![m] =
               [Done(@) EXCEPT !.shows = IF @ = "nothing" THEN "apart" ELSE "end"]]
     \/ turn' = [turn EXCEPT ![m] = [Done(@) EXCEPT !.missed = TRUE]]
  /\ UNCHANGED unchangedByShow

(* The reply to a command.  Nothing catches what sendMessage() throws.     *)
ReplySettles(m) ==
  /\ At(m, {"reply"})
  /\ \/ turn' = [turn EXCEPT ![m] = Done(@)] /\ UNCHANGED unchangedByShow
     \/ Dies

(* /task with a daemon: its answer becomes the reply, its failure is not   *)
(* caught by the Telegram bot, and is printed by the terminal, which       *)
(* prompts either way: readline resumes, even if a turn is under way.      *)
TaskSettles(m) ==
  /\ At(m, {"task"})
  /\ \/ /\ turn' = [turn EXCEPT ![m] =
               IF front = "repl" THEN Done(@) ELSE [@ EXCEPT !.pc = "reply"]]
        /\ paused' = FALSE
        /\ UNCHANGED <<sessions, daemon, active, unchangedByTurn>>
     \/ front = "telegram" /\ Dies

-----------------------------------------------------------------------------
(* Messages come in. *)

(* Variant with a plausible bug: the offset is moved by the poll.          *)
PollsAhead ==
  /\ front = "telegram" /\ Idle
  /\ batch' \in next - 1 .. N
  /\ confirmed' = confirmed \cup 1 .. batch'
  /\ UNCHANGED <<front, mode, up, socket, next, table, active, paused, overlap, turn, sessions,
                 daemon, history>>

(* getUpdates(offset): the vendor forgets what is before offset, and the   *)
(* call brings what there is from offset on, nothing, or fails.            *)
Polls ==
  /\ front = "telegram" /\ Idle
  /\ confirmed' = confirmed \cup 1 .. next - 1
  /\ batch' \in next - 1 .. N
  /\ UNCHANGED <<front, mode, up, socket, next, table, active, paused, overlap, turn, sessions,
                 daemon, history>>

(* Variant with a plausible bug: the sessions are not kept apart by chat.  *)
KnownToAnyone(m) == DOMAIN table

(* getSession(): the places of the chat's session in the map (one, or      *)
(* none), the session, and the map afterwards.                             *)
Known(m) == {i \in DOMAIN table : ChatOf[table[i]] = ChatOf[m]}

Place(m) == CHOOSE i \in Known(m) : TRUE

SessionOf(m) == IF Known(m) = {} THEN m ELSE table[Place(m)]

Without(i) == SubSeq(table, 1, i - 1) \o SubSeq(table, i + 1, Len(table))

Seen(m) ==
  IF Known(m) # {} THEN Append(Without(Place(m)), SessionOf(m))
  ELSE Append(IF Len(table) >= SessionCap THEN Tail(table) ELSE table, m)

Comes(line) == next \in Messages /\ line \in LinesOf[front][next]

Remembers(session, m) == \E i \in DOMAIN session.history : session.history[i][2] = m

(* The handler begins, up to its first await.                              *)
Receives(m, line, s, pc) ==
  /\ next' = next + 1
  /\ starts' = [starts EXCEPT ![m] = @ + 1]
  /\ sessions' = [sessions EXCEPT ![s] = Handled(@, m, line)]
  /\ turn' = [k \in Messages |->
       IF k = m THEN [NewTurn EXCEPT !.pc = pc, !.line = line, !.session = s]
       ELSE [turn[k] EXCEPT !.past = @ \/ (line = "reset" /\ Remembers(sessions[s], k))]]
  /\ UNCHANGED <<front, mode, batch, daemon, restarts>>

(* Variant with a plausible bug: the offset is moved for messages that are *)
(* handled.                                                                *)
TelegramReceivesAgain(line) ==
  /\ front = "telegram" /\ up = "up" /\ next <= batch /\ Comes(line)
  /\ \/ /\ line = "ignored" /\ batch' = next - 1
        /\ UNCHANGED <<front, mode, up, socket, next, confirmed, turn, sessions, table, daemon,
                       active, paused, overlap, history>>
     \/ /\ line # "ignored"
        /\ Receives(next, line, SessionOf(next), IF line \in Asks THEN "status" ELSE "reply")
        /\ table' = Seen(next)
        /\ UNCHANGED <<up, socket, confirmed, active, paused, overlap>>

(* One update of the batch.  A stranger's, or one without a text, is       *)
(* passed over.                                                            *)
TelegramReceives(line) ==
  /\ front = "telegram" /\ up = "up" /\ next <= batch /\ Comes(line)
  /\ \/ /\ line = "ignored"
        /\ Receives(next, line, 0, "done") /\ UNCHANGED table
     \/ /\ line # "ignored"
        /\ Receives(next, line, SessionOf(next),
                    IF line \in Asks THEN "status"
                    ELSE IF line = "task" /\ mode = "daemon" THEN "task" ELSE "reply")
        /\ table' = Seen(next)
  /\ UNCHANGED <<up, socket, confirmed, active, paused, overlap>>

SlackConnects ==
  /\ front = "slack" /\ up = "up" /\ ~socket /\ socket' = TRUE
  /\ UNCHANGED <<front, mode, up, next, batch, table, active, paused, overlap, confirmed, turn,
                 sessions, daemon, history>>

SlackDisconnects ==
  /\ socket /\ socket' = FALSE
  /\ UNCHANGED <<front, mode, up, next, batch, table, active, paused, overlap, confirmed, turn,
                 sessions, daemon, history>>

(* A delivery is acknowledged and handled in one step, whether or not the  *)
(* acknowledgement arrives: if it does not, the redelivery is one of the   *)
(* messages to come.  Slack knows no commands and keeps no session.        *)
SlackReceives(line) ==
  /\ front = "slack" /\ up = "up" /\ socket /\ Comes(line)
  /\ confirmed' = confirmed \cup {next}
  /\ IF line = "ignored" THEN Receives(next, line, 0, "done")
     ELSE Receives(next, "plain", 0, "status")
  /\ UNCHANGED <<up, socket, table, active, paused, overlap>>

(* A line of the terminal.  The lines of a pasted block are read at once,  *)
(* before the first of them goes on in its microtask (ReplBegins).  (A     *)
(* /task waits for the daemon instead.)                                    *)
ReplReceives(line) ==
  /\ front = "repl" /\ up = "up" /\ ~paused /\ Comes(line)
  /\ Receives(next, line, 0, IF line = "task" /\ mode = "daemon" THEN "task" ELSE "begin")
  /\ UNCHANGED <<up, socket, table, confirmed, active, paused, overlap>>

(* The line goes on.  runTurn() begins: active is overwritten and readline *)
(* pauses, so stdin, in raw mode, is not read and a Ctrl-C waits there     *)
(* until readline resumes.  The reply to a command is printed and the      *)
(* prompt resumes readline, even if a turn of the block is under way.      *)
ReplBegins(m) ==
  /\ up = "up" /\ turn[m].pc = "begin" /\ \A k \in 1 .. m - 1 : turn[k].pc # "begin"
  /\ \/ /\ turn[m].line \in Asks
        /\ turn' = [turn EXCEPT ![m] = Begun(@, m)]
        /\ active' = m /\ paused' = TRUE
        /\ overlap' = (overlap \/ Running # {})
        /\ UNCHANGED up
     \/ /\ turn[m].line \notin Asks
        /\ turn' = [turn EXCEPT ![m] = Done(@)]
        /\ up' = IF turn[m].line = "exit" THEN "ended" ELSE up
        /\ paused' = FALSE
        /\ UNCHANGED <<active, overlap>>
  /\ UNCHANGED <<front, mode, socket, next, batch, table, confirmed, sessions, daemon, history>>

(* Variant with a plausible bug: the listener for the signal is added when *)
(* the stream is open.                                                     *)
CtrlCListensLate ==
  /\ front = "repl" /\ Idle /\ ~paused /\ active # 0
  /\ turn[active].pc \in {"attach", "stream"}
  /\ \/ /\ Fails(active)
        /\ daemon' = [daemon EXCEPT ![active] =
             IF @ = "running" /\ turn[active].pc = "stream" THEN "aborted" ELSE @]
     \/ Breaks(active) /\ UNCHANGED daemon
  /\ UNCHANGED <<sessions, unchangedByTurn>>

(* Ctrl-C is read with a turn in active and aborts it.  (That takes a      *)
(* prompt of another line that has resumed readline during the turn.)      *)
(* While the POST is under way the call is dropped, whether or not the     *)
(* daemon has got it; later the daemon is told to cancel, as best one can. *)
(* (A run in this process looks at the signal in its own time:             *)
(* LocalRunEnds.)                                                          *)
CtrlCPosting ==
  /\ front = "repl" /\ Idle /\ ~paused /\ active # 0 /\ turn[active].pc = "post"
  /\ Fails(active)
  /\ daemon' \in {daemon, [daemon EXCEPT ![active] = "running"]}
  /\ UNCHANGED <<sessions, unchangedByTurn>>

CtrlC ==
  /\ front = "repl" /\ Idle /\ ~paused /\ active # 0
  /\ turn[active].pc \in {"attach", "stream"}
  /\ \/ /\ Fails(active)
        /\ daemon' = [daemon EXCEPT ![active] = IF @ = "running" THEN "aborted" ELSE @]
     \/ Breaks(active) /\ UNCHANGED daemon
  /\ UNCHANGED <<sessions, unchangedByTurn>>

(* Ctrl-C is read without a turn in active (it may have been typed during  *)
(* the turn before), or Ctrl-D is read: the terminal closes.               *)
TerminalCloses ==
  /\ front = "repl" /\ up = "up" /\ ~paused
  /\ up' = "ended"
  /\ UNCHANGED <<front, mode, socket, next, batch, table, active, paused, overlap, confirmed,
                 turn, sessions, daemon, history>>

-----------------------------------------------------------------------------
TurnStep(m) ==
  Posts(m) \/ Attaches(m) \/ LocalRunEnds(m) \/ StreamEnds(m) \/ StatusSettles(m)
    \/ FinalEditSettles(m) \/ FallbackSettles(m) \/ ErrorSettles(m) \/ ReplySettles(m)
    \/ TaskSettles(m) \/ ReplBegins(m)

TelegramNext == Polls \/ \E line \in Lines : TelegramReceives(line)

SlackNext == SlackConnects \/ \E line \in Lines : SlackReceives(line)

ReplNext ==
  (\E line \in Lines : ReplReceives(line)) \/ CtrlCPosting \/ CtrlC \/ TerminalCloses

Next ==
  \/ TelegramNext \/ SlackNext \/ SlackDisconnects \/ ReplNext \/ Ends \/ Restart
  \/ \E m \in Messages : TurnStep(m) \/ DaemonRunEnds(m) \/ Progress(m) \/ EditSettles(m)

Spec == Init /\ [][Next]_vars

(* The vendors' and the daemon's calls settle, runs end (they have a       *)
(* deadline), what waits at a vendor is brought by a poll or over a new    *)
(* connection, and a bot that has died is started again.  Nobody owes a    *)
(* line of the terminal, Ctrl-C, a lost connection or the end of a process.*)
Fairness ==
  /\ \A m \in Messages : WF_vars(TurnStep(m)) /\ WF_vars(DaemonRunEnds(m))
  /\ WF_vars(Polls /\ batch' >= next)
  /\ WF_vars(\E line \in Lines : TelegramReceives(line))
  /\ WF_vars(SlackConnects) /\ SF_vars(\E line \in Lines : SlackReceives(line))
  /\ WF_vars(Restart)

FairSpec == Spec /\ Fairness

-----------------------------------------------------------------------------
(* Properties *)

(* A history is of whole exchanges.                                        *)
Whole(h) ==
  /\ Len(h) % 2 = 0 /\ Len(h) <= HistoryMax
  /\ \A i \in 1 .. Len(h) \div 2 : h[2 * i - 1] = <<"user", ExchangesOf(h)[i]>>

(* The variables hold values of their types, in particular the map never   *)
(* holds more than SESSION_CAP sessions, nor two of one chat, and histories*)
(* are capped at whole exchanges.                                          *)
TypeOK ==
  /\ front \in Fronts /\ mode \in {"local", "daemon"}
  /\ up \in {"up", "ended", "died"}
  /\ socket \in BOOLEAN /\ overlap \in BOOLEAN
  /\ next \in 1 .. N + 1 /\ batch \in 0 .. N /\ confirmed \subseteq Messages
  /\ turn \in [Messages ->
       [pc : {"none", "begin", "task", "reply", "status", "run", "post", "attach", "stream",
              "final", "fallback", "error", "done", "gone"},
        line : Lines, session : 0 .. N,
        used : [driver : 0 .. N, skill : 0 .. N,
                heart : {"none", "session", "skill", "environment"}],
        past : BOOLEAN, shows : {"nothing", "working", "end", "apart"},
        edit : BOOLEAN, id : BOOLEAN, broken : BOOLEAN, missed : BOOLEAN]]
  /\ sessions \in [0 .. N -> Session] /\ \A s \in 0 .. N : Whole(sessions[s].history)
  /\ table \in Seq(Messages) /\ Len(table) <= SessionCap
  /\ \A i, j \in DOMAIN table : ChatOf[table[i]] = ChatOf[table[j]] => i = j
  /\ daemon \in [Messages -> {"none", "running", "over", "aborted"}]
  /\ active \in 0 .. N /\ paused \in BOOLEAN
  /\ starts \in [Messages -> Nat] /\ restarts \in 0 .. MaxRestarts

(* A message that a vendor will not bring again has been begun, and none   *)
(* is begun twice by one process, although the offset is kept in memory    *)
(* only and the process may end between any two steps.                     *)
Delivery ==
  \A m \in Messages : /\ m \in confirmed => starts[m] > 0
                      /\ starts[m] <= restarts + 1

(* A command counts for every message of its session that comes after it:  *)
(* no run begins with a driver or a skill that /driver, /skill or /reset   *)
(* has replaced before the message came, whatever runs meanwhile (it may   *)
(* begin with what a later command has set), and a session remembers       *)
(* nothing that ended before its /reset, not even when a run of before the *)
(* /reset ends after it.                                                   *)
LastWordCounts ==
  \A j, m \in Messages :
    /\ turn[m].past => ~Remembers(sessions[turn[m].session], m)
    /\ (front # "slack" /\ turn[j].session = turn[m].session /\ j < m
          /\ turn[m].used.heart # "none") =>
         /\ turn[j].line \in {"driver", "driver off", "reset"} => turn[m].used.driver >= j
         /\ turn[j].line \in {"skill", "skill off", "reset"} => turn[m].used.skill >= j

(* Each session object keeps the promise of module Conversation over the   *)
(* messages of its chat: its history is whole exchanges, each once, in the *)
(* order in which they ended, the latest ones, and nothing that ended      *)
(* before a /reset; also for an object that was evicted from the map while *)
(* a turn holds it.                                                        *)
Conv(s) == INSTANCE Conversation WITH
  Exchanges <- {m \in Messages : s = 0 \/ ChatOf[m] = ChatOf[s]},
  Capacity <- HistoryMax \div 2,
  memory <- ExchangesOf(sessions[s].history)

ConversationsKept ==
  /\ \A s \in 0 .. N : Conv(s)!Init
  /\ [][\A s \in 0 .. N :
         Conv(s)!Next \/ UNCHANGED ExchangesOf(sessions[s].history)]_vars

(* When a bot's turn is over the user sees its answer or its error, unless *)
(* the very last call for it failed or a progress edit, which nobody waits *)
(* for, was carried out after the last one.                                *)
EndIsShown ==
  \A m \in Messages :
    turn[m].pc = "done" /\ turn[m].line \in Asks /\ front # "repl" =>
      turn[m].shows \in {"end", "apart"} \/ turn[m].missed

(* The terminal is deaf only while the turn in active is under way, so it  *)
(* listens again however turns end, commands and turns being pasted in any *)
(* order.  What it hears then is for the right turn: active holds the      *)
(* youngest of the turns under way, or none; and none only if there is     *)
(* none, as long as no two turns have overlapped (the end of one leaves    *)
(* the other without, and Ctrl-C closes the terminal under it).            *)
TerminalSound ==
  front = "repl" =>
    /\ paused => active # 0
    /\ active # 0 => active \in Running /\ \A m \in Running : m <= active
    /\ ~overlap => \A m \in Running : active = m

(* A run that goes on at the daemon after its turn is over is one whose id *)
(* the client never learnt, or whose events it did not get to the end: the *)
(* GET of them failed or was refused, or the stream broke.  So an abort of *)
(* a turn that waits for events reaches the daemon.                        *)
AbandonedOnlyUnknown ==
  \A m \in Messages :
    turn[m].pc = "done" /\ daemon[m] = "running" => ~turn[m].id \/ turn[m].broken

(* Ctrl-C, when it is read, stops the turn under way, and nothing of it    *)
(* goes on elsewhere.                                                      *)
AbortReachesTheRun == TerminalSound /\ AbandonedOnlyUnknown

(* In the end every message of a bot has been handled to its end, or lost  *)
(* with the process that had begun it, or the bot stays down; and a line   *)
(* of the terminal that began a turn has ended it.                         *)
MessagesSettle ==
  <>[](up = "up" => \A m \in Messages :
         turn[m].pc \in {"done", "gone"} \cup IF front = "repl" THEN {"none"} ELSE {})

-----------------------------------------------------------------------------
(* What a comment says, and the code does not do: refuted. *)

(* telegram.ts:247 "Handle each message independently so one error can't   *)
(* kill the loop": no rejection ends the process.                          *)
LoopSurvives == up # "died"
=============================================================================
