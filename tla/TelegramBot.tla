---------------------------- MODULE TelegramBot ----------------------------
(***************************************************************************)
(* The Telegram bot of the backend, seen from one authorised chat: the     *)
(* messages with their buttons, the context the bot keeps for the chat (its *)
(* last message and the navigation stack), the handlers of commands and of  *)
(* pressed buttons, and the life of the bot itself (telegram.service.ts,    *)
(* the /telegram routes of mining.routes.ts and telegram.routes.ts, the     *)
(* start and the handler of rejections in server.ts).                       *)
(*                                                                         *)
(* A handler runs up to its next call of Telegram or of a machine in one   *)
(* step; several are in flight at once.  Telegram may answer any call with *)
(* an error, temporary or not, as often as it likes.                       *)
(***************************************************************************)
EXTENDS Naturals, Sequences, SequencesExt, FiniteSets

CONSTANTS
  Miners,        \* the miners whose names the chat knows
  Asked,         \* bound: the commands and buttons the user uses
  Left,          \* the chats an earlier life of the bot may have left
  InFlight,      \* bound: handlers in flight at once
  Nothing,       \* no handler, no data, no message
  MaxAttempts,   \* TELEGRAM_MAX_RETRIES
  MaxUpdates,    \* bound: commands and presses the user sends
  MaxMessages,   \* bound: messages with buttons in the chat
  MaxFaults      \* bound: deletions, restarts, cleanups, settings, removed miners

ASSUME AttemptsAssumption == MaxAttempts \in Nat \ {0}
ASSUME BoundsAssumption == InFlight \in Nat \ {0} /\ MaxFaults \in Nat

Slots == 1..InFlight

VARIABLES
  up,            \* the process runs
  enabled,       \* bot # null && isEnabled
  pollers,       \* bots that poll: the newest, and those nobody stopped
  stored,        \* the credentials are in the settings table
  configured,    \* the miners the inventory has
  chat,          \* the messages: [view, miner, back], view "gone" once deleted
  contexts,      \* the UserContext objects made since the start: [last, stack]
  current,       \* the one userContexts has for the chat, or Nothing
  refreshed,     \* keys of lastRefreshTime: the messages refreshed since the start
  handlers,      \* what each slot runs, or Nothing
  taps,          \* history: confirmations pressed, per miner
  reboots,       \* history: reboot commands sent, per miner
  doubled,       \* history: two bots have polled at once
  updatesLeft, faultsLeft

bot == <<up, enabled, pollers, stored, doubled>>
memory == <<contexts, current, refreshed>>
history == <<taps, reboots>>
bounds == <<updatesLeft, faultsLeft>>
vars == <<bot, memory, history, bounds, configured, chat, handlers>>

Fault == faultsLeft > 0 /\ faultsLeft' = faultsLeft - 1

----------------------------------------------------------------------------
(* Screens, and the operations a handler is made of.                       *)

Screen(view, m, back) == [view |-> view, miner |-> m, back |-> back]
Plain(view) == Screen(view, Nothing, FALSE)

\* The type under which a screen is put on the navigation stack.
ViewType(view) ==
  CASE view \in {"menu", "farm"} -> "status"
    [] view \in {"details", "confirm", "working", "rebooted", "failed"} -> "miner_details"
    [] view \in {"pools", "poolsError", "poolsMissing"} -> "pools"
    [] view \in {"found", "notFound"} -> "miners"
    [] view = "text" -> "none"
    [] OTHER -> view

\* sendOrEditMessage: draw a screen on a message (0: the context's last one, or a new one).
Draw(screen, target, refresh) ==
  [op |-> "draw", screen |-> screen, target |-> target, refresh |-> refresh,
   leg |-> "new", tries |-> 0, context |-> 0]

Post(screen) == [op |-> "post", screen |-> screen]        \* bot.sendMessage
Answer == [op |-> "answer"]                               \* answerCallbackQuery
Reboot(m, msg) == [op |-> "reboot", miner |-> m, target |-> msg]
ReadPools(m, msg, refresh) == [op |-> "pools", miner |-> m, target |-> msg, refresh |-> refresh]

\* The buttons of a screen, by what they do.
Press(do, m) == [do |-> do, miner |-> m]

Buttons(s) ==
  CASE s.view = "menu" -> {Press(a, Nothing) : a \in {"status", "miners", "alerts", "help"}}
    [] s.view = "farm" -> {Press(a, Nothing) : a \in {"miners", "alerts", "status"}}
    [] s.view = "miners" -> {Press("details", m) : m \in configured}
                              \cup {Press("miners", Nothing), Press("status", Nothing)}
    [] s.view = "found" -> {Press("details", s.miner), Press("miners", Nothing)}
    [] s.view = "notFound" -> {Press("miners", Nothing), Press("status", Nothing)}
    [] s.view = "details" -> {Press(a, s.miner) : a \in {"details", "pools", "request"}}
                              \cup {Press("miners", Nothing), Press("menu", Nothing)}
    [] s.view = "confirm" -> {Press("confirm", s.miner), Press("cancel", s.miner)}
    [] s.view = "working" -> {Press("noop", Nothing)}
    [] s.view = "rebooted" -> {Press("details", s.miner), Press("miners", Nothing)}
    [] s.view = "failed" -> {Press("details", s.miner)}
    [] s.view = "poolsMissing" -> {IF s.back THEN Press("back", Nothing) ELSE Press("list", Nothing)}
    [] s.view \in {"pools", "poolsError"} ->
         {IF s.back THEN Press("back", Nothing) ELSE Press("details", s.miner)}
           \cup (IF s.view = "pools" THEN {Press("list", Nothing)} ELSE {})
    [] s.view = "alerts" -> {Press("alerts", Nothing), Press("status", Nothing)}
    [] s.view = "help" -> {Press("help", Nothing), Press("menu", Nothing)}
    [] OTHER -> {}

----------------------------------------------------------------------------
(* The context of the chat.                                                *)

NewContext == [last |-> Nothing, stack |-> <<>>]

\* getUserContext: the context of the chat, made when there is none.
Known(mem) == IF mem.current # Nothing THEN mem
              ELSE [contexts |-> Append(mem.contexts, NewContext),
                    current |-> Len(mem.contexts) + 1]
Memory == [contexts |-> contexts, current |-> current]
Context(mem) == mem.contexts[mem.current]

\* pushView: on the context the chat has by now, not the one the caller holds.
Pushed(mem, type, m) ==
  LET k == Known(mem)
  IN [k EXCEPT !.contexts[k.current].stack = Append(@, [type |-> type, miner |-> m])]

\* popView: the bottom view is never popped.
CanPop(mem) == mem.current # Nothing /\ Len(Context(mem).stack) > 1
Popped(mem) == [mem EXCEPT !.contexts[mem.current].stack = Front(@)]

\* A new message became the last one of the context the handler holds.
Sent(mem, o, id) ==
  LET noted == [mem EXCEPT !.contexts[o.context].last = id]
      type == ViewType(o.screen.view)
  IN IF type = "none" THEN noted ELSE Pushed(noted, type, o.screen.miner)

\* An edit succeeded: the top view is brought up to date, or the new one goes on top.
Edited(mem, o) ==
  LET noted == [mem EXCEPT !.contexts[o.context].last = o.target]
      held == mem.contexts[o.context].stack
      type == ViewType(o.screen.view)
  IN IF type = "none" THEN noted
     ELSE IF held = <<>> \/ Last(held).type # type
          THEN Pushed(noted, type, o.screen.miner)
          ELSE [noted EXCEPT !.contexts[o.context].stack[Len(held)].miner = o.screen.miner]

\* What a handler does up to its next call: with the bot switched off sendOrEditMessage
\* returns, else it takes the context and decides what to edit.  The pools screen offers
\* Back when there is something below.
Begin(mem, ops) ==
  IF ops = <<>> \/ Head(ops).op # "draw" THEN [mem |-> mem, ops |-> ops]
  ELSE IF ~enabled THEN [mem |-> mem, ops |-> Tail(ops)]
  ELSE LET k == Known(mem)
           o == Head(ops)
           target == IF o.target # Nothing THEN o.target ELSE Context(k).last
           back == ViewType(o.screen.view) = "pools" /\ Len(Context(k).stack) > 1
           begun == [o EXCEPT !.target = target, !.context = k.current,
                              !.screen.back = back,
                              !.leg = IF target = Nothing THEN "send" ELSE "edit"]
       IN [mem |-> k, ops |-> <<begun>> \o Tail(ops)]

----------------------------------------------------------------------------
(* What commands and buttons do: the calls of a handler, and the one that  *)
(* its own catch makes when one of them throws.                            *)

Work(ops, recovery) == [ops |-> ops, recovery |-> recovery]
Error == Post(Plain("text"))

sendMainMenu(refresh, msg) == Work(<<Draw(Plain("menu"), msg, refresh)>>, Nothing)
sendInteractiveHelp == Work(<<Draw(Plain("help"), Nothing, FALSE)>>, Error)
sendFarmStatus(refresh, msg) == Work(<<Draw(Plain("farm"), msg, refresh)>>, Error)
sendActiveAlerts(refresh, msg) == Work(<<Draw(Plain("alerts"), msg, refresh)>>, Error)

\* Without any miner a message says so, refresh or not.
sendMinersList(refresh, msg) ==
  Work(IF configured = {} THEN <<Error>> ELSE <<Draw(Plain("miners"), msg, refresh)>>, Error)

\* /find with a word that only miner m has in its name.
searchMiners(m) ==
  Work(CASE configured = {} -> <<Error>>
         [] m \in configured -> <<Draw(Screen("found", m, FALSE), Nothing, FALSE)>>
         [] OTHER -> <<Draw(Plain("notFound"), Nothing, FALSE)>>, Error)

\* A miner that is gone is reported on the last message, whoever asked.
sendMinerDetails(m, refresh, msg) ==
  Work(IF m \in configured THEN <<Draw(Screen("details", m, FALSE), msg, refresh)>>
       ELSE <<Draw(Plain("text"), Nothing, FALSE)>>, Error)

sendMinerPools(m, refresh, msg) ==
  Work(IF m \in configured THEN <<ReadPools(m, msg, refresh)>>
       ELSE <<Draw(Screen("poolsMissing", m, FALSE), msg, refresh)>>,
       Draw(Screen("poolsError", m, FALSE), msg, refresh))

handleRebootRequest(m) ==
  Work(IF m \in configured THEN <<Post(Screen("confirm", m, FALSE))>> ELSE <<Error>>, Error)

executeReboot(m, msg) ==
  Work(<<Draw(Screen("working", m, FALSE), msg, TRUE), Reboot(m, msg)>>,
       Draw(Screen("failed", m, FALSE), msg, TRUE))

\* nav_back: the view below by its type; nothing when there is none.
Restored(view, msg) ==
  CASE view.type = "status" -> sendFarmStatus(TRUE, msg)
    [] view.type = "miners" -> sendMinersList(TRUE, msg)
    [] view.type = "miner_details" -> sendMinerDetails(view.miner, TRUE, msg)
    [] view.type = "alerts" -> sendActiveAlerts(TRUE, msg)
    [] view.type = "pools" -> sendMinerPools(view.miner, TRUE, msg)
    [] OTHER -> sendMainMenu(TRUE, msg)

\* The work of a pressed button, with what it did to the navigation stack before.
Dispatched(p, msg, mem) ==
  CASE p.do = "status" -> sendFarmStatus(TRUE, msg)
    [] p.do = "miners" -> sendMinersList(TRUE, msg)
    [] p.do = "list" -> sendMinersList(FALSE, Nothing)
    [] p.do \in {"details", "cancel"} -> sendMinerDetails(p.miner, TRUE, msg)
    [] p.do = "pools" -> sendMinerPools(p.miner, TRUE, msg)
    [] p.do = "request" -> Work(<<Draw(Screen("confirm", p.miner, FALSE), msg, TRUE)>>, Nothing)
    [] p.do = "confirm" -> executeReboot(p.miner, msg)
    [] p.do = "alerts" -> sendActiveAlerts(TRUE, msg)
    [] p.do = "help" -> sendInteractiveHelp
    [] p.do = "menu" -> sendMainMenu(TRUE, msg)
    [] p.do = "back" /\ CanPop(mem) -> Restored(Last(Front(Context(mem).stack)), msg)
    [] OTHER -> Work(<<>>, Nothing)

\* nav_back pops, View Pools puts the details of its miner below the pools.
StackBefore(p, mem) ==
  LET stack == Context(mem).stack
  IN CASE p.do = "back" /\ CanPop(mem) -> Popped(mem)
       [] p.do = "pools" /\ (stack = <<>> \/ Last(stack).type # "pools") ->
            Pushed(mem, "miner_details", p.miner)
       [] OTHER -> mem

\* The commands of an authorised chat.  whoami and a refused transfer post without a catch.
Commanded(c) ==
  CASE c.do = "start" -> sendMainMenu(FALSE, Nothing)
    [] c.do = "status" -> sendFarmStatus(FALSE, Nothing)
    [] c.do = "miners" -> sendMinersList(FALSE, Nothing)
    [] c.do = "find" -> searchMiners(c.miner)
    [] c.do = "miner" -> sendMinerDetails(c.miner, FALSE, Nothing)
    [] c.do = "reboot" -> handleRebootRequest(c.miner)
    [] c.do = "pools" -> sendMinerPools(c.miner, FALSE, Nothing)
    [] c.do = "alerts" -> sendActiveAlerts(FALSE, Nothing)
    [] c.do = "help" -> sendInteractiveHelp
    [] c.do = "whoami" -> Work(<<Error>>, Nothing)

Commands == {Press(c, Nothing) : c \in {"start", "status", "miners", "alerts", "help", "whoami"}}
              \cup {Press(c, m) : c \in {"find", "miner", "reboot", "pools"}, m \in Miners}

----------------------------------------------------------------------------
(* Handlers.                                                               *)

\* recovery: the operation of the sender's own catch; outer: inside the catch of the callback
\* handler; press: a query to answer; quiet: the start's loop, which catches and logs.
Handler(work, press, outer, quiet) ==
  [ops |-> work.ops \o (IF press THEN <<Answer>> ELSE <<>>), recovery |-> work.recovery,
   press |-> press, outer |-> outer, quiet |-> quiet, failed |-> FALSE]

Free(h) == handlers[h] = Nothing
NextSlot(h) == Free(h) /\ \A g \in 1..(h - 1) : ~Free(g)
Remember(mem) == contexts' = mem.contexts /\ current' = mem.current

\* Start or go on with a handler whose next operations are hd.ops.
Run(h, hd, mem) ==
  LET b == Begin(mem, hd.ops)
  IN /\ handlers' = [handlers EXCEPT ![h] = IF b.ops = <<>> THEN Nothing
                                             ELSE [hd EXCEPT !.ops = b.ops]]
     /\ Remember(b.mem)

Finish(h, mem) == Run(h, [handlers[h] EXCEPT !.ops = Tail(@)], mem)

\* The process goes down, or starts: its memory and its handlers are gone.
Forget == contexts' = <<>> /\ current' = Nothing /\ refreshed' = {}

\* unhandledRejection: the backend shuts down.
GoDown ==
  /\ up' = FALSE /\ enabled' = FALSE /\ pollers' = 0
  /\ Forget /\ handlers' = [h \in Slots |-> Nothing]
  /\ UNCHANGED <<stored, doubled>>

\* A call of handler h threw: the sender's catch tries something else, the catch of the
\* callback handler answers the query, the start logs; a command has nothing left.
\* Defect: the catch of the callback handler is forgotten.
ThrowOnce(h) ==
  LET hd == handlers[h]
      answer == IF hd.press THEN <<Answer>> ELSE <<>>
      next == [hd EXCEPT !.failed = TRUE, !.recovery = Nothing]
  IN IF hd.recovery # Nothing /\ Head(hd.ops).op # "answer"
       THEN Run(h, [next EXCEPT !.ops = <<hd.recovery>> \o answer], Memory)
              /\ UNCHANGED <<bot, refreshed>>
       ELSE IF hd.quiet THEN Run(h, [next EXCEPT !.ops = <<>>], Memory) /\ UNCHANGED <<bot, refreshed>>
       ELSE GoDown

Throw(h) ==
  LET hd == handlers[h]
      answer == IF hd.press THEN <<Answer>> ELSE <<>>
      next == [hd EXCEPT !.failed = TRUE, !.recovery = Nothing]
  IN IF hd.recovery # Nothing /\ Head(hd.ops).op # "answer"
       THEN Run(h, [next EXCEPT !.ops = <<hd.recovery>> \o answer], Memory)
              /\ UNCHANGED <<bot, refreshed>>
     ELSE IF hd.outer THEN Run(h, [next EXCEPT !.ops = <<Answer>>, !.outer = FALSE], Memory)
                             /\ UNCHANGED <<bot, refreshed>>
     ELSE IF hd.quiet THEN Run(h, [next EXCEPT !.ops = <<>>], Memory) /\ UNCHANGED <<bot, refreshed>>
     ELSE GoDown

----------------------------------------------------------------------------
(* Answers of Telegram and of the machines.                                *)

Running(h, op) == ~Free(h) /\ Head(handlers[h].ops).op = op
Current(h) == Head(handlers[h].ops)
Room == Len(chat) < MaxMessages

\* An edit is done: the message shows the screen, the context follows.
EditDone(h) ==
  /\ Running(h, "draw") /\ Current(h).leg = "edit"
  /\ chat[Current(h).target].view # "gone"
  /\ chat' = [chat EXCEPT ![Current(h).target] = Current(h).screen]
  /\ Finish(h, Edited(Memory, Current(h)))
  /\ UNCHANGED <<bot, refreshed, history, bounds, configured>>

\* "message is not modified": ignored, and the context stays as it was.
EditUnchanged(h) ==
  /\ Running(h, "draw") /\ Current(h).leg = "edit"
  /\ chat[Current(h).target] = Current(h).screen
  /\ Finish(h, Memory)
  /\ UNCHANGED <<bot, refreshed, history, bounds, configured, chat>>

\* A new message is there, in the place of none or of one that is gone.
SendDone(h) ==
  /\ Running(h, "draw") /\ Current(h).leg # "edit" /\ Room
  /\ chat' = Append(chat, Current(h).screen)
  /\ Finish(h, Sent(Memory, Current(h), Len(chat) + 1))
  /\ UNCHANGED <<bot, refreshed, history, bounds, configured>>

\* What withTelegramRetry makes of a temporary error: after the last attempt it is thrown.
\* Defect: it tries for as long as the error is temporary.
AttemptForever(tries) == (tries + 1) % MaxAttempts
NextAttempt(tries) == tries + 1

\* A temporary error.  The message of a send may be in the chat all the same.
Retried(h) ==
  /\ Running(h, "draw")
  /\ NextAttempt(Current(h).tries) < MaxAttempts
  /\ handlers' = [handlers EXCEPT ![h].ops[1].tries = NextAttempt(@)]
  /\ chat' \in {chat} \cup (IF Current(h).leg # "edit" /\ Room
                            THEN {Append(chat, Current(h).screen)} ELSE {})
  /\ UNCHANGED <<bot, memory, history, bounds, configured>>

\* The last attempt failed.  A message that is gone is replaced unless this is a refresh; the
\* replacement's failure is thrown, every other failure is swallowed.
DrawFailed(h) ==
  /\ Running(h, "draw")
  /\ LET o == Current(h)
         gone == o.leg = "edit" /\ chat[o.target].view = "gone"
     IN IF gone /\ ~o.refresh
          THEN /\ handlers' = [handlers EXCEPT ![h].ops[1] = [@ EXCEPT !.leg = "fallback", !.tries = 0]]
               /\ UNCHANGED <<bot, memory>>
        ELSE IF o.leg = "fallback" THEN Throw(h)
        ELSE Finish(h, Memory) /\ UNCHANGED <<bot, refreshed>>
  /\ UNCHANGED <<history, bounds, configured, chat>>

\* bot?.sendMessage and bot?.answerCallbackQuery: tried once, nothing without a bot.  A text has
\* no buttons, the question of a reboot has.
CallDone(h) ==
  /\ Running(h, "post") \/ Running(h, "answer")
  /\ IF enabled /\ Running(h, "post") /\ Buttons(Current(h).screen) # {}
       THEN Room /\ chat' = Append(chat, Current(h).screen)
       ELSE chat' = chat
  /\ Finish(h, Memory)
  /\ UNCHANGED <<bot, refreshed, history, bounds, configured>>

CallFailed(h) ==
  /\ enabled /\ (Running(h, "post") \/ Running(h, "answer"))
  /\ Throw(h)
  /\ UNCHANGED <<history, bounds, configured, chat>>

\* rebootMiner: the command of a miner that is configured may have been carried out although
\* its answer was lost.
\* Defect: a reboot that seems to have failed is repeated.
AfterRebootAgain(o, success) ==
  IF success THEN <<Draw(Screen("rebooted", o.miner, FALSE), o.target, TRUE)>> ELSE <<o>>
AfterReboot(o, success) ==
  <<Draw(Screen(IF success THEN "rebooted" ELSE "failed", o.miner, FALSE), o.target, TRUE)>>

RebootDone(h) ==
  /\ Running(h, "reboot")
  /\ \E sent, success \in BOOLEAN :
       /\ sent => Current(h).miner \in configured
       /\ success => sent
       /\ reboots' = IF sent THEN [reboots EXCEPT ![Current(h).miner] = @ + 1] ELSE reboots
       /\ Run(h, [handlers[h] EXCEPT !.ops = AfterReboot(Head(@), success) \o Tail(@)], Memory)
  /\ UNCHANGED <<bot, refreshed, taps, bounds, configured, chat>>

\* getMinerPools of the machine answers, or not.
PoolsRead(h) ==
  /\ Running(h, "pools")
  /\ \E view \in {"pools", "poolsError"} :
       LET o == Current(h)
       IN Run(h, [handlers[h] EXCEPT
                    !.ops = <<Draw(Screen(view, o.miner, FALSE), o.target, o.refresh)>> \o Tail(@)],
              Memory)
  /\ UNCHANGED <<bot, refreshed, history, bounds, configured, chat>>

----------------------------------------------------------------------------
(* The user.                                                               *)

Update == up /\ pollers > 0 /\ updatesLeft > 0 /\ updatesLeft' = updatesLeft - 1

\* A command arrives; /start forgets the context first.
Command(h) ==
  /\ Update /\ NextSlot(h)
  /\ \E c \in {a \in Commands : a.do \in Asked} :
       LET mem == IF c.do = "start" THEN [contexts |-> contexts, current |-> Nothing] ELSE Memory
       IN Run(h, Handler(Commanded(c), FALSE, FALSE, FALSE), mem)
  /\ UNCHANGED <<bot, refreshed, history, faultsLeft, configured, chat>>

\* A button is pressed: the context takes its message as the last one.  The kinds that refresh
\* are debounced, if the last one on that message is less than a second ago.
IsRefreshAction(p) == p.do \in {"status", "alerts", "miners", "details"}

Pressed(h, id, p) ==
  LET k == Known(Memory)
      mem == [k EXCEPT !.contexts[k.current].last = id]
  IN /\ Run(h, Handler(Dispatched(p, id, mem), TRUE, TRUE, FALSE), StackBefore(p, mem))
     /\ refreshed' = IF IsRefreshAction(p) THEN refreshed \cup {id} ELSE refreshed
     /\ taps' = IF p.do = "confirm" THEN [taps EXCEPT ![p.miner] = @ + 1] ELSE taps

\* Answered at once, before the try.
Debounced(h, id, p) ==
  /\ IsRefreshAction(p) /\ id \in refreshed
  /\ Run(h, Handler(Work(<<>>, Nothing), TRUE, FALSE, FALSE), Memory)
  /\ UNCHANGED <<refreshed, taps>>

CallbackQuery(h) ==
  /\ Update /\ NextSlot(h)
  /\ \E id \in 1..Len(chat) : \E p \in {b \in Buttons(chat[id]) : b.do \in Asked} :
       Pressed(h, id, p) \/ Debounced(h, id, p)
  /\ UNCHANGED <<bot, reboots, faultsLeft, configured, chat>>

\* With two bots on one token both may be given the update before it is confirmed.
DeliveredTwice(h, g) ==
  /\ Update /\ h < g /\ Free(h) /\ Free(g) /\ pollers > 1
  /\ \E id \in 1..Len(chat), m \in Miners :
       /\ Press("confirm", m) \in Buttons(chat[id])
       /\ LET k == Known(Memory)
              mem == [k EXCEPT !.contexts[k.current].last = id]
              b == Begin(mem, Handler(executeReboot(m, id), TRUE, TRUE, FALSE).ops)
              hd == [Handler(executeReboot(m, id), TRUE, TRUE, FALSE) EXCEPT !.ops = b.ops]
          IN /\ handlers' = [handlers EXCEPT ![h] = hd, ![g] = hd]
             /\ Remember(b.mem)
       /\ taps' = [taps EXCEPT ![m] = @ + 1]
  /\ UNCHANGED <<bot, refreshed, reboots, faultsLeft, configured, chat>>

UserDeletes(id) ==
  /\ Fault /\ chat[id].view # "gone"
  /\ chat' = [chat EXCEPT ![id] = Plain("gone")]
  /\ UNCHANGED <<bot, memory, history, handlers, configured, updatesLeft>>

----------------------------------------------------------------------------
(* The life of the bot.                                                    *)

\* initTelegramBot: one more bot that polls, and the menu for every authorised chat.
Initialised(h, mem) ==
  /\ enabled' = TRUE
  /\ LET startup == Handler(sendMainMenu(FALSE, Nothing), FALSE, FALSE, TRUE)
         k == Known(mem)
         o == [Head(startup.ops) EXCEPT !.target = Context(k).last, !.context = k.current,
                                        !.leg = IF Context(k).last = Nothing THEN "send" ELSE "edit"]
     IN /\ handlers' = [g \in Slots |-> IF g = h THEN [startup EXCEPT !.ops = <<o>>] ELSE
                                        IF up THEN handlers[g] ELSE Nothing]
        /\ Remember(k)

\* POST /api/telegram/init as it is reached, through mining.routes: nothing is stopped and
\* nothing is stored.
SettingsSaved(h) ==
  /\ Fault /\ up /\ NextSlot(h) /\ pollers < 2
  /\ Initialised(h, Memory)
  /\ pollers' = pollers + 1
  /\ doubled' = (doubled \/ pollers > 0)
  /\ UNCHANGED <<up, stored, refreshed, history, configured, chat, updatesLeft>>

\* DELETE /api/telegram: stopBot, and the credentials are deleted.
Stopped ==
  /\ Fault /\ up
  /\ pollers' = IF enabled THEN pollers - 1 ELSE pollers
  /\ enabled' = FALSE /\ stored' = FALSE
  /\ UNCHANGED <<up, doubled, memory, history, handlers, configured, chat, updatesLeft>>

\* The service manager stops the backend, or finds it down.
Stop == Fault /\ up /\ GoDown /\ UNCHANGED <<history, configured, chat, updatesLeft>>

\* The start of server.ts: the bot is initialised with what the database holds.
Start ==
  /\ ~up /\ up' = TRUE
  /\ refreshed' = {}
  /\ IF stored
       THEN pollers' = 1 /\ Initialised(1, [contexts |-> <<>>, current |-> Nothing])
       ELSE pollers' = 0 /\ UNCHANGED <<enabled, contexts, current, handlers>>
  /\ UNCHANGED <<stored, doubled, history, bounds, configured, chat>>

\* runCleanup: the context of a chat that was silent for six hours.
Cleanup ==
  /\ Fault /\ up /\ current # Nothing
  /\ current' = Nothing
  /\ UNCHANGED <<bot, contexts, refreshed, history, handlers, configured, chat, updatesLeft>>

\* The inventory loses a miner.
MinerRemoved(m) ==
  /\ Fault /\ m \in configured
  /\ configured' = configured \ {m}
  /\ UNCHANGED <<bot, memory, history, handlers, chat, updatesLeft>>

----------------------------------------------------------------------------
Init ==
  /\ up = FALSE /\ enabled = FALSE /\ pollers = 0 /\ stored \in BOOLEAN /\ doubled = FALSE
  /\ contexts = <<>> /\ current = Nothing /\ refreshed = {}
  /\ configured = Miners /\ chat \in Left
  /\ handlers = [h \in Slots |-> Nothing]
  /\ taps = [m \in Miners |-> 0] /\ reboots = [m \in Miners |-> 0]
  /\ updatesLeft = MaxUpdates /\ faultsLeft = MaxFaults

Progress(h) ==
  \/ EditDone(h) \/ EditUnchanged(h) \/ SendDone(h) \/ Retried(h) \/ DrawFailed(h)
  \/ CallDone(h) \/ CallFailed(h) \/ RebootDone(h) \/ PoolsRead(h)

Next ==
  \/ \E h \in Slots : Progress(h) \/ Command(h) \/ CallbackQuery(h) \/ SettingsSaved(h)
  \/ \E h, g \in Slots : DeliveredTwice(h, g)
  \/ \E id \in 1..Len(chat) : UserDeletes(id)
  \/ \E m \in Miners : MinerRemoved(m)
  \/ Stopped \/ Stop \/ Start \/ Cleanup

\* Every call of Telegram ends, with whatever answer, and so does every call of a machine: some
\* handler goes on while one is in flight.
Fairness == WF_vars(\E h \in Slots : Progress(h))
Spec == Init /\ [][Next]_vars /\ Fairness

----------------------------------------------------------------------------
(* The types: what is in flight has an operation to do, and an edit in flight has a message and
   a context (sendOrEditMessage). *)
BotTypeOK ==
  /\ enabled => up /\ pollers > 0
  /\ current = Nothing \/ current \in 1..Len(contexts)
  /\ \A h \in Slots : Free(h) \/
       /\ up /\ handlers[h].ops # <<>>
       /\ Running(h, "draw") =>
            /\ Current(h).context \in 1..Len(contexts)
            /\ Current(h).leg = "edit" => Current(h).target \in 1..Len(chat)

(* However often Telegram fails and whatever is tried again, a miner is not rebooted more often
   than its reboot was confirmed, unless two bots have polled at once: the handlers, the edits
   and the retries around executeReboot repeat the message, never the command. *)
RebootsWereConfirmed == ~doubled => \A m \in Miners : reboots[m] <= taps[m]

Unprotected(hd) == hd.failed \/ (~hd.outer /\ ~hd.quiet /\ hd.recovery = Nothing)

(* One failed call of Telegram does not take the backend down: a handler that has a catch
   rejects, which ends the process (server.ts, unhandledRejection), only when the call made in
   the catch failed as well.  The handlers without any catch are the debounced press, /whoami and
   the refusal of /transfer, which posts like /whoami; the login buttons, which have none either,
   are on messages of Session and not in this chat. *)
SurvivesOneFailure ==
  [][up /\ ~up' => faultsLeft' < faultsLeft
                   \/ \E h \in Slots : ~Free(h) /\ Unprotected(handlers[h])]_vars

(* A query is answered or the process ends: once the user asks for nothing more no handler is
   left waiting, although temporary errors of Telegram are retried, new messages take the place
   of lost ones, and the catch of one call makes another. *)
HandlersEnd == []<>(\A h \in Slots : Free(h))
=============================================================================
