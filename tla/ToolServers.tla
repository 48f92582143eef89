---------------------------- MODULE ToolServers -----------------------------
(***************************************************************************)
(* The LSP tool extension: threads of a worker call tools through the MCP  *)
(* bridge (mcp_bridge.py); the multiplexer (lsp_server.py) serves them on  *)
(* one event loop, with one session per language, whose replies a reader   *)
(* thread hands back to the loop. Language servers are other processes.    *)
(***************************************************************************)
EXTENDS Naturals, FiniteSets

CONSTANTS
    Calls,        \* tool calls, each made by one thread
    Langs,        \* languages
    LangOf,       \* [Calls -> Langs \cup {Workspace}]
    Workspace,    \* the language of a workspace_symbols call: any
    Sessions,     \* sessions, numbered as they are started (a bound)
    MaxChatter,   \* bound: messages that a language server sends of its own
    Free,         \* no coroutine holds the event loop
    None

ASSUME ConstantsAssumption ==
    /\ Langs \cap {None, Workspace} = {} /\ \A c \in Calls : LangOf[c] \in Langs \cup {Workspace}
    /\ Free \notin Calls /\ None \notin Sessions
    /\ Sessions \subseteq Nat /\ IsFiniteSet(Sessions) /\ MaxChatter \in Nat

VARIABLES
    client,   \* MCPClient: _started, _closed, _ready_event
    mux,      \* the multiplexer process
    tracked,  \* LSPMultiplexer._sessions
    sess,     \* each LSPSession and its process
    wire,     \* what each language server wrote and nobody read
    asked,    \* calls each language server has to answer
    pending,  \* LSPSession._pending
    posted,   \* callbacks that reader threads posted to the loop
    call,     \* each tool call
    busy,     \* the call whose coroutine holds the event loop
    chatter

vars == <<client, mux, tracked, sess, wire, asked, pending, posted, call, busy, chatter>>
bridge == <<client, mux>>
lines == <<wire, asked, pending, posted>>

\* hand: the initialize handshake, done by the loop's own thread in start().
Session == [lang : Langs \cup {None}, proc : {"none", "up", "gone"}, dead : BOOLEAN,
            initialized : BOOLEAN, hand : {"no", "wait", "over"}, reader : {"none", "reads", "clears", "ended"}]
NoSession == [lang |-> None, proc |-> "none", dead |-> FALSE, initialized |-> FALSE,
              hand |-> "no", reader |-> "none"]
Message == [kind : {"init", "initError", "note", "reply", "error", "request"}, to : Calls \cup {None}]
Result == {"none", "answer", "empty", "error"}
Call == [pc : {"idle", "sent", "tries", "starting", "asks", "registers", "awaits", "done"},
         on : Sessions \cup {None}, tried : SUBSET Langs, result : Result]
NoCall == [pc |-> "idle", on |-> None, tried |-> {}, result |-> "none"]

\* is_alive, which also notices a process that has exited.
Alive(s) == sess[s].proc = "up" /\ ~sess[s].dead
Unused == {s \in Sessions : sess[s].proc = "none"}
Goto(c, pc) == call' = [call EXCEPT ![c].pc = pc]

-----------------------------------------------------------------------------
(* MCPClient: a thread with its own loop, and the callers' threads *)

Start ==
    /\ client = "new"
    /\ client' = "starting" /\ mux' = "up"
    /\ UNCHANGED <<tracked, sess, lines, call, busy, chatter>>

\* The ready event, its timeout (the multiplexer keeps running) or its error.
Ready ==
    /\ client = "starting"
    /\ \/ client' \in {"ready", "timedOut"} /\ UNCHANGED mux
       \/ client' = "failed" /\ mux' = "down"
    /\ UNCHANGED <<tracked, sess, lines, call, busy, chatter>>

\* call_tool marshals the call onto the bridge's loop and blocks its thread.
CallTool(c) ==
    /\ client = "ready" /\ call[c].pc = "idle"
    /\ Goto(c, "sent")
    /\ UNCHANGED <<bridge, tracked, sess, lines, busy, chatter>>

\* ToolRegistry.close when the run is over: no thread has a call open.
Close ==
    /\ client = "ready" /\ \A c \in Calls : call[c].pc \in {"idle", "done"}
    /\ client' = "closed"
    /\ UNCHANGED <<mux, tracked, sess, lines, call, busy, chatter>>

\* Mutant: the sessions are forgotten, not terminated.
ShutdownForgets ==
    /\ client = "closed" /\ mux = "up" /\ busy = Free
    /\ mux' = "down"
    /\ tracked' = [l \in Langs |-> None]
    /\ UNCHANGED <<client, sess, lines, call, busy, chatter>>

\* The multiplexer's stdin ends; main's finally clause shuts down every session
\* it has, and skips those marked dead.
ShutdownAll ==
    /\ client = "closed" /\ mux = "up" /\ busy = Free
    /\ mux' = "down"
    /\ sess' = [s \in Sessions |->
                  IF \E l \in Langs : tracked[l] = s /\ ~sess[s].dead
                  THEN [sess[s] EXCEPT !.dead = TRUE, !.proc = "gone"] ELSE sess[s]]
    /\ tracked' = [l \in Langs |-> None]
    /\ UNCHANGED <<client, lines, call, busy, chatter>>

-----------------------------------------------------------------------------
(* The event loop: dispatch and workspace_symbols *)

\* Mutant: start() awaits the handshake, and other coroutines run meanwhile.
MayRunMeanwhile(c) == TRUE

\* A coroutine runs until it awaits; the handshake blocks the loop.
MayRun(c) == busy \in {Free, c}

\* The languages a call may try: its own, or every one that did not fail yet.
Choices(c) == IF LangOf[c] = Workspace THEN Langs \ call[c].tried
              ELSE {LangOf[c]} \ call[c].tried

Take(c) ==
    /\ MayRun(c) /\ call[c].pc = "sent" /\ mux = "up"
    /\ busy' = c
    /\ Goto(c, "tries")
    /\ UNCHANGED <<bridge, tracked, sess, lines, chatter>>

Answer(c, result) == /\ call' = [call EXCEPT ![c].pc = "done", ![c].result = result]
                     /\ busy' = Free
\* A RuntimeError: workspace_symbols goes on with the next language.
Failed(c, l) == IF LangOf[c] = Workspace
                THEN /\ call' = [call EXCEPT ![c].pc = "tries", ![c].tried = @ \cup {l}]
                     /\ busy' = c
                ELSE Answer(c, "error")

\* No backend is left.
GiveUp(c) ==
    /\ MayRun(c) /\ call[c].pc = "tries" /\ Choices(c) = {}
    /\ Answer(c, "error")
    /\ UNCHANGED <<bridge, tracked, sess, lines, chatter>>

\* _get_or_start_session: a session that is alive,
HandOut(c, l) ==
    /\ tracked[l] # None /\ Alive(tracked[l])
    /\ call' = [call EXCEPT ![c].pc = "asks", ![c].on = tracked[l]]
    /\ UNCHANGED <<sess, asked, busy>>

\* a missing binary,
NoBinary(c, l) ==
    /\ tracked[l] = None
    /\ Failed(c, l)
    /\ UNCHANGED <<sess, asked>>

\* or a new process with its reader thread; start() then waits for the handshake
\* and holds the loop.
Launch(c, l, n) ==
    /\ tracked[l] # None => ~Alive(tracked[l])
    /\ \A m \in Unused : n <= m
    /\ sess' = [t \in Sessions |->
                 CASE t = n -> [NoSession EXCEPT !.lang = l, !.proc = "up",
                                    !.hand = "wait", !.reader = "reads"]
                   [] t # n /\ t = tracked[l] -> [sess[t] EXCEPT !.dead = TRUE]
                   [] OTHER -> sess[t]]
    /\ asked' = [asked EXCEPT ![n] = {"initialize"}]
    /\ call' = [call EXCEPT ![c].pc = "starting", ![c].on = n]
    /\ UNCHANGED busy

GetSession(c) ==
    /\ MayRun(c) /\ call[c].pc = "tries"
    /\ \E l \in Choices(c) :
          \/ HandOut(c, l) \/ NoBinary(c, l)
          \/ \E n \in Unused : Launch(c, l, n)
    /\ UNCHANGED <<bridge, tracked, wire, pending, posted, chatter>>

\* start() is through: the session is initialized and kept.
Started(c, s) ==
    /\ sess' = [sess EXCEPT ![s].initialized = TRUE, ![s].hand = "over"]
    /\ tracked' = [tracked EXCEPT ![sess[s].lang] = s]
    /\ Goto(c, "asks")
    /\ UNCHANGED busy

\* start() raises: the session is dropped as it is.
StartFailed(c, s, runtime) ==
    /\ sess' = [sess EXCEPT ![s].hand = "over"]
    /\ IF runtime THEN Failed(c, sess[s].lang) ELSE Answer(c, "error")
    /\ UNCHANGED tracked

\* One recv of the handshake. The deadline is looked at between messages only.
Handshake(c) ==
    LET s == call[c].on IN
    /\ MayRun(c) /\ call[c].pc = "starting"
    /\ \/ \E m \in wire[s] :
             /\ wire' = [wire EXCEPT ![s] = @ \ {m}]
             /\ \/ m.kind = "init" /\ Started(c, s)
                \/ m.kind = "initError" /\ StartFailed(c, s, TRUE)
                \/ m.kind = "note" /\ Started(c, s)     \* the deadline has passed
                \/ m.kind = "note" /\ UNCHANGED <<sess, tracked, call, busy>>
       \/ /\ sess[s].proc = "gone" /\ wire[s] = {}     \* end of file, then a broken pipe
          /\ StartFailed(c, s, FALSE)
          /\ UNCHANGED wire
    /\ UNCHANGED <<bridge, asked, pending, posted, chatter>>

\* The reader thread reads the same stream: a frame can be split between them,
\* and then the reader takes the session for dead.
Torn(c) ==
    LET s == call[c].on IN
    /\ MayRun(c) /\ call[c].pc = "starting" /\ sess[s].reader = "reads"
    /\ \E m \in wire[s] : wire' = [wire EXCEPT ![s] = @ \ {m}]
    /\ \/ /\ sess' = [sess EXCEPT ![s].reader = "clears", ![s].dead = TRUE,
                                  ![s].initialized = TRUE, ![s].hand = "over"]
          /\ tracked' = [tracked EXCEPT ![sess[s].lang] = s]
          /\ Goto(c, "asks")
          /\ UNCHANGED busy
       \/ /\ sess' = [sess EXCEPT ![s].reader = "clears", ![s].dead = TRUE, ![s].hand = "over"]
          /\ Answer(c, "error")
          /\ UNCHANGED tracked
       \/ /\ sess' = [sess EXCEPT ![s].reader = "clears", ![s].dead = TRUE]
          /\ UNCHANGED <<tracked, call, busy>>
    /\ UNCHANGED <<bridge, asked, pending, posted, chatter>>

\* dispatch marks the session dead on a RuntimeError; workspace_symbols does not.
GivesUpOn(s) == [sess EXCEPT ![s].dead = TRUE]
RequestFailed(c) ==
    LET s == call[c].on IN
    /\ IF LangOf[c] = Workspace THEN UNCHANGED sess ELSE sess' = GivesUpOn(s)
    /\ Failed(c, sess[s].lang)

\* _request: a session that is not live is refused.
Check(c) ==
    LET s == call[c].on IN
    /\ MayRun(c) /\ call[c].pc = "asks"
    /\ \/ sess[s].dead /\ RequestFailed(c)
       \/ ~sess[s].dead /\ Goto(c, "registers") /\ UNCHANGED <<sess, busy>>
    /\ UNCHANGED <<bridge, tracked, lines, chatter>>

\* The future is registered and the request sent; the await releases the loop.
\* A broken pipe is an OSError, which ends the call.
Register(c) ==
    LET s == call[c].on IN
    /\ MayRun(c) /\ call[c].pc = "registers"
    /\ pending' = [pending EXCEPT ![s] = @ \cup {c}]
    /\ IF sess[s].proc = "up"
       THEN /\ asked' = [asked EXCEPT ![s] = @ \cup {c}]
            /\ Goto(c, "awaits")
            /\ busy' = Free
       ELSE Answer(c, "error") /\ UNCHANGED asked
    /\ UNCHANGED <<bridge, tracked, sess, wire, posted, chatter>>

Awaits(c, s) == call[c].pc = "awaits" /\ call[c].on = s

\* The awaited future gets the result or the exception that was posted.
Resolve(c) ==
    /\ MayRun(c)
    /\ \E p \in posted :
          /\ p.to = c /\ Awaits(c, p.from)
          /\ posted' = posted \ {p}
          /\ IF p.result = "error" THEN RequestFailed(c) ELSE Answer(c, p.result) /\ UNCHANGED sess
    /\ UNCHANGED <<bridge, tracked, wire, asked, pending, chatter>>

\* Mutant: no limit on the wait.
NoTimeout(c) == FALSE /\ UNCHANGED vars

\* wait_for's 15 seconds.
Timeout(c) ==
    LET s == call[c].on IN
    /\ MayRun(c) /\ call[c].pc = "awaits"
    /\ pending' = [pending EXCEPT ![s] = @ \ {c}]
    /\ RequestFailed(c)
    /\ UNCHANGED <<bridge, tracked, wire, asked, posted, chatter>>

\* A callback that comes after its future was given up does nothing.
DropCallback ==
    /\ busy = Free
    /\ \E p \in posted : ~Awaits(p.to, p.from) /\ posted' = posted \ {p}
    /\ UNCHANGED <<bridge, tracked, sess, wire, asked, pending, call, busy, chatter>>

-----------------------------------------------------------------------------
(* The reader threads *)

\* A message with the id of a pending request resolves it, a request that the
\* server makes under the same number as well. Others are dropped.
ReadMessage(s) ==
    /\ sess[s].reader = "reads"
    /\ \E m \in wire[s] :
          LET outcome == CASE m.kind = "reply" -> "answer" [] m.kind = "error" -> "error"
                           [] OTHER -> "empty"
          IN /\ wire' = [wire EXCEPT ![s] = @ \ {m}]
             /\ IF m.to \in pending[s]
                THEN /\ pending' = [pending EXCEPT ![s] = @ \ {m.to}]
                     /\ posted' = posted \cup {[to |-> m.to, from |-> s, result |-> outcome]}
                ELSE UNCHANGED <<pending, posted>>
    /\ UNCHANGED <<bridge, tracked, sess, asked, call, busy, chatter>>

\* End of file: the session is dead, every future it knows of fails; what is
\* registered until the table is cleared is cleared unseen.
ReadEnd(s) ==
    /\ sess[s].reader = "reads" /\ sess[s].proc = "gone" /\ wire[s] = {}
    /\ sess' = [sess EXCEPT ![s].dead = TRUE, ![s].reader = "clears"]
    /\ posted' = posted \cup {[to |-> c, from |-> s, result |-> "error"] : c \in pending[s]}
    /\ UNCHANGED <<bridge, tracked, wire, asked, pending, call, busy, chatter>>

ClearPending(s) ==
    /\ sess[s].reader = "clears"
    /\ sess' = [sess EXCEPT ![s].reader = "ended"]
    /\ pending' = [pending EXCEPT ![s] = {}]
    /\ UNCHANGED <<bridge, tracked, wire, asked, posted, call, busy, chatter>>

-----------------------------------------------------------------------------
(* Language servers, which are other programs *)

Write(s, kind, to) == wire' = [wire EXCEPT ![s] = @ \cup {[kind |-> kind, to |-> to]}]

ServerAnswers(s) ==
    /\ sess[s].proc = "up"
    /\ \E a \in asked[s] :
          /\ asked' = [asked EXCEPT ![s] = @ \ {a}]
          /\ IF a = "initialize" THEN \E k \in {"init", "initError"} : Write(s, k, None)
             ELSE \E k \in {"reply", "error"} : Write(s, k, a)
    /\ UNCHANGED <<bridge, tracked, sess, pending, posted, call, busy, chatter>>

\* A notification, or a request of its own whose number may be one of ours.
ServerSpeaks(s) ==
    /\ sess[s].proc = "up" /\ chatter < MaxChatter
    /\ chatter' = chatter + 1
    /\ Write(s, "note", None) \/ \E c \in pending[s] : Write(s, "request", c)
    /\ UNCHANGED <<bridge, tracked, sess, asked, pending, posted, call, busy>>

ServerDies(s) ==
    /\ sess[s].proc = "up"
    /\ sess' = [sess EXCEPT ![s].proc = "gone"]
    /\ asked' = [asked EXCEPT ![s] = {}]
    /\ UNCHANGED <<bridge, tracked, wire, pending, posted, call, busy, chatter>>

-----------------------------------------------------------------------------

Init ==
    /\ client = "new" /\ mux = "down"
    /\ tracked = [l \in Langs |-> None]
    /\ sess = [s \in Sessions |-> NoSession]
    /\ wire = [s \in Sessions |-> {}] /\ asked = [s \in Sessions |-> {}]
    /\ pending = [s \in Sessions |-> {}] /\ posted = {}
    /\ call = [c \in Calls |-> NoCall]
    /\ busy = Free
    /\ chatter = 0

Loop(c) == \/ Take(c) \/ GetSession(c) \/ GiveUp(c) \/ Handshake(c)
           \/ Check(c) \/ Register(c) \/ Resolve(c) \/ Timeout(c)
Reader(s) == ReadMessage(s) \/ ReadEnd(s) \/ ClearPending(s)
Server(s) == ServerAnswers(s) \/ ServerSpeaks(s) \/ ServerDies(s)

Next == \/ Start \/ Ready \/ Close \/ ShutdownAll \/ DropCallback
        \/ \E c \in Calls : CallTool(c) \/ Loop(c) \/ Torn(c)
        \/ \E s \in Sessions : Reader(s) \/ Server(s)

\* The loop runs what is ready, timers included, and reader threads are scheduled.
\* Language servers owe nothing.
Spec == /\ Init /\ [][Next]_vars
        /\ \A c \in Calls : WF_vars(Loop(c))
        /\ \A s \in Sessions : WF_vars(Reader(s))

-----------------------------------------------------------------------------
(* Properties *)

OnSession == {"starting", "asks", "registers", "awaits"}

\* Every variable keeps the shape the code gives it; a call at a session has one,
\* a tracked session speaks the language it is tracked for, and a process always one.
TypeOK ==
    /\ \A c \in Calls : call[c].pc \in OnSession =>
          call[c].on \in Sessions /\ sess[call[c].on].lang \in Langs
    /\ \A l \in Langs : tracked[l] # None => sess[tracked[l]].lang = l
    /\ \A s \in Sessions : sess[s].proc = "none" <=> sess[s].lang = None
    /\ client \in {"new", "starting", "ready", "timedOut", "failed", "closed"}
    /\ mux \in {"up", "down"}
    /\ tracked \in [Langs -> Sessions \cup {None}]
    /\ sess \in [Sessions -> Session]
    /\ wire \in [Sessions -> SUBSET Message]
    /\ asked \in [Sessions -> SUBSET (Calls \cup {"initialize"})]
    /\ pending \in [Sessions -> SUBSET Calls]
    /\ posted \subseteq [to : Calls, from : Sessions, result : Result]
    /\ call \in [Calls -> Call]
    /\ busy \in Calls \cup {Free}
    /\ chatter \in 0..MaxChatter

Live(s) == sess[s].proc = "up" /\ sess[s].initialized /\ ~sess[s].dead

\* However many threads ask for one language at once, it has one live session,
\* the one that is tracked (_get_or_start_session holds the loop while it starts).
OneLiveSession ==
    \A s \in Sessions : Live(s) => tracked[sess[s].lang] = s

\* When the run closes its tools, a language server survives only if its session
\* was given up before: marked dead after an error, or never handed out.
SurvivorsWereGivenUp ==
    \A s \in Sessions :
        mux = "down" /\ sess[s].proc = "up" => sess[s].dead \/ ~sess[s].initialized

\* As long as no handshake holds the loop for ever, every tool call is answered,
\* also one that is registered while the reader thread ends.
CallEnds ==
    []<>(busy = Free) => \A c \in Calls : call[c].pc = "sent" ~> call[c].pc = "done"
=============================================================================
