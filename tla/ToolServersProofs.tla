-------------------------- MODULE ToolServersProofs --------------------------
(***************************************************************************)
(* Types and sessions of ToolServers, for any number of tool calls,        *)
(* languages, sessions and messages.                                       *)
(***************************************************************************)
EXTENDS ToolServers, TLAPS

-----------------------------------------------------------------------------
(* Types *)

\* Every call keeps its shape, and one at a session has a session with a language.
Placed == \A c \in Calls : call[c].pc \in OnSession =>
              call[c].on \in Sessions /\ sess[call[c].on].lang \in Langs
CallsOK == call \in [Calls -> Call] /\ busy \in Calls \cup {Free} /\ Placed
SessOK == /\ sess \in [Sessions -> Session] /\ tracked \in [Langs -> Sessions \cup {None}]
          /\ \A l \in Langs : tracked[l] # None => sess[tracked[l]].lang = l
          /\ \A s \in Sessions : sess[s].proc = "none" <=> sess[s].lang = None
ClientOK == /\ client \in {"new", "starting", "ready", "timedOut", "failed", "closed"}
            /\ mux \in {"up", "down"}
LinesOK == /\ wire \in [Sessions -> SUBSET Message]
           /\ asked \in [Sessions -> SUBSET (Calls \cup {"initialize"})]
           /\ pending \in [Sessions -> SUBSET Calls]
           /\ posted \subseteq [to : Calls, from : Sessions, result : Result]
           /\ chatter \in 0..MaxChatter

LEMMA TypeParts == TypeOK <=> CallsOK /\ SessOK /\ ClientOK /\ LinesOK
  BY DEF TypeOK, CallsOK, SessOK, ClientOK, LinesOK, Placed

LEMMA TypePartsNext == CallsOK' /\ SessOK' /\ ClientOK' /\ LinesOK' => TypeOK'
  BY DEF TypeOK, CallsOK, SessOK, ClientOK, LinesOK, Placed

LEMMA Blank == NoSession \in Session /\ NoCall \in Call
<1>1. NoSession \in Session
  BY DEF NoSession, Session
<1>2. NoCall \in Call
  BY DEF NoCall, Call, Result
<1> QED BY <1>1, <1>2

LEMMA InitTypes == Init => TypeOK
<1> SUFFICES ASSUME Init PROVE TypeOK
  OBVIOUS
<1>1. CallsOK
  BY Blank DEF Init, CallsOK, Placed, NoCall, OnSession
<1>2. SessOK
  BY Blank DEF Init, SessOK, NoSession
<1>3. ClientOK
  BY DEF Init, ClientOK
<1>4. LinesOK
  BY ConstantsAssumption DEF Init, LinesOK
<1> QED BY <1>1, <1>2, <1>3, <1>4, TypeParts

\* No session changes its language, or gets its first process.
SameLangs == \A s \in Sessions :
    sess'[s].lang = sess[s].lang /\ (sess'[s].proc = "none" <=> sess[s].proc = "none")

\* A call that gets the record r, which is at no other session than before.
LEMMA CallType ==
    ASSUME TypeOK, SameLangs, NEW c \in Calls, NEW r \in Call,
           call' = [call EXCEPT ![c] = r], busy' \in Calls \cup {Free},
           r.pc \in OnSession => r.on \in Sessions /\ sess[r.on].lang \in Langs
    PROVE  CallsOK'
<1>1. call' \in [Calls -> Call]
  BY DEF TypeOK
<1>2. Placed'
  <2> SUFFICES ASSUME NEW d \in Calls, call'[d].pc \in OnSession
               PROVE  call'[d].on \in Sessions /\ sess'[call'[d].on].lang \in Langs
    BY DEF Placed
  <2>1. CASE d = c
    BY <2>1 DEF TypeOK, SameLangs
  <2>2. CASE d # c
    BY <2>2 DEF TypeOK, SameLangs
  <2> QED BY <2>1, <2>2
<1> QED BY <1>1, <1>2 DEF CallsOK

LEMMA SameCalls ==
    ASSUME TypeOK, SameLangs, UNCHANGED <<call, busy>>
    PROVE  CallsOK'
  BY DEF TypeOK, SameLangs, CallsOK, Placed

LEMMA GotoType ==
    ASSUME TypeOK, SameLangs, NEW c \in Calls, NEW pc, Goto(c, pc),
           busy' \in Calls \cup {Free},
           \/ pc \in {"sent", "tries"}
           \/ pc \in OnSession /\ call[c].pc \in OnSession
    PROVE  CallsOK'
<1> DEFINE r == [call[c] EXCEPT !.pc = pc]
<1>1. r \in Call /\ r.pc = pc /\ r.on = call[c].on
  BY DEF TypeOK, Call, OnSession
<1>2. call' = [call EXCEPT ![c] = r]
  BY DEF TypeOK, Goto
<1>3. r.pc \in OnSession => r.on \in Sessions /\ sess[r.on].lang \in Langs
  BY <1>1 DEF TypeOK, OnSession
<1> HIDE DEF r
<1> QED BY <1>1, <1>2, <1>3, CallType

LEMMA AnswerType ==
    ASSUME TypeOK, SameLangs, NEW c \in Calls, NEW result \in Result, Answer(c, result)
    PROVE  CallsOK'
<1> DEFINE r == [call[c] EXCEPT !.pc = "done", !.result = result]
<1>1. call[c] \in Call
  BY DEF TypeOK
<1>2. r \in Call /\ r.pc = "done"
  BY <1>1 DEF Call
<1>3. call' = [call EXCEPT ![c] = r] /\ busy' = Free
  BY DEF TypeOK, Answer
<1> HIDE DEF r
<1> QED BY <1>2, <1>3, CallType DEF OnSession

LEMMA FailedType ==
    ASSUME TypeOK, SameLangs, NEW c \in Calls, NEW l \in Langs, Failed(c, l)
    PROVE  CallsOK'
<1>1. CASE LangOf[c] = Workspace
  <2> DEFINE r == [call[c] EXCEPT !.pc = "tries", !.tried = @ \cup {l}]
  <2>1. call[c] \in Call
    BY DEF TypeOK
  <2>2. call[c].tried \cup {l} \in SUBSET Langs
    BY <2>1 DEF Call
  <2>3. r \in Call /\ r.pc = "tries"
    BY <2>1, <2>2 DEF Call
  <2>4. call' = [call EXCEPT ![c] = r] /\ busy' = c
    BY <1>1 DEF TypeOK, Failed
  <2> HIDE DEF r
  <2> QED BY <2>3, <2>4, CallType DEF OnSession
<1>2. CASE LangOf[c] # Workspace
  BY <1>2, AnswerType DEF Failed, Result
<1> QED BY <1>1, <1>2

\* A session that gets the record r keeps its language.
LEMMA MarkType ==
    ASSUME TypeOK, NEW s \in Sessions, NEW r \in Session, r.lang = sess[s].lang,
           r.proc = "none" <=> sess[s].proc = "none",
           sess' = [sess EXCEPT ![s] = r]
    PROVE  sess' \in [Sessions -> Session] /\ SameLangs
  BY DEF TypeOK, SameLangs

-----------------------------------------------------------------------------
(* Every action keeps the types *)

\* A change of sess at one session that keeps its language.
LEMMA Marked ==
    ASSUME TypeOK, NEW s \in Sessions, NEW r \in Session, r.lang = sess[s].lang,
           r.proc = "none" <=> sess[s].proc = "none",
           sess' = [sess EXCEPT ![s] = r], UNCHANGED tracked
    PROVE  SessOK' /\ SameLangs
  BY MarkType DEF SessOK, TypeOK

LEMMA SameSess ==
    ASSUME TypeOK, UNCHANGED <<sess, tracked>>
    PROVE  SessOK' /\ SameLangs
  BY DEF TypeOK, SessOK, SameLangs

LEMMA ChoicesAreLangs ==
    ASSUME NEW c \in Calls
    PROVE  Choices(c) \subseteq Langs
  BY ConstantsAssumption DEF Choices

LEMMA LaunchType ==
    ASSUME TypeOK, NEW c \in Calls, NEW l \in Langs, NEW n \in Unused, Launch(c, l, n),
           UNCHANGED tracked
    PROVE  CallsOK' /\ SessOK'
<1> DEFINE r == [NoSession EXCEPT !.lang = l, !.proc = "up", !.hand = "wait", !.reader = "reads"]
           q(t) == [sess[t] EXCEPT !.dead = TRUE]
           a == [call[c] EXCEPT !.pc = "starting", !.on = n]
<1>1. r \in Session /\ r.lang = l /\ r.proc = "up"
  BY DEF NoSession, Session
<1>2. ASSUME NEW t \in Sessions
      PROVE  q(t) \in Session /\ q(t).lang = sess[t].lang /\ q(t).proc = sess[t].proc
  <2>1. sess[t] \in Session
    BY DEF TypeOK
  <2> QED BY <2>1 DEF Session
<1>3. n \in Sessions /\ sess[n].proc = "none"
  BY DEF Unused
<1>4. call[c] \in Call
  BY DEF TypeOK
<1>5. a \in Call /\ a.pc = "starting" /\ a.on = n
  BY <1>3, <1>4 DEF Call
<1>6. call' = [call EXCEPT ![c] = a] /\ UNCHANGED busy
  BY DEF Launch, TypeOK
<1>7. \A t \in Sessions : \/ t = n /\ sess'[t] = r
                          \/ t # n /\ (sess'[t] = q(t) \/ sess'[t] = sess[t])
  BY DEF Launch
<1>8. sess' \in [Sessions -> Session]
  <2>1. \A t \in Sessions : sess'[t] \in Session
    BY <1>1, <1>2, <1>7 DEF TypeOK
  <2> QED BY <2>1 DEF Launch
<1> HIDE DEF r, q, a
<1>9. CallsOK'
  <2>1. call' \in [Calls -> Call] /\ busy' \in Calls \cup {Free}
    BY <1>5, <1>6 DEF TypeOK
  <2>2. Placed'
    BY <1>1, <1>2, <1>3, <1>5, <1>6, <1>7 DEF TypeOK, Placed
  <2> QED BY <2>1, <2>2 DEF CallsOK
<1>10. SessOK'
  <2>1. \A l2 \in Langs : tracked[l2] # n
    BY <1>3, ConstantsAssumption DEF TypeOK
  <2>2. \A l2 \in Langs : tracked'[l2] # None => sess'[tracked'[l2]].lang = l2
    BY <1>2, <1>7, <2>1 DEF TypeOK
  <2>3. \A t \in Sessions : sess'[t].proc = "none" <=> sess'[t].lang = None
    BY <1>1, <1>2, <1>7, ConstantsAssumption DEF TypeOK
  <2> QED BY <1>8, <2>2, <2>3 DEF SessOK, TypeOK
<1> QED BY <1>9, <1>10

LEMMA GetSessionType == ASSUME TypeOK, NEW c \in Calls, GetSession(c) PROVE TypeOK'
<1>1. PICK l \in Choices(c) :
        HandOut(c, l) \/ NoBinary(c, l) \/ \E n \in Unused : Launch(c, l, n)
  BY DEF GetSession
<1>2. l \in Langs
  BY ChoicesAreLangs
<1>3. UNCHANGED <<bridge, tracked, wire, pending, posted, chatter>>
  BY DEF GetSession
<1>4. CASE HandOut(c, l)
  <2> DEFINE r == [call[c] EXCEPT !.pc = "asks", !.on = tracked[l]]
  <2>1. call[c] \in Call /\ tracked[l] \in Sessions
    BY <1>2, <1>4 DEF HandOut, TypeOK
  <2>2. r \in Call /\ r.pc = "asks" /\ r.on = tracked[l]
    BY <2>1 DEF Call
  <2>3. call' = [call EXCEPT ![c] = r] /\ UNCHANGED <<sess, asked, busy>>
    BY <1>4 DEF HandOut, TypeOK
  <2>4. SameLangs /\ SessOK'
    BY <2>3, <1>3, SameSess
  <2>5. sess[tracked[l]].lang \in Langs
    BY <1>2, <1>4, <2>1 DEF TypeOK, HandOut
  <2>6. busy' \in Calls \cup {Free}
    BY <2>3 DEF TypeOK
  <2> HIDE DEF r
  <2>7. CallsOK'
    BY <2>1, <2>2, <2>3, <2>4, <2>5, <2>6, CallType
  <2>8. ClientOK' /\ LinesOK'
    BY <2>3, <1>3 DEF TypeOK, ClientOK, LinesOK, bridge
  <2> QED BY <2>4, <2>7, <2>8, TypePartsNext
<1>5. CASE NoBinary(c, l)
  <2>1. SameLangs /\ SessOK' /\ CallsOK'
    BY <1>2, <1>3, <1>5, SameSess, FailedType DEF NoBinary
  <2>2. ClientOK' /\ LinesOK'
    BY <1>5, <1>3 DEF NoBinary, TypeOK, ClientOK, LinesOK, bridge
  <2> QED BY <2>1, <2>2, TypePartsNext
<1>6. ASSUME NEW n \in Unused, Launch(c, l, n) PROVE TypeOK'
  <2>1. CallsOK' /\ SessOK'
    BY <1>2, <1>3, <1>6, LaunchType
  <2>2. asked' \in [Sessions -> SUBSET (Calls \cup {"initialize"})]
    BY <1>6 DEF Launch, TypeOK
  <2>3. ClientOK' /\ LinesOK'
    BY <2>2, <1>3 DEF TypeOK, ClientOK, LinesOK, bridge
  <2> QED BY <2>1, <2>3, TypePartsNext
<1> QED BY <1>1, <1>4, <1>5, <1>6

\* A session that becomes the one tracked for its language.
LEMMA Tracked ==
    ASSUME TypeOK, NEW s \in Sessions, sess[s].lang \in Langs,
           NEW r \in Session, r.lang = sess[s].lang, r.proc = sess[s].proc,
           sess' = [sess EXCEPT ![s] = r], tracked' = [tracked EXCEPT ![sess[s].lang] = s]
    PROVE  SessOK' /\ SameLangs
<1>1. sess' \in [Sessions -> Session] /\ SameLangs
  BY MarkType
<1>2. tracked' \in [Langs -> Sessions \cup {None}]
  BY DEF TypeOK
<1>3. \A l \in Langs : tracked'[l] # None => sess'[tracked'[l]].lang = l
  BY <1>1 DEF TypeOK, SameLangs
<1>4. \A t \in Sessions : sess'[t].proc = "none" <=> sess'[t].lang = None
  BY <1>1 DEF TypeOK, SameLangs
<1> QED BY <1>1, <1>2, <1>3, <1>4 DEF SessOK

\* A call that is starting a session, and what it does to it.
LEMMA AtSession ==
    ASSUME TypeOK, NEW c \in Calls, call[c].pc \in OnSession
    PROVE  /\ call[c].on \in Sessions /\ sess[call[c].on] \in Session
           /\ sess[call[c].on].lang \in Langs
  BY DEF TypeOK

LEMMA StartedType ==
    ASSUME TypeOK, NEW c \in Calls, call[c].pc = "starting", Started(c, call[c].on)
    PROVE  SessOK' /\ CallsOK'
<1> DEFINE s == call[c].on
           r == [sess[s] EXCEPT !.initialized = TRUE, !.hand = "over"]
<1>1. s \in Sessions /\ sess[s] \in Session /\ sess[s].lang \in Langs
  BY AtSession DEF OnSession
<1>2. r \in Session /\ r.lang = sess[s].lang /\ r.proc = sess[s].proc
  BY <1>1 DEF Session
<1>3. /\ sess' = [sess EXCEPT ![s] = r]
      /\ tracked' = [tracked EXCEPT ![sess[s].lang] = s]
      /\ Goto(c, "asks") /\ UNCHANGED busy
  BY DEF Started, TypeOK
<1> HIDE DEF s, r
<1>4. SessOK' /\ SameLangs
  BY <1>1, <1>2, <1>3, Tracked
<1>5. busy' \in Calls \cup {Free}
  BY <1>3 DEF TypeOK
<1> QED BY <1>3, <1>4, <1>5, GotoType DEF OnSession

LEMMA StartFailedType ==
    ASSUME TypeOK, NEW c \in Calls, call[c].pc = "starting", NEW runtime \in BOOLEAN,
           StartFailed(c, call[c].on, runtime)
    PROVE  SessOK' /\ CallsOK'
<1> DEFINE s == call[c].on
           r == [sess[s] EXCEPT !.hand = "over"]
<1>1. s \in Sessions /\ sess[s] \in Session /\ sess[s].lang \in Langs
  BY AtSession DEF OnSession
<1>2. r \in Session /\ r.lang = sess[s].lang /\ r.proc = sess[s].proc
  BY <1>1 DEF Session
<1>3. /\ sess' = [sess EXCEPT ![s] = r] /\ UNCHANGED tracked
      /\ Failed(c, sess[s].lang) \/ Answer(c, "error")
  BY DEF StartFailed, TypeOK
<1> HIDE DEF s, r
<1>4. SessOK' /\ SameLangs
  BY <1>1, <1>2, <1>3, Marked
<1> QED BY <1>1, <1>3, <1>4, FailedType, AnswerType DEF Result

LEMMA HandshakeType == ASSUME TypeOK, NEW c \in Calls, Handshake(c) PROVE TypeOK'
<1> DEFINE s == call[c].on
<1>1. /\ call[c].pc = "starting" /\ s \in Sessions
      /\ UNCHANGED <<bridge, asked, pending, posted, chatter>>
  BY AtSession DEF Handshake, OnSession
<1>2. wire' \in [Sessions -> SUBSET Message]
  <2>1. (\E m \in wire[s] : wire' = [wire EXCEPT ![s] = @ \ {m}]) \/ UNCHANGED wire
    BY DEF Handshake
  <2> QED BY <1>1, <2>1 DEF TypeOK
<1>3. ClientOK' /\ LinesOK'
  BY <1>1, <1>2 DEF TypeOK, ClientOK, LinesOK, bridge
<1>4. \/ Started(c, s) \/ StartFailed(c, s, TRUE) \/ StartFailed(c, s, FALSE)
      \/ UNCHANGED <<sess, tracked, call, busy>>
  BY DEF Handshake
<1>5. SessOK' /\ CallsOK'
  <2>1. CASE Started(c, s)
    BY <1>1, <2>1, StartedType
  <2>2. CASE StartFailed(c, s, TRUE)
    BY <1>1, <2>2, StartFailedType
  <2>3. CASE StartFailed(c, s, FALSE)
    BY <1>1, <2>3, StartFailedType
  <2>4. CASE UNCHANGED <<sess, tracked, call, busy>>
    BY <2>4, SameSess, SameCalls
  <2> QED BY <1>4, <2>1, <2>2, <2>3, <2>4
<1> QED BY <1>3, <1>5, TypePartsNext

LEMMA TornType == ASSUME TypeOK, NEW c \in Calls, Torn(c) PROVE TypeOK'
<1> DEFINE s == call[c].on
           r1 == [sess[s] EXCEPT !.reader = "clears", !.dead = TRUE,
                                 !.initialized = TRUE, !.hand = "over"]
           r2 == [sess[s] EXCEPT !.reader = "clears", !.dead = TRUE, !.hand = "over"]
           r3 == [sess[s] EXCEPT !.reader = "clears", !.dead = TRUE]
<1>1. /\ call[c].pc = "starting" /\ s \in Sessions /\ sess[s] \in Session /\ sess[s].lang \in Langs
      /\ UNCHANGED <<bridge, asked, pending, posted, chatter>>
  BY AtSession DEF Torn, OnSession
<1>2. wire' \in [Sessions -> SUBSET Message]
  <2>1. \E m \in wire[s] : wire' = [wire EXCEPT ![s] = @ \ {m}]
    BY DEF Torn
  <2> QED BY <1>1, <2>1 DEF TypeOK
<1>3. ClientOK' /\ LinesOK'
  BY <1>1, <1>2 DEF TypeOK, ClientOK, LinesOK, bridge
<1>4. /\ r1 \in Session /\ r1.lang = sess[s].lang /\ r1.proc = sess[s].proc
      /\ r2 \in Session /\ r2.lang = sess[s].lang /\ r2.proc = sess[s].proc
      /\ r3 \in Session /\ r3.lang = sess[s].lang /\ r3.proc = sess[s].proc
  BY <1>1 DEF Session
<1>5. sess \in [Sessions -> Session]
  BY DEF TypeOK
<1>6. \/ /\ sess' = [sess EXCEPT ![s] = r1]
         /\ tracked' = [tracked EXCEPT ![sess[s].lang] = s]
         /\ Goto(c, "asks") /\ UNCHANGED busy
      \/ /\ sess' = [sess EXCEPT ![s] = r2]
         /\ UNCHANGED tracked /\ Answer(c, "error")
      \/ /\ sess' = [sess EXCEPT ![s] = r3]
         /\ UNCHANGED <<tracked, call, busy>>
  BY <1>1, <1>5 DEF Torn
<1> HIDE DEF s, r1, r2, r3
<1>7. SessOK' /\ SameLangs
  BY <1>1, <1>4, <1>6, Marked, Tracked
<1>8. busy' \in Calls \cup {Free}
  BY <1>6 DEF TypeOK, Answer
<1>9. CallsOK'
  BY <1>1, <1>6, <1>7, <1>8, GotoType, AnswerType, SameCalls DEF OnSession, Result
<1> QED BY <1>3, <1>7, <1>9, TypePartsNext

LEMMA ClientType ==
    ASSUME TypeOK, Start \/ Ready \/ Close
    PROVE  TypeOK'
<1>1. UNCHANGED <<tracked, sess, lines, call, busy, chatter>>
  BY DEF Start, Ready, Close
<1>2. ClientOK'
  BY DEF Start, Ready, Close, TypeOK, ClientOK
<1>3. LinesOK'
  BY <1>1 DEF TypeOK, LinesOK, lines
<1> QED BY <1>1, <1>2, <1>3, SameSess, SameCalls, TypePartsNext

LEMMA CallToolType == ASSUME TypeOK, NEW c \in Calls, CallTool(c) PROVE TypeOK'
<1>1. Goto(c, "sent") /\ UNCHANGED <<bridge, tracked, sess, lines, busy, chatter>>
  BY DEF CallTool
<1>2. SessOK' /\ SameLangs /\ busy' \in Calls \cup {Free}
  BY <1>1, SameSess DEF TypeOK
<1>3. ClientOK' /\ LinesOK'
  BY <1>1 DEF TypeOK, ClientOK, LinesOK, lines, bridge
<1> QED BY <1>1, <1>2, <1>3, GotoType, TypePartsNext

LEMMA ShutdownAllType == ASSUME TypeOK, ShutdownAll PROVE TypeOK'
<1> DEFINE r(s) == [sess[s] EXCEPT !.dead = TRUE, !.proc = "gone"]
<1>1. UNCHANGED <<client, lines, call, busy, chatter>> /\ mux' = "down"
      /\ tracked' = [l \in Langs |-> None]
  BY DEF ShutdownAll
<1>2. ASSUME NEW s \in Sessions
      PROVE  r(s) \in Session /\ r(s).lang = sess[s].lang /\ r(s).proc = "gone"
  <2>1. sess[s] \in Session
    BY DEF TypeOK
  <2> QED BY <2>1 DEF Session
<1>3. \A s \in Sessions : \/ sess'[s] = sess[s]
                          \/ sess'[s] = r(s) /\ \E l \in Langs : tracked[l] = s
  BY DEF ShutdownAll
<1>4. \A s \in Sessions : (\E l \in Langs : tracked[l] = s) => sess[s].proc # "none"
  BY ConstantsAssumption DEF TypeOK
<1> HIDE DEF r
<1>5. SameLangs
  BY <1>2, <1>3, <1>4 DEF SameLangs
<1>6. sess' \in [Sessions -> Session]
  <2>1. \A s \in Sessions : sess'[s] \in Session
    BY <1>2, <1>3 DEF TypeOK
  <2> QED BY <2>1 DEF ShutdownAll
<1>7. SessOK'
  BY <1>1, <1>5, <1>6 DEF SessOK, SameLangs, TypeOK
<1>8. ClientOK' /\ LinesOK'
  BY <1>1 DEF TypeOK, ClientOK, LinesOK, lines
<1>9. CallsOK'
  BY <1>1, <1>5, SameCalls
<1> QED BY <1>7, <1>8, <1>9, TypePartsNext

LEMMA TakeType == ASSUME TypeOK, NEW c \in Calls, Take(c) PROVE TypeOK'
<1>1. Goto(c, "tries") /\ busy' = c /\ UNCHANGED <<bridge, tracked, sess, lines, chatter>>
  BY DEF Take
<1>2. SessOK' /\ SameLangs
  BY <1>1, SameSess
<1>3. ClientOK' /\ LinesOK'
  BY <1>1 DEF TypeOK, ClientOK, LinesOK, lines, bridge
<1> QED BY <1>1, <1>2, <1>3, GotoType, TypePartsNext

LEMMA GiveUpType == ASSUME TypeOK, NEW c \in Calls, GiveUp(c) PROVE TypeOK'
<1>1. Answer(c, "error") /\ UNCHANGED <<bridge, tracked, sess, lines, chatter>>
  BY DEF GiveUp
<1>2. SessOK' /\ SameLangs
  BY <1>1, SameSess
<1>3. ClientOK' /\ LinesOK'
  BY <1>1 DEF TypeOK, ClientOK, LinesOK, lines, bridge
<1> QED BY <1>1, <1>2, <1>3, AnswerType, TypePartsNext DEF Result

\* A request that failed leaves the sessions typed, as well as the call.
LEMMA RequestFailedSess ==
    ASSUME TypeOK, NEW c \in Calls, call[c].pc \in OnSession, RequestFailed(c),
           UNCHANGED tracked
    PROVE  SessOK' /\ CallsOK'
<1> DEFINE s == call[c].on
           r == [sess[s] EXCEPT !.dead = TRUE]
<1>1. s \in Sessions /\ sess[s] \in Session /\ sess[s].lang \in Langs /\ Failed(c, sess[s].lang)
  BY AtSession DEF RequestFailed
<1>2. r \in Session /\ r.lang = sess[s].lang /\ r.proc = sess[s].proc
  BY <1>1 DEF Session
<1>3. UNCHANGED sess \/ sess' = [sess EXCEPT ![s] = r]
  BY DEF RequestFailed, GivesUpOn, TypeOK
<1> HIDE DEF s, r
<1>4. SessOK' /\ SameLangs
  BY <1>1, <1>2, <1>3, Marked, SameSess
<1> QED BY <1>1, <1>4, FailedType

LEMMA CheckType == ASSUME TypeOK, NEW c \in Calls, Check(c) PROVE TypeOK'
<1>1. /\ call[c].pc \in OnSession
      /\ RequestFailed(c) \/ (Goto(c, "registers") /\ UNCHANGED <<sess, busy>>)
      /\ UNCHANGED <<bridge, tracked, lines, chatter>>
  BY DEF Check, OnSession
<1>2. ClientOK' /\ LinesOK'
  BY <1>1 DEF TypeOK, ClientOK, LinesOK, lines, bridge
<1>3. SessOK' /\ CallsOK'
  <2>1. CASE RequestFailed(c)
    BY <1>1, <2>1, RequestFailedSess
  <2>2. CASE Goto(c, "registers") /\ UNCHANGED <<sess, busy>>
    <3>1. SessOK' /\ SameLangs /\ busy' \in Calls \cup {Free}
      BY <1>1, <2>2, SameSess DEF TypeOK
    <3> QED BY <1>1, <2>2, <3>1, GotoType DEF OnSession
  <2> QED BY <1>1, <2>1, <2>2
<1> QED BY <1>2, <1>3, TypePartsNext

LEMMA RegisterType == ASSUME TypeOK, NEW c \in Calls, Register(c) PROVE TypeOK'
<1> DEFINE s == call[c].on
<1>1. /\ call[c].pc \in OnSession /\ s \in Sessions
      /\ UNCHANGED <<bridge, tracked, sess, wire, posted, chatter>>
  BY AtSession DEF Register, OnSession
<1>2. SessOK' /\ SameLangs
  BY <1>1, SameSess
<1>3. pending' \in [Sessions -> SUBSET Calls]
  BY <1>1 DEF Register, TypeOK
<1>4. asked' \in [Sessions -> SUBSET (Calls \cup {"initialize"})]
  BY <1>1 DEF Register, TypeOK
<1>5. (Goto(c, "awaits") /\ busy' = Free) \/ Answer(c, "error")
  BY DEF Register
<1>6. CallsOK'
  BY <1>1, <1>2, <1>5, GotoType, AnswerType DEF OnSession, Result
<1>7. ClientOK' /\ LinesOK'
  BY <1>1, <1>3, <1>4 DEF TypeOK, ClientOK, LinesOK, bridge
<1> QED BY <1>2, <1>6, <1>7, TypePartsNext

LEMMA ResolveType == ASSUME TypeOK, NEW c \in Calls, Resolve(c) PROVE TypeOK'
<1>1. PICK p \in posted :
        /\ Awaits(c, p.from) /\ posted' = posted \ {p}
        /\ RequestFailed(c) \/ (Answer(c, p.result) /\ UNCHANGED sess)
  BY DEF Resolve
<1>2. UNCHANGED <<bridge, tracked, wire, asked, pending, chatter>> /\ call[c].pc \in OnSession
  BY <1>1 DEF Resolve, Awaits, OnSession
<1>3. p.result \in Result
  BY DEF TypeOK
<1>4. ClientOK' /\ LinesOK'
  BY <1>1, <1>2 DEF TypeOK, ClientOK, LinesOK, bridge
<1>5. SessOK' /\ CallsOK'
  <2>1. CASE RequestFailed(c)
    BY <1>2, <2>1, RequestFailedSess
  <2>2. CASE Answer(c, p.result) /\ UNCHANGED sess
    BY <1>2, <1>3, <2>2, SameSess, AnswerType
  <2> QED BY <1>1, <2>1, <2>2
<1> QED BY <1>4, <1>5, TypePartsNext

LEMMA TimeoutType == ASSUME TypeOK, NEW c \in Calls, Timeout(c) PROVE TypeOK'
<1>1. /\ call[c].pc \in OnSession /\ RequestFailed(c)
      /\ UNCHANGED <<bridge, tracked, wire, asked, posted, chatter>>
  BY DEF Timeout, OnSession
<1>2. pending' \in [Sessions -> SUBSET Calls]
  BY DEF Timeout, TypeOK
<1>3. ClientOK' /\ LinesOK'
  BY <1>1, <1>2 DEF TypeOK, ClientOK, LinesOK, bridge
<1> QED BY <1>1, <1>3, RequestFailedSess, TypePartsNext

LEMMA DropCallbackType == ASSUME TypeOK, DropCallback PROVE TypeOK'
<1>1. /\ posted' \subseteq posted
      /\ UNCHANGED <<bridge, tracked, sess, wire, asked, pending, call, busy, chatter>>
  BY DEF DropCallback
<1>2. ClientOK' /\ LinesOK'
  BY <1>1 DEF TypeOK, ClientOK, LinesOK, bridge
<1> QED BY <1>1, <1>2, SameSess, SameCalls, TypePartsNext

LEMMA ReadMessageType == ASSUME TypeOK, NEW s \in Sessions, ReadMessage(s) PROVE TypeOK'
<1>1. UNCHANGED <<bridge, tracked, sess, asked, call, busy, chatter>>
  BY DEF ReadMessage
<1>2. \E m \in wire[s], outcome \in Result :
         /\ wire' = [wire EXCEPT ![s] = @ \ {m}]
         /\ \/ /\ m.to \in pending[s]
               /\ pending' = [pending EXCEPT ![s] = @ \ {m.to}]
               /\ posted' = posted \cup {[to |-> m.to, from |-> s, result |-> outcome]}
            \/ UNCHANGED <<pending, posted>>
  BY DEF ReadMessage, Result
<1>3. LinesOK'
  BY <1>1, <1>2 DEF TypeOK, LinesOK
<1>4. ClientOK'
  BY <1>1 DEF TypeOK, ClientOK, bridge
<1> QED BY <1>1, <1>3, <1>4, SameSess, SameCalls, TypePartsNext

LEMMA ReadEndType == ASSUME TypeOK, NEW s \in Sessions, ReadEnd(s) PROVE TypeOK'
<1> DEFINE r == [sess[s] EXCEPT !.dead = TRUE, !.reader = "clears"]
<1>1. UNCHANGED <<bridge, tracked, wire, asked, pending, call, busy, chatter>>
  BY DEF ReadEnd
<1>2. sess \in [Sessions -> Session] /\ sess[s] \in Session
  BY DEF TypeOK
<1>3. r \in Session /\ r.lang = sess[s].lang /\ r.proc = sess[s].proc
  BY <1>2 DEF Session
<1>4. sess' = [sess EXCEPT ![s] = r]
  BY <1>2 DEF ReadEnd
<1> HIDE DEF r
<1>5. SessOK' /\ SameLangs
  BY <1>1, <1>3, <1>4, Marked
<1>6. posted' \subseteq [to : Calls, from : Sessions, result : Result]
  BY DEF ReadEnd, TypeOK, Result
<1>7. ClientOK' /\ LinesOK'
  BY <1>1, <1>6 DEF TypeOK, ClientOK, LinesOK, bridge
<1> QED BY <1>1, <1>5, <1>7, SameCalls, TypePartsNext

LEMMA ClearPendingType == ASSUME TypeOK, NEW s \in Sessions, ClearPending(s) PROVE TypeOK'
<1> DEFINE r == [sess[s] EXCEPT !.reader = "ended"]
<1>1. UNCHANGED <<bridge, tracked, wire, asked, posted, call, busy, chatter>>
  BY DEF ClearPending
<1>2. sess \in [Sessions -> Session] /\ sess[s] \in Session
  BY DEF TypeOK
<1>3. r \in Session /\ r.lang = sess[s].lang /\ r.proc = sess[s].proc
  BY <1>2 DEF Session
<1>4. sess' = [sess EXCEPT ![s] = r]
  BY <1>2 DEF ClearPending
<1> HIDE DEF r
<1>5. SessOK' /\ SameLangs
  BY <1>1, <1>3, <1>4, Marked
<1>6. pending' \in [Sessions -> SUBSET Calls]
  BY DEF ClearPending, TypeOK
<1>7. ClientOK' /\ LinesOK'
  BY <1>1, <1>6 DEF TypeOK, ClientOK, LinesOK, bridge
<1> QED BY <1>1, <1>5, <1>7, SameCalls, TypePartsNext

LEMMA WriteType ==
    ASSUME TypeOK, NEW s \in Sessions, NEW to \in Calls \cup {None},
           NEW kind \in {"init", "initError", "note", "reply", "error", "request"},
           Write(s, kind, to)
    PROVE  wire' \in [Sessions -> SUBSET Message]
<1>1. [kind |-> kind, to |-> to] \in Message
  BY DEF Message
<1> QED BY <1>1 DEF Write, TypeOK

LEMMA ServerAnswersType == ASSUME TypeOK, NEW s \in Sessions, ServerAnswers(s) PROVE TypeOK'
<1>1. UNCHANGED <<bridge, tracked, sess, pending, posted, call, busy, chatter>>
  BY DEF ServerAnswers
<1>2. PICK a \in asked[s] :
        /\ asked' = [asked EXCEPT ![s] = @ \ {a}]
        /\ IF a = "initialize" THEN \E k \in {"init", "initError"} : Write(s, k, None)
           ELSE \E k \in {"reply", "error"} : Write(s, k, a)
  BY DEF ServerAnswers
<1>3. a \in Calls \cup {"initialize"}
  BY DEF TypeOK
<1>4. wire' \in [Sessions -> SUBSET Message]
  BY <1>2, <1>3, WriteType
<1>5. asked' \in [Sessions -> SUBSET (Calls \cup {"initialize"})]
  BY <1>2 DEF TypeOK
<1>6. ClientOK' /\ LinesOK'
  BY <1>1, <1>4, <1>5 DEF TypeOK, ClientOK, LinesOK, bridge
<1> QED BY <1>1, <1>6, SameSess, SameCalls, TypePartsNext

LEMMA ServerSpeaksType == ASSUME TypeOK, NEW s \in Sessions, ServerSpeaks(s) PROVE TypeOK'
<1>1. UNCHANGED <<bridge, tracked, sess, asked, pending, posted, call, busy>>
  BY DEF ServerSpeaks
<1>2. Write(s, "note", None) \/ \E c \in Calls : Write(s, "request", c)
  BY DEF ServerSpeaks, TypeOK
<1>3. wire' \in [Sessions -> SUBSET Message]
  BY <1>2, WriteType
<1>4. chatter' \in 0..MaxChatter
  BY ConstantsAssumption DEF ServerSpeaks, TypeOK
<1>5. ClientOK' /\ LinesOK'
  BY <1>1, <1>3, <1>4 DEF TypeOK, ClientOK, LinesOK, bridge
<1> QED BY <1>1, <1>5, SameSess, SameCalls, TypePartsNext

LEMMA ServerDiesType == ASSUME TypeOK, NEW s \in Sessions, ServerDies(s) PROVE TypeOK'
<1> DEFINE r == [sess[s] EXCEPT !.proc = "gone"]
<1>1. UNCHANGED <<bridge, tracked, wire, pending, posted, call, busy, chatter>>
  BY DEF ServerDies
<1>2. sess \in [Sessions -> Session] /\ sess[s] \in Session /\ sess[s].proc = "up"
  BY DEF TypeOK, ServerDies
<1>3. r \in Session /\ r.lang = sess[s].lang /\ r.proc = "gone"
  BY <1>2 DEF Session
<1>4. sess' = [sess EXCEPT ![s] = r]
  BY <1>2 DEF ServerDies
<1> HIDE DEF r
<1>5. SessOK' /\ SameLangs
  BY <1>1, <1>2, <1>3, <1>4, Marked
<1>6. asked' \in [Sessions -> SUBSET (Calls \cup {"initialize"})]
  BY DEF ServerDies, TypeOK
<1>7. ClientOK' /\ LinesOK'
  BY <1>1, <1>6 DEF TypeOK, ClientOK, LinesOK, bridge
<1> QED BY <1>1, <1>5, <1>7, SameCalls, TypePartsNext

LEMMA NextTypes == ASSUME TypeOK, [Next]_vars PROVE TypeOK'
<1>1. CASE UNCHANGED vars
  BY <1>1 DEF vars, TypeOK
<1>2. CASE Start \/ Ready \/ Close
  BY <1>2, ClientType
<1>3. CASE ShutdownAll
  BY <1>3, ShutdownAllType
<1>4. CASE DropCallback
  BY <1>4, DropCallbackType
<1>5. ASSUME NEW c \in Calls, CallTool(c) \/ Loop(c) \/ Torn(c) PROVE TypeOK'
  BY <1>5, CallToolType, TornType, TakeType, GetSessionType, GiveUpType, HandshakeType,
     CheckType, RegisterType, ResolveType, TimeoutType DEF Loop
<1>6. ASSUME NEW s \in Sessions, Reader(s) \/ Server(s) PROVE TypeOK'
  BY <1>6, ReadMessageType, ReadEndType, ClearPendingType, ServerAnswersType,
     ServerSpeaksType, ServerDiesType DEF Reader, Server
<1> QED BY <1>1, <1>2, <1>3, <1>4, <1>5, <1>6 DEF Next

\* However many threads call tools and however many language servers come and
\* go, the multiplexer's tables keep their shapes and a call holds a session
\* that has a language (lsp_server.py).
THEOREM TypeCorrect == Spec => []TypeOK
<1>1. Init => TypeOK
  BY InitTypes
<1>2. TypeOK /\ [Next]_vars => TypeOK'
  BY NextTypes
<1> QED BY <1>1, <1>2, PTL DEF Spec

-----------------------------------------------------------------------------
(* Sessions: the inductive invariant *)

\* A call between two awaits holds the event loop.
Held == {"tries", "starting", "asks", "registers"}
Turn == \A c \in Calls : call[c].pc \in Held => busy = c

\* While a session starts, its language has no live one.
NoRival ==
    \A c \in Calls : call[c].pc = "starting" =>
        \A s \in Sessions : Live(s) => sess[s].lang # sess[call[c].on].lang

\* Without a bridge that is ready nobody calls, and without one that ever was
\* there is no language server.
BridgeInv ==
    /\ client # "ready" => \A c \in Calls : call[c].pc \in {"idle", "done"}
    /\ client \in {"new", "starting", "failed", "timedOut"} =>
          \A s \in Sessions : sess[s].proc = "none"
    /\ client \in {"ready", "starting"} => mux = "up"

SessionInv == /\ TypeOK /\ Turn /\ NoRival /\ BridgeInv
              /\ OneLiveSession /\ SurvivorsWereGivenUp

\* No session comes to life, gets its first process or changes its language.
Calm == \A s \in Sessions :
    /\ sess'[s].lang = sess[s].lang
    /\ sess[s].proc = "none" => sess'[s].proc = "none"
    /\ Live(s)' => Live(s)

\* A step of the coroutine of c, up to its next await.
Moves(c) ==
    /\ MayRun(c) /\ call[c].pc \notin {"idle", "done"} /\ UNCHANGED bridge
    /\ \A d \in Calls : d # c => call'[d] = call[d]
    /\ busy' \in {Free, c}
    /\ call'[c].pc \in Held => busy' = c

\* One that starts no session and makes none live.
Serves(c) ==
    /\ Moves(c) /\ Calm /\ UNCHANGED tracked
    /\ call'[c].pc = "starting" => call[c].pc = "starting" /\ call'[c].on = call[c].on

\* What readers and language servers may do.
Outside == Calm /\ UNCHANGED <<tracked, call, busy, bridge>>

\* The parts of the invariant but the types.
Sound == Turn /\ NoRival /\ BridgeInv /\ OneLiveSession /\ SurvivorsWereGivenUp

LEMMA MovesKeepTurn ==
    ASSUME SessionInv, NEW c \in Calls, Moves(c)
    PROVE  Turn' /\ BridgeInv' /\ mux = "up" /\ mux' = "up"
<1>1. client = "ready" /\ client' = "ready" /\ mux = "up" /\ mux' = "up"
  BY DEF SessionInv, BridgeInv, Moves, bridge
<1>2. Turn'
  BY ConstantsAssumption DEF SessionInv, Turn, Moves, MayRun
<1> QED BY <1>1, <1>2 DEF BridgeInv

LEMMA ServesIsSound == ASSUME SessionInv, NEW c \in Calls, Serves(c) PROVE Sound'
<1>1. Turn' /\ BridgeInv' /\ mux' = "up"
  BY MovesKeepTurn DEF Serves
<1>2. \A d \in Calls : call'[d].pc = "starting" =>
         /\ call[d].pc = "starting" /\ call'[d].on = call[d].on
         /\ call[d].on \in Sessions
  BY DEF Serves, Moves, SessionInv, TypeOK, OnSession
<1>3. Calm /\ UNCHANGED tracked
  BY DEF Serves
<1>4. NoRival'
  BY <1>2, <1>3 DEF NoRival, Calm, SessionInv
<1>5. OneLiveSession'
  BY <1>3 DEF OneLiveSession, Calm, SessionInv
<1>6. SurvivorsWereGivenUp'
  BY <1>1 DEF SurvivorsWereGivenUp
<1> QED BY <1>1, <1>4, <1>5, <1>6 DEF Sound

LEMMA OutsideIsSound == ASSUME SessionInv, Outside PROVE Sound'
<1>1. Calm /\ UNCHANGED <<tracked, call, busy, client, mux>>
  BY DEF Outside, bridge
<1>2. Turn'
  BY <1>1 DEF Turn, SessionInv
<1>3. NoRival'
  BY <1>1 DEF NoRival, Calm, SessionInv, TypeOK, OnSession
<1>4. BridgeInv'
  BY <1>1 DEF BridgeInv, Calm, SessionInv
<1>5. OneLiveSession'
  BY <1>1 DEF OneLiveSession, Calm, SessionInv
<1>6. SurvivorsWereGivenUp'
  <2>1. \A s \in Sessions : mux = "down" => ~Live(s)
    BY DEF SessionInv, SurvivorsWereGivenUp, Live
  <2>2. \A s \in Sessions : mux' = "down" => ~Live(s)'
    BY <1>1, <2>1 DEF Calm
  <2> QED BY <2>2 DEF SurvivorsWereGivenUp, Live, SessionInv, TypeOK, Session
<1> QED BY <1>2, <1>3, <1>4, <1>5, <1>6 DEF Sound

LEMMA CalmMark ==
    ASSUME TypeOK, NEW s \in Sessions, NEW r, sess' = [sess EXCEPT ![s] = r],
           r.lang = sess[s].lang, sess[s].proc = "none" => r.proc = "none",
           r.proc = "up" /\ r.initialized /\ ~r.dead => Live(s)
    PROVE  Calm
<1>1. ASSUME NEW t \in Sessions
      PROVE  /\ sess'[t].lang = sess[t].lang
             /\ sess[t].proc = "none" => sess'[t].proc = "none"
             /\ Live(t)' => Live(t)
  <2>1. CASE t = s
    <3>1. sess'[t] = r
      BY <2>1 DEF TypeOK
    <3> QED BY <2>1, <3>1 DEF Live
  <2>2. CASE t # s
    <3>1. sess'[t] = sess[t]
      BY <2>2 DEF TypeOK
    <3> QED BY <3>1 DEF Live
  <2> QED BY <2>1, <2>2
<1> QED BY <1>1 DEF Calm

LEMMA CalmSame == ASSUME UNCHANGED sess PROVE Calm
  BY DEF Calm, Live

\* How a call leaves a step.
LEMMA GotoMoves ==
    ASSUME SessionInv, NEW c \in Calls, NEW pc, Goto(c, pc), MayRun(c), UNCHANGED bridge,
           call[c].pc \notin {"idle", "done"}, busy' \in {Free, c}, pc \in Held => busy' = c
    PROVE  Moves(c) /\ call'[c].pc = pc /\ call'[c].on = call[c].on
<1>1. call[c] \in Call
  BY DEF SessionInv, TypeOK
<1>2. call'[c].pc = pc /\ call'[c].on = call[c].on
  BY <1>1 DEF Goto, SessionInv, TypeOK, Call
<1> QED BY <1>2 DEF Moves, Goto, SessionInv, TypeOK

LEMMA AnswerMoves ==
    ASSUME SessionInv, NEW c \in Calls, NEW result, Answer(c, result), MayRun(c),
           UNCHANGED bridge, call[c].pc \notin {"idle", "done"}
    PROVE  Moves(c) /\ call'[c].pc = "done"
<1>1. call[c] \in Call
  BY DEF SessionInv, TypeOK
<1>2. call'[c].pc = "done" /\ busy' = Free
  BY <1>1 DEF Answer, SessionInv, TypeOK, Call
<1> QED BY <1>2 DEF Moves, Answer, SessionInv, TypeOK, Held

LEMMA FailedMoves ==
    ASSUME SessionInv, NEW c \in Calls, NEW l \in Langs, Failed(c, l), MayRun(c),
           UNCHANGED bridge, call[c].pc \notin {"idle", "done"}
    PROVE  Moves(c) /\ call'[c].pc \in {"tries", "done"}
<1>1. CASE LangOf[c] = Workspace
  <2>1. call[c] \in Call
    BY DEF SessionInv, TypeOK
  <2>2. call'[c].pc = "tries" /\ busy' = c
    BY <1>1, <2>1 DEF Failed, SessionInv, TypeOK, Call
  <2> QED BY <1>1, <2>2 DEF Moves, Failed, SessionInv, TypeOK
<1>2. CASE LangOf[c] # Workspace
  BY <1>2, AnswerMoves DEF Failed
<1> QED BY <1>1, <1>2

LEMMA RequestFailedServes ==
    ASSUME SessionInv, NEW c \in Calls, RequestFailed(c), MayRun(c),
           UNCHANGED <<bridge, tracked>>, call[c].pc \in {"asks", "awaits"}
    PROVE  Serves(c)
<1> DEFINE s == call[c].on
           r == [sess[s] EXCEPT !.dead = TRUE]
<1>1. s \in Sessions /\ sess[s] \in Session /\ sess[s].lang \in Langs /\ Failed(c, sess[s].lang)
  BY AtSession DEF RequestFailed, SessionInv, OnSession
<1>2. r.lang = sess[s].lang /\ r.proc = sess[s].proc /\ r.dead
  BY <1>1 DEF Session
<1>3. UNCHANGED sess \/ sess' = [sess EXCEPT ![s] = r]
  BY DEF RequestFailed, GivesUpOn, SessionInv, TypeOK
<1> HIDE DEF s, r
<1>4. Calm
  BY <1>1, <1>2, <1>3, CalmMark, CalmSame DEF SessionInv
<1>5. Moves(c) /\ call'[c].pc \in {"tries", "done"}
  BY <1>1, FailedMoves
<1> QED BY <1>4, <1>5 DEF Serves

-----------------------------------------------------------------------------
(* Every action keeps the invariant *)

LEMMA LoopServes ==
    ASSUME SessionInv, NEW c \in Calls,
           Take(c) \/ GiveUp(c) \/ Check(c) \/ Register(c) \/ Resolve(c) \/ Timeout(c)
    PROVE  Serves(c)
<1>1. MayRun(c) /\ UNCHANGED <<bridge, tracked>> /\ call[c].pc \notin {"idle", "done"}
  BY DEF Take, GiveUp, Check, Register, Resolve, Timeout, Awaits
<1>2. CASE Take(c)
  <2>1. UNCHANGED sess /\ Goto(c, "tries") /\ busy' = c
    BY <1>2 DEF Take
  <2> QED BY <1>1, <2>1, CalmSame, GotoMoves DEF Serves
<1>3. CASE GiveUp(c)
  <2>1. UNCHANGED sess /\ Answer(c, "error")
    BY <1>3 DEF GiveUp
  <2> QED BY <1>1, <2>1, CalmSame, AnswerMoves DEF Serves
<1>4. CASE Check(c)
  <2>1. call[c].pc = "asks" /\ busy = c
    BY <1>4 DEF Check, SessionInv, Turn, Held
  <2>2. RequestFailed(c) \/ (Goto(c, "registers") /\ UNCHANGED <<sess, busy>>)
    BY <1>4 DEF Check
  <2>3. CASE RequestFailed(c)
    BY <1>1, <2>1, <2>3, RequestFailedServes
  <2>4. CASE Goto(c, "registers") /\ UNCHANGED <<sess, busy>>
    BY <1>1, <2>1, <2>4, CalmSame, GotoMoves DEF Serves
  <2> QED BY <2>2, <2>3, <2>4
<1>5. CASE Register(c)
  <2>1. UNCHANGED sess /\ ((Goto(c, "awaits") /\ busy' = Free) \/ Answer(c, "error"))
    BY <1>5 DEF Register
  <2> QED BY <1>1, <2>1, CalmSame, GotoMoves, AnswerMoves DEF Serves, Held
<1>6. CASE Resolve(c)
  <2>1. call[c].pc = "awaits"
    BY <1>6 DEF Resolve, Awaits
  <2>2. RequestFailed(c) \/ \E p \in posted : Answer(c, p.result) /\ UNCHANGED sess
    BY <1>6 DEF Resolve
  <2> QED BY <1>1, <2>1, <2>2, RequestFailedServes, CalmSame, AnswerMoves DEF Serves
<1>7. CASE Timeout(c)
  BY <1>1, <1>7, RequestFailedServes DEF Timeout
<1> QED BY <1>2, <1>3, <1>4, <1>5, <1>6, <1>7

LEMMA OthersStayOutside ==
    ASSUME SessionInv, NEW s \in Sessions, Reader(s) \/ Server(s)
    PROVE  Outside
<1>1. UNCHANGED <<tracked, call, busy, bridge>>
  BY DEF Reader, Server, ReadMessage, ReadEnd, ClearPending, ServerAnswers, ServerSpeaks, ServerDies
<1>2. sess \in [Sessions -> Session] /\ sess[s] \in Session
  BY DEF SessionInv, TypeOK
<1>3. CASE ReadMessage(s) \/ ServerAnswers(s) \/ ServerSpeaks(s)
  BY <1>1, <1>3, CalmSame DEF ReadMessage, ServerAnswers, ServerSpeaks, Outside
<1>4. CASE ReadEnd(s)
  <2> DEFINE r == [sess[s] EXCEPT !.dead = TRUE, !.reader = "clears"]
  <2>1. r.lang = sess[s].lang /\ r.proc = sess[s].proc /\ r.dead
    BY <1>2 DEF Session
  <2>2. sess' = [sess EXCEPT ![s] = r]
    BY <1>2, <1>4 DEF ReadEnd
  <2> HIDE DEF r
  <2> QED BY <1>1, <2>1, <2>2, CalmMark DEF SessionInv, Outside
<1>5. CASE ClearPending(s)
  <2> DEFINE r == [sess[s] EXCEPT !.reader = "ended"]
  <2>1. /\ r.lang = sess[s].lang /\ r.proc = sess[s].proc /\ r.dead = sess[s].dead
        /\ r.initialized = sess[s].initialized
    BY <1>2 DEF Session
  <2>2. sess' = [sess EXCEPT ![s] = r]
    BY <1>2, <1>5 DEF ClearPending
  <2>3. r.proc = "up" /\ r.initialized /\ ~r.dead => Live(s)
    BY <2>1 DEF Live
  <2> HIDE DEF r
  <2> QED BY <1>1, <2>1, <2>2, <2>3, CalmMark DEF SessionInv, Outside
<1>6. CASE ServerDies(s)
  <2> DEFINE r == [sess[s] EXCEPT !.proc = "gone"]
  <2>1. r.lang = sess[s].lang /\ r.proc = "gone" /\ sess[s].proc = "up"
    BY <1>2, <1>6 DEF Session, ServerDies
  <2>2. sess' = [sess EXCEPT ![s] = r]
    BY <1>2, <1>6 DEF ServerDies
  <2> HIDE DEF r
  <2> QED BY <1>1, <2>1, <2>2, CalmMark DEF SessionInv, Outside
<1> QED BY <1>3, <1>4, <1>5, <1>6 DEF Reader, Server

\* A language whose tracked session is not alive has no live session, so that a
\* new one has no rival.
LEMMA LaunchIsSound ==
    ASSUME SessionInv, NEW c \in Calls, NEW l \in Langs, NEW n \in Unused, Launch(c, l, n),
           MayRun(c), call[c].pc = "tries", UNCHANGED <<bridge, tracked>>
    PROVE  Sound'
<1> DEFINE r == [NoSession EXCEPT !.lang = l, !.proc = "up", !.hand = "wait", !.reader = "reads"]
           q(t) == [sess[t] EXCEPT !.dead = TRUE]
           a == [call[c] EXCEPT !.pc = "starting", !.on = n]
<1>1. r.lang = l /\ ~r.initialized
  BY DEF NoSession
<1>2. \A t \in Sessions : q(t).lang = sess[t].lang /\ q(t).dead
  BY DEF SessionInv, TypeOK, Session
<1>3. call[c] \in Call /\ n \in Sessions /\ sess[n].proc = "none"
  BY DEF SessionInv, TypeOK, Unused
<1>4. a.pc = "starting" /\ a.on = n
  BY <1>3 DEF Call
<1>5. call'[c] = a /\ \A d \in Calls : d # c => call'[d] = call[d]
  BY DEF Launch, SessionInv, TypeOK
<1>6. busy = c /\ busy' = c
  BY DEF SessionInv, Turn, Held, Launch
<1>7. \A t \in Sessions : \/ t = n /\ sess'[t] = r
                          \/ t # n /\ (sess'[t] = q(t) \/ sess'[t] = sess[t])
  BY DEF Launch
<1> HIDE DEF r, q, a
<1>8. Moves(c)
  BY <1>4, <1>5, <1>6 DEF Moves, Held
<1>9. Turn' /\ BridgeInv' /\ mux' = "up"
  BY <1>8, MovesKeepTurn
<1>10. \A t \in Sessions : Live(t)' => t # n /\ Live(t) /\ sess'[t].lang = sess[t].lang
  BY <1>1, <1>2, <1>7 DEF Live
<1>11. \A t \in Sessions : Live(t) => sess[t].lang # l
  BY ConstantsAssumption DEF Launch, SessionInv, OneLiveSession, Live, Alive
<1>12. sess'[n].lang = l
  BY <1>1, <1>3, <1>7
<1>13. NoRival'
  <2> SUFFICES ASSUME NEW d \in Calls, call'[d].pc = "starting", NEW t \in Sessions, Live(t)'
               PROVE  sess'[t].lang # sess'[call'[d].on].lang
    BY DEF NoRival
  <2>1. d = c
    BY <1>5, <1>6 DEF SessionInv, Turn, Held
  <2> QED BY <2>1, <1>4, <1>5, <1>10, <1>11, <1>12
<1>14. OneLiveSession'
  BY <1>10 DEF OneLiveSession, SessionInv
<1>15. SurvivorsWereGivenUp'
  BY <1>9 DEF SurvivorsWereGivenUp
<1> QED BY <1>9, <1>13, <1>14, <1>15 DEF Sound

LEMMA GetSessionIsSound == ASSUME SessionInv, NEW c \in Calls, GetSession(c) PROVE Sound'
<1>1. /\ MayRun(c) /\ call[c].pc = "tries" /\ UNCHANGED <<bridge, tracked>>
  BY DEF GetSession
<1>2. PICK l \in Choices(c) :
        HandOut(c, l) \/ NoBinary(c, l) \/ \E n \in Unused : Launch(c, l, n)
  BY DEF GetSession
<1>3. l \in Langs
  BY ChoicesAreLangs
<1>4. CASE HandOut(c, l)
  <2> DEFINE a == [call[c] EXCEPT !.pc = "asks", !.on = tracked[l]]
  <2>1. a.pc = "asks"
    BY DEF SessionInv, TypeOK, Call
  <2>2. call'[c] = a /\ \A d \in Calls : d # c => call'[d] = call[d]
    BY <1>4 DEF HandOut, SessionInv, TypeOK
  <2>3. UNCHANGED sess /\ busy' = c
    BY <1>1, <1>4 DEF HandOut, SessionInv, Turn, Held
  <2> HIDE DEF a
  <2>4. Serves(c)
    BY <1>1, <2>1, <2>2, <2>3, CalmSame DEF Serves, Moves, Held
  <2> QED BY <2>4, ServesIsSound
<1>5. CASE NoBinary(c, l)
  <2>1. UNCHANGED sess /\ Failed(c, l)
    BY <1>5 DEF NoBinary
  <2>2. Serves(c)
    BY <1>1, <1>3, <2>1, CalmSame, FailedMoves DEF Serves
  <2> QED BY <2>2, ServesIsSound
<1>6. ASSUME NEW n \in Unused, Launch(c, l, n) PROVE Sound'
  BY <1>1, <1>3, <1>6, LaunchIsSound
<1> QED BY <1>2, <1>4, <1>5, <1>6

\* The session that becomes live is the one tracked for its language.
LEMMA BirthIsSound ==
    ASSUME SessionInv, NEW c \in Calls, call[c].pc = "starting", Moves(c),
           NEW r, r.lang = sess[call[c].on].lang, call'[c].pc # "starting",
           sess' = [sess EXCEPT ![call[c].on] = r],
           tracked' = [tracked EXCEPT ![sess[call[c].on].lang] = call[c].on]
    PROVE  Sound'
<1> DEFINE s == call[c].on
<1>1. s \in Sessions /\ sess[s].lang \in Langs
  BY AtSession DEF SessionInv, OnSession
<1>2. Turn' /\ BridgeInv' /\ mux' = "up"
  BY MovesKeepTurn
<1>3. \A d \in Calls : call'[d].pc # "starting"
  BY DEF SessionInv, Turn, Held, Moves
<1>4. NoRival'
  BY <1>3 DEF NoRival
<1>5. sess'[s] = r /\ \A t \in Sessions : t # s => sess'[t] = sess[t]
  BY <1>1 DEF SessionInv, TypeOK
<1>6. ASSUME NEW t \in Sessions, Live(t)' PROVE tracked'[sess'[t].lang] = t
  <2>1. CASE t = s
    BY <1>1, <1>5, <2>1 DEF SessionInv, TypeOK
  <2>2. CASE t # s
    <3>1. Live(t) /\ sess'[t].lang = sess[t].lang
      BY <1>5, <1>6, <2>2 DEF Live
    <3>2. sess[t].lang # sess[s].lang
      BY <3>1 DEF SessionInv, NoRival
    <3>3. sess[t].lang \in Langs
      BY <3>1 DEF Live, SessionInv, TypeOK, Session
    <3> QED BY <1>1, <3>1, <3>2, <3>3 DEF SessionInv, TypeOK, OneLiveSession
  <2> QED BY <2>1, <2>2
<1>7. OneLiveSession'
  BY <1>6 DEF OneLiveSession
<1>8. SurvivorsWereGivenUp'
  BY <1>2 DEF SurvivorsWereGivenUp
<1> QED BY <1>2, <1>4, <1>7, <1>8 DEF Sound

LEMMA HandshakeIsSound == ASSUME SessionInv, NEW c \in Calls, Handshake(c) PROVE Sound'
<1> DEFINE s == call[c].on
<1>1. /\ call[c].pc = "starting" /\ MayRun(c) /\ busy = c /\ s \in Sessions /\ sess[s] \in Session
      /\ sess[s].lang \in Langs /\ sess \in [Sessions -> Session] /\ UNCHANGED bridge
  BY AtSession DEF Handshake, OnSession, SessionInv, Turn, Held, TypeOK
<1>2. \/ Started(c, s) \/ StartFailed(c, s, TRUE) \/ StartFailed(c, s, FALSE)
      \/ UNCHANGED <<sess, tracked, call, busy>>
  BY DEF Handshake
<1>3. CASE Started(c, s)
  <2> DEFINE r == [sess[s] EXCEPT !.initialized = TRUE, !.hand = "over"]
  <2>1. r.lang = sess[s].lang
    BY <1>1 DEF Session
  <2>2. /\ sess' = [sess EXCEPT ![s] = r]
        /\ tracked' = [tracked EXCEPT ![sess[s].lang] = s]
        /\ Goto(c, "asks") /\ UNCHANGED busy
    BY <1>1, <1>3 DEF Started
  <2> HIDE DEF r
  <2>3. Moves(c) /\ call'[c].pc # "starting"
    BY <1>1, <2>2, GotoMoves
  <2> QED BY <1>1, <2>1, <2>2, <2>3, BirthIsSound
<1>4. ASSUME NEW runtime \in BOOLEAN, StartFailed(c, s, runtime) PROVE Sound'
  <2> DEFINE r == [sess[s] EXCEPT !.hand = "over"]
  <2>1. /\ r.lang = sess[s].lang /\ r.proc = sess[s].proc /\ r.dead = sess[s].dead
        /\ r.initialized = sess[s].initialized
    BY <1>1 DEF Session
  <2>2. /\ sess' = [sess EXCEPT ![s] = r] /\ UNCHANGED tracked
        /\ Failed(c, sess[s].lang) \/ Answer(c, "error")
    BY <1>1, <1>4 DEF StartFailed
  <2>3. r.proc = "up" /\ r.initialized /\ ~r.dead => Live(s)
    BY <2>1 DEF Live
  <2> HIDE DEF r
  <2>4. Calm
    BY <1>1, <2>1, <2>2, <2>3, CalmMark DEF SessionInv
  <2>5. Moves(c) /\ call'[c].pc # "starting"
    BY <1>1, <2>2, FailedMoves, AnswerMoves
  <2>6. Serves(c)
    BY <2>2, <2>4, <2>5 DEF Serves
  <2> QED BY <2>6, ServesIsSound
<1>5. CASE UNCHANGED <<sess, tracked, call, busy>>
  <2>1. Outside
    BY <1>1, <1>5, CalmSame DEF Outside
  <2> QED BY <2>1, OutsideIsSound
<1> QED BY <1>2, <1>3, <1>4, <1>5

LEMMA TornIsSound == ASSUME SessionInv, NEW c \in Calls, Torn(c) PROVE Sound'
<1> DEFINE s == call[c].on
           r1 == [sess[s] EXCEPT !.reader = "clears", !.dead = TRUE,
                                 !.initialized = TRUE, !.hand = "over"]
           r2 == [sess[s] EXCEPT !.reader = "clears", !.dead = TRUE, !.hand = "over"]
           r3 == [sess[s] EXCEPT !.reader = "clears", !.dead = TRUE]
<1>1. /\ call[c].pc = "starting" /\ MayRun(c) /\ busy = c /\ s \in Sessions /\ sess[s] \in Session
      /\ sess[s].lang \in Langs /\ sess \in [Sessions -> Session] /\ UNCHANGED bridge
  BY AtSession DEF Torn, OnSession, SessionInv, Turn, Held, TypeOK
<1>2. /\ r1.lang = sess[s].lang
      /\ r2.lang = sess[s].lang /\ r2.proc = sess[s].proc /\ r2.dead
      /\ r3.lang = sess[s].lang /\ r3.proc = sess[s].proc /\ r3.dead
  BY <1>1 DEF Session
<1>3. \/ /\ sess' = [sess EXCEPT ![s] = r1]
         /\ tracked' = [tracked EXCEPT ![sess[s].lang] = s]
         /\ Goto(c, "asks") /\ UNCHANGED busy
      \/ /\ sess' = [sess EXCEPT ![s] = r2]
         /\ UNCHANGED tracked /\ Answer(c, "error")
      \/ /\ sess' = [sess EXCEPT ![s] = r3]
         /\ UNCHANGED <<tracked, call, busy>>
  BY <1>1 DEF Torn
<1> HIDE DEF r1, r2, r3
<1>4. CASE /\ sess' = [sess EXCEPT ![s] = r1]
           /\ tracked' = [tracked EXCEPT ![sess[s].lang] = s]
           /\ Goto(c, "asks") /\ UNCHANGED busy
  <2>1. Moves(c) /\ call'[c].pc # "starting"
    BY <1>1, <1>4, GotoMoves
  <2> QED BY <1>1, <1>2, <1>4, <2>1, BirthIsSound
<1>5. CASE sess' = [sess EXCEPT ![s] = r2] /\ UNCHANGED tracked /\ Answer(c, "error")
  <2>1. Calm
    BY <1>1, <1>2, <1>5, CalmMark DEF SessionInv
  <2>2. Serves(c)
    BY <1>1, <1>5, <2>1, AnswerMoves DEF Serves
  <2> QED BY <2>2, ServesIsSound
<1>6. CASE sess' = [sess EXCEPT ![s] = r3] /\ UNCHANGED <<tracked, call, busy>>
  <2>1. Outside
    BY <1>1, <1>2, <1>6, CalmMark DEF SessionInv, Outside
  <2> QED BY <2>1, OutsideIsSound
<1> QED BY <1>3, <1>4, <1>5, <1>6

LEMMA BridgeIsSound ==
    ASSUME SessionInv, Start \/ Ready \/ Close
    PROVE  Sound'
<1>1. UNCHANGED <<tracked, sess, call, busy>>
  BY DEF Start, Ready, Close
<1>2. Turn' /\ NoRival' /\ OneLiveSession'
  BY <1>1 DEF SessionInv, Turn, NoRival, OneLiveSession, Live
<1>3. BridgeInv'
  BY <1>1 DEF Start, Ready, Close, SessionInv, BridgeInv
<1>4. SurvivorsWereGivenUp'
  <2>1. mux' = "down" => mux = "down" \/ \A s \in Sessions : sess[s].proc = "none"
    BY DEF Start, Ready, Close, SessionInv, BridgeInv
  <2> QED BY <1>1, <2>1 DEF SurvivorsWereGivenUp, SessionInv
<1> QED BY <1>2, <1>3, <1>4 DEF Sound

LEMMA CallToolIsSound == ASSUME SessionInv, NEW c \in Calls, CallTool(c) PROVE Sound'
<1>1. client = "ready" /\ UNCHANGED <<client, mux, tracked, sess, busy>>
  BY DEF CallTool, bridge
<1>2. call'[c].pc = "sent" /\ \A d \in Calls : d # c => call'[d] = call[d]
  BY DEF CallTool, Goto, SessionInv, TypeOK, Call
<1>3. Turn' /\ NoRival'
  BY <1>1, <1>2 DEF SessionInv, Turn, NoRival, Held, Live
<1>4. BridgeInv' /\ OneLiveSession' /\ SurvivorsWereGivenUp'
  BY <1>1 DEF SessionInv, BridgeInv, OneLiveSession, SurvivorsWereGivenUp, Live
<1> QED BY <1>3, <1>4 DEF Sound

\* Every live session is tracked, so that it is terminated.
LEMMA ShutdownAllIsSound == ASSUME SessionInv, ShutdownAll PROVE Sound'
<1> DEFINE r(s) == [sess[s] EXCEPT !.dead = TRUE, !.proc = "gone"]
<1>1. UNCHANGED <<client, call, busy>> /\ client = "closed" /\ busy = Free
  BY DEF ShutdownAll
<1>2. \A c \in Calls : call[c].pc \in {"idle", "done"}
  BY <1>1 DEF SessionInv, BridgeInv
<1>3. \A s \in Sessions :
         IF (\E l \in Langs : tracked[l] = s) /\ ~sess[s].dead
         THEN sess'[s] = r(s) ELSE sess'[s] = sess[s]
  BY DEF ShutdownAll
<1>4. \A s \in Sessions : r(s).proc = "gone"
  BY DEF SessionInv, TypeOK, Session
<1> HIDE DEF r
<1>5. \A s \in Sessions : Live(s) => \E l \in Langs : tracked[l] = s
  <2> SUFFICES ASSUME NEW s \in Sessions, Live(s) PROVE \E l \in Langs : tracked[l] = s
    OBVIOUS
  <2>1. sess[s].lang \in Langs
    BY DEF Live, SessionInv, TypeOK, Session
  <2> QED BY <2>1 DEF SessionInv, OneLiveSession
<1>6. \A s \in Sessions : ~Live(s)'
  BY <1>3, <1>4, <1>5 DEF Live
<1>7. SurvivorsWereGivenUp'
  <2> SUFFICES ASSUME NEW s \in Sessions, sess'[s].proc = "up"
               PROVE  sess'[s].dead \/ ~sess'[s].initialized
    BY DEF SurvivorsWereGivenUp
  <2> QED BY <1>6 DEF Live
<1>8. Turn' /\ NoRival' /\ BridgeInv' /\ OneLiveSession'
  BY <1>1, <1>2, <1>6 DEF Turn, NoRival, BridgeInv, OneLiveSession, Held
<1> QED BY <1>7, <1>8 DEF Sound

LEMMA SessionInvInit == Init => SessionInv
<1> SUFFICES ASSUME Init PROVE SessionInv
  OBVIOUS
<1>1. TypeOK
  BY InitTypes
<1>2. \A s \in Sessions : sess[s].proc = "none"
  BY DEF Init, NoSession
<1>3. \A c \in Calls : call[c].pc = "idle"
  BY DEF Init, NoCall
<1>4. Turn /\ NoRival /\ BridgeInv
  BY <1>2, <1>3 DEF Init, Turn, NoRival, BridgeInv, Held
<1>5. OneLiveSession /\ SurvivorsWereGivenUp
  BY <1>2 DEF OneLiveSession, SurvivorsWereGivenUp, Live
<1> QED BY <1>1, <1>4, <1>5 DEF SessionInv

LEMMA SessionInvNext == ASSUME SessionInv, [Next]_vars PROVE SessionInv'
<1>1. TypeOK'
  BY NextTypes DEF SessionInv
<1>2. Sound'
  <2>1. CASE UNCHANGED vars
    <3>1. Outside
      BY <2>1, CalmSame DEF vars, Outside, bridge
    <3> QED BY <3>1, OutsideIsSound
  <2>2. CASE Start \/ Ready \/ Close
    BY <2>2, BridgeIsSound
  <2>3. CASE ShutdownAll
    BY <2>3, ShutdownAllIsSound
  <2>4. CASE DropCallback
    <3>1. Outside
      BY <2>4, CalmSame DEF DropCallback, Outside
    <3> QED BY <3>1, OutsideIsSound
  <2>5. ASSUME NEW c \in Calls, CallTool(c) \/ Loop(c) \/ Torn(c) PROVE Sound'
    BY <2>5, CallToolIsSound, TornIsSound, GetSessionIsSound, HandshakeIsSound,
       LoopServes, ServesIsSound DEF Loop
  <2>6. ASSUME NEW s \in Sessions, Reader(s) \/ Server(s) PROVE Sound'
    BY <2>6, OthersStayOutside, OutsideIsSound
  <2> QED BY <2>1, <2>2, <2>3, <2>4, <2>5, <2>6 DEF Next
<1> QED BY <1>1, <1>2 DEF SessionInv, Sound

LEMMA SessionInvAlways == Spec => []SessionInv
<1>1. Init => SessionInv
  BY SessionInvInit
<1>2. SessionInv /\ [Next]_vars => SessionInv'
  BY SessionInvNext
<1> QED BY <1>1, <1>2, PTL DEF Spec

\* However many threads ask for one language at once, it has one live session,
\* the one that is tracked (LSPMultiplexer._get_or_start_session).
THEOREM LanguagesHaveOneSession == Spec => []OneLiveSession
<1>1. SessionInv => OneLiveSession
  BY DEF SessionInv
<1> QED BY <1>1, SessionInvAlways, PTL

\* A language server that outlives the multiplexer belongs to a session that was
\* given up before (LSPMultiplexer.shutdown_all).
THEOREM NoLiveSessionIsLeft == Spec => []SurvivorsWereGivenUp
<1>1. SessionInv => SurvivorsWereGivenUp
  BY DEF SessionInv
<1> QED BY <1>1, SessionInvAlways, PTL
=============================================================================
