------------------------------ MODULE PxiProofs ------------------------------
(***************************************************************************)
(* Theorems about Pxi, for any commands and numbers of arguments, any      *)
(* depth of the FIFOs and any number of calls.                             *)
(***************************************************************************)
EXTENDS Pxi, SequenceTheorems, TLAPS

-----------------------------------------------------------------------------
(* The inductive invariant: which words are where.                         *)

OldWord == <<"old", NoCmd, 0>>
Hello99 == <<"99", NoCmd, 0>>
Hello11Word == <<"11", NoCmd, 0>>
CmdWord == <<"cmd", cmd, call>>
RespWord == <<"resp", cmd, call>>
ResultWord == <<"result", cmd, call>>
ReadyWord == <<"ready", Launch, 0>>
EntryWord == <<"entry", Launch, 0>>
GotWord == <<"got", Launch, 0>>

Dead == h9 \in Panic9
Unlinked11 == {"init", "hello", "answer"}
Body == {"args"} \cup Waiting11     \* inside a call, after its interrupt
Stub11 == {"stub", "entry", "got", "gone"}
Stub9 == {"stub", "copy", "entry", "confirm", "gone"}
Outside == {"answer", "register", "ready", "send", "sync"} \cup Stub11

\* Words of a FIFO behind the first n.
Behind(s, n, W) == \A i \in n + 1 .. Len(s) : s[i] \in W
\* The answer to the handshake may still be before the first command.
Off == IF pc9 = "answer" THEN 1 ELSE 0
SentArgs == IF pc11 = "args" THEN sent ELSE Args[cmd]

\* Each side flushes before it sends, and waits for the other's word.
LinkPcs ==
  /\ pc9 \in {"init", "hello"} => pc11 \in {"init", "hello"}
  /\ pc11 \in Unlinked11 => pc9 \in {"init", "hello", "answer"}
  /\ pc9 \in Masked9 => h9 = "none"
  /\ pc11 \in Masked11 => h11 = "none"
LinkWords11 ==
  /\ pc9 = "hello" => Len(to11) = 0
  /\ pc11 \in {"init", "hello"} /\ pc9 \notin {"init", "hello"} =>
       Len(to11) = 1 /\ to11[1] = Hello99
  /\ pc9 = "init" => Behind(to11, 0, {OldWord})
LinkWords9 ==
  /\ pc11 = "init" => Behind(to9, 0, {OldWord})
  /\ pc11 \in {"hello", "answer"} => Len(to9) = 0
  /\ pc11 \notin Unlinked11 /\ pc9 = "answer" => Len(to9) > 0 /\ to9[1] = Hello11Word
HandshakeOK == LinkPcs /\ LinkWords11 /\ LinkWords9

\* One call at a time, and the ARM9 is never ahead of it.
CountOK ==
  /\ served <= call
  /\ pc11 \notin Calling11 => served = call
  /\ pc11 \in {"send", "sync"} => served # call
  /\ pc11 \in Calling11 \cup Stub11 => cmd \in Cmds
  /\ pc11 \in Init11 => cmd = NoCmd
  /\ pc9 \in Init9 => served = 0
  /\ pc11 \in Calling11 \cup Stub11 => call > 0
  /\ pc11 = "args" => sent <= Args[cmd]

\* The words on their way to the ARM9 are those of the call that are sent and
\* not read.
CallsOK ==
  ~Dead /\ pc11 \notin Panic11s =>
    /\ pc11 \notin Body => h9 = "none" /\ ~sync9
    /\ pc11 \in {"register", "ready", "send", "stub"} => Len(to9) = Off
    /\ pc11 \in {"entry", "got"} => Behind(to9, 0, {ReadyWord})
    /\ pc11 = "gone" => Behind(to9, 0, {ReadyWord, GotWord})
    /\ pc11 = "sync" => Len(to9) = Off + 1 /\ to9[Off + 1] = CmdWord
    /\ pc11 \in Body /\ served # call =>
         \/ /\ h9 \in {"none", "code"} /\ (h9 = "code" => ~sync9)
            /\ Len(to9) = Off + 1 + SentArgs /\ to9[Off + 1] = CmdWord
         \/ /\ h9 \in {"args", "exec"} /\ ~sync9
            /\ in9[1] = CmdWord /\ in9[2] <= Args[cmd]
            /\ in9[2] + Len(to9) = SentArgs
            /\ h9 = "exec" => in9[2] = Args[cmd]
    /\ pc11 \in Body \cup {"take"} /\ served = call =>
         /\ Len(to9) = 0 /\ ~sync9 /\ SentArgs = Args[cmd]
         /\ h9 \in {"resp", "result", "done", "none"}
         /\ h9 \in {"resp", "result"} => in9[1] = CmdWord

\* The ARM11 panics between calls: its word is alone, and the interrupt of the panic
\* finds no handler running.
PanicsOK ==
  ~Dead /\ pc11 \in Panic11s =>
    /\ Behind(to9, Off, {PanicWord})
    /\ h9 \in {"args", "exec"} => in9[1] = PanicWord
    /\ h9 \in {"resp", "result"} => in9[1] \in {CmdWord, PanicWord}
    /\ h9 \in Handling9 => ~sync9
    /\ pc11 \in {"panic", "assert", "panicSync", "assertSync"} =>
         h9 \notin Handling9 /\ ~sync9

\* Behind the first n words to the ARM11 is what a dead ARM9 or its stub sent.
Extra(n) ==
  /\ Len(to11) >= n /\ Behind(to11, n, {PanicWord, EntryWord})
  /\ Dead \/ pc9 \in {"confirm", "gone"} \/ Len(to11) = n
Quiet11 == Dead \/ (~sync11 /\ h11 = "none")
NoReply == resp[1] = NoCmd /\ h11 # "result" /\ Quiet11

\* The response is on its way, half read, or read; and it is that of the call.
Coming11 ==
  /\ resp[1] = NoCmd /\ h11 \in {"none", "code"}
  /\ Extra(2) /\ to11[1] = RespWord /\ to11[2] = ResultWord
  /\ Dead \/ ~(sync11 /\ h11 = "code")
HalfRead ==
  /\ resp[1] = cmd /\ h11 = "result" /\ Extra(1) /\ to11[1] = ResultWord
  /\ Dead \/ ~sync11
Read11 == resp = <<cmd, call>> /\ h11 # "result" /\ Extra(0) /\ Quiet11

RepliesOK ==
  /\ pc11 \in {"init", "hello"} => NoReply
  /\ pc11 \in Outside => NoReply /\ Extra(0)
  /\ pc11 \in Body =>
       \/ (served # call \/ h9 = "resp") /\ NoReply /\ Extra(0)
       \/ /\ served = call /\ h9 \in {"result", "done"} /\ NoReply
          /\ Len(to11) = IF h9 = "result" THEN 1 ELSE 2
          /\ to11[1] = RespWord /\ (h9 = "done" => to11[2] = ResultWord)
       \/ served = call /\ (h9 = "none" \/ Dead) /\ (Coming11 \/ HalfRead \/ Read11)
  /\ pc11 = "take" => served = call /\ (h9 = "none" \/ Dead) /\ Read11
  /\ h11 \in {"panicResp", "panicResult", "panicDone"} => Dead

\* The ARM9 is in its stub for the last call, and ahead of the ARM11's only as
\* far as the words say.
LaunchOK ==
  /\ g_startFirmLaunch =>
       /\ cmd = Launch /\ served = call
       /\ pc11 \in Body \cup {"take"} \cup Stub11 \cup Panic11s
  /\ pc9 \in Stub9 => g_startFirmLaunch
  /\ pc9 \in {"copy", "entry"} => pc11 = "entry"
  /\ pc9 = "confirm" => pc11 \in {"entry", "got", "gone"}
  /\ pc9 = "gone" => pc11 = "gone"
  /\ pc11 \in {"got", "gone"} => Dead \/ pc9 \in {"confirm", "gone"}

\* What holds until the ARM11 panics inside a call.
PxiPlain ==
  /\ ~cut
  /\ PxiTypeOK /\ HandshakeOK /\ CountOK /\ CallsOK /\ PanicsOK /\ RepliesOK /\ LaunchOK

\* After such a panic words are misread and handlers nest.  What is left is who
\* can still raise an interrupt, and that no word is taken for that of the stub.
NoReady ==
  pc11 \notin {"entry", "got", "gone"} => \A i \in 1 .. Len(to9) : to9[i][1] # "ready"
NestOK ==
  /\ outer # <<>> => cut /\ ~sync9 /\ pc11 \in {"panicWait", "halted"}
  /\ cut => pc11 \in {"panic", "panicSync", "panicWait", "halted"}
  /\ cut /\ pc11 \in {"panic", "panicSync"} /\ h9 \in Handling9 => ~sync9
  /\ ~cut => ~resumed /\ h9 # "skip"
CutOK == cut => pc9 \notin {"copy", "entry", "confirm", "gone"}

PxiIInv == PxiTypeOK /\ LinkPcs /\ NoReady /\ NestOK /\ CutOK /\ (~cut => PxiPlain)

-----------------------------------------------------------------------------
(* What the words of a FIFO are after a send and a receive.                *)

Sent(s, t, w) ==
  /\ Len(s) \in Nat /\ Len(t) = Len(s) + 1
  /\ t[Len(s) + 1] = w /\ \A i \in 1 .. Len(s) : t[i] = s[i]
Received(s, t) ==
  /\ Len(s) \in Nat \ {0} /\ Head(s) = s[1] /\ Head(s) \in Word
  /\ Len(t) = Len(s) - 1 /\ \A i \in 1 .. Len(t) : t[i] = s[i + 1]

\* Append and Tail, as the sends and receives use them.
LEMMA AppendSends ==
  ASSUME NEW S, NEW s \in Seq(S), NEW w
  PROVE  Sent(s, Append(s, w), w) /\ (w \in S => Append(s, w) \in Seq(S))
<1>1. s \in Seq(S \cup {w})
  OBVIOUS
<1> QED
  BY <1>1, AppendProperties DEF Sent

LEMMA TailReceives ==
  ASSUME NEW s \in Seq(Word), s # <<>>
  PROVE  Received(s, Tail(s)) /\ Tail(s) \in Seq(Word)
<1>1. /\ Head(s) \in Word /\ Tail(s) \in Seq(Word)
      /\ Len(Tail(s)) = Len(s) - 1
      /\ \A i \in 1 .. Len(Tail(s)) : Tail(s)[i] = s[i + 1]
  BY HeadTailProperties
<1>2. Len(s) \in Nat /\ Len(s) > 0
  BY EmptySeq, LenProperties
<1>3. Head(s) = s[1]
  OBVIOUS
<1> QED
  BY <1>1, <1>2, <1>3 DEF Received

\* The four accesses to the FIFOs.
LEMMA Send9Sends ==
  ASSUME PxiTypeOK, NEW w, Send9(w)
  PROVE  /\ Sent(to9, to9', w) /\ to11' = to11 /\ Len(to9') <= FifoWords
         /\ w \in Word => to9' \in Seq(Word)
<1>1. to9 \in Seq(Word) /\ Len(to9) \in Nat
  BY LenProperties DEF PxiTypeOK
<1>2. /\ Sent(to9, to9', w) /\ to11' = to11
      /\ w \in Word => to9' \in Seq(Word)
  BY <1>1, AppendSends DEF Send9
<1>3. Len(to9') <= FifoWords
  BY <1>1, <1>2, FifoAssumption DEF Send9, Sent
<1> QED
  BY <1>2, <1>3

LEMMA Send11Sends ==
  ASSUME PxiTypeOK, NEW w, Send11(w)
  PROVE  /\ Sent(to11, to11', w) /\ to9' = to9 /\ Len(to11') <= FifoWords
         /\ w \in Word => to11' \in Seq(Word)
<1>1. to11 \in Seq(Word) /\ Len(to11) \in Nat
  BY LenProperties DEF PxiTypeOK
<1>2. /\ Sent(to11, to11', w) /\ to9' = to9
      /\ w \in Word => to11' \in Seq(Word)
  BY <1>1, AppendSends DEF Send11
<1>3. Len(to11') <= FifoWords
  BY <1>1, <1>2, FifoAssumption DEF Send11, Sent
<1> QED
  BY <1>2, <1>3

LEMMA Recv9Receives ==
  ASSUME PxiTypeOK, Recv9
  PROVE  Received(to9, to9') /\ to11' = to11 /\ to9' \in Seq(Word) /\ Len(to9') <= FifoWords
<1>1. to9 \in Seq(Word) /\ Len(to9) \in Nat /\ Len(to9) <= FifoWords
  BY LenProperties DEF PxiTypeOK
<1>2. Received(to9, to9') /\ to11' = to11 /\ to9' \in Seq(Word)
  BY <1>1, TailReceives DEF Recv9
<1> QED
  BY <1>1, <1>2, FifoAssumption DEF Received

LEMMA Recv11Receives ==
  ASSUME PxiTypeOK, Recv11
  PROVE  Received(to11, to11') /\ to9' = to9 /\ to11' \in Seq(Word) /\ Len(to11') <= FifoWords
<1>1. to11 \in Seq(Word) /\ Len(to11) \in Nat /\ Len(to11) <= FifoWords
  BY LenProperties DEF PxiTypeOK
<1>2. Received(to11, to11') /\ to9' = to9 /\ to11' \in Seq(Word)
  BY <1>1, TailReceives DEF Recv11
<1> QED
  BY <1>1, <1>2, FifoAssumption DEF Received

-----------------------------------------------------------------------------
(* Types, in parts.                                                        *)

Flags ==
  /\ {sync9, sync11, screens, g_startFirmLaunch, deinit, cut} \subseteq BOOLEAN
  /\ {resumed, eaten} \subseteq BOOLEAN
Places ==
  /\ pc11 \in {"ready"} \cup Calling11 \cup Masked11
  /\ h11 \in {"none", "code", "result", "panicResp", "panicResult", "panicDone"}
  /\ pc9 \in {"check", "wfi", "asleep"} \cup Masked9
  /\ h9 \in {"none"} \cup Handling9 \cup Panic9
Queues ==
  /\ to9 \in Seq(Word) /\ Len(to9) <= FifoWords
  /\ to11 \in Seq(Word) /\ Len(to11) <= FifoWords
Data ==
  /\ served \in Nat
  /\ cmd \in Cmds \cup {NoCmd} /\ call \in 0 .. MaxCalls /\ sent \in Nat
  /\ resp \in (Cmds \cup {NoCmd}) \X (0 .. MaxCalls)
  /\ in9 \in Word \X Nat
Suspended == outer \in Seq(Handling9 \X (Word \X Nat)) /\ Len(outer) <= 1

\* The type invariant in five parts, which different actions touch.
LEMMA TypeParts == PxiTypeOK <=> Flags /\ Places /\ Queues /\ Data /\ Suspended
<1> HIDE DEF Word, Handling9
<1> QED
  BY DEF PxiTypeOK, Flags, Places, Queues, Data, Suspended

-----------------------------------------------------------------------------
(* The steps, by what they are for, and the five that are different after  *)
(* a panic inside a call.                                                  *)

PlainEnter9 == Enter9 /\ Thread9
PlainRecvCode == RecvCode /\ Head(to9)[1] = "cmd"
PlainExecute == Execute /\ in9[1][1] = "cmd"
PlainSyncResp == SyncResp /\ outer = <<>>
PlainPanic11 == Panic11 /\ pc11 = "ready"

Link11 == Flush11 \/ Hello11 \/ Answer11 \/ Register11
Sending11 == SendCmd \/ SyncCmd \/ SendArg \/ AllSent
Awaiting11 == CheckResp \/ Wfi11 \/ OtherIrq11 \/ GfxSwitch
Reply11 == Enter11 \/ RespCode \/ RespResult
AnswerPanic11 == PanicCode \/ PanicResp11 \/ PanicResult11 \/ PanicSync11
Launching11 == StubReady \/ StubEntry \/ StubGot
Dying11 == PlainPanic11 \/ Assert11 \/ PanicSend11 \/ PanicSyncReq11 \/ PanicDrain11
Link9 == Flush9 \/ Hello9 \/ Answer9 \/ Register9
Command9 == PlainEnter9 \/ PlainRecvCode \/ RecvArgs
Reply9 == SendResp \/ SendResult \/ PlainSyncResp
Loop9 == CheckLaunch \/ Wfi9 \/ OtherIrq9
Launching9 == AwaitReady \/ CopySections \/ SendEntry \/ AwaitGot
Dying9 == PanicStart9 \/ Assert9 \/ PanicSend9 \/ PanicSync9 \/ PanicDrain9

\* The steps of the link as long as no call is cut.
PlainNext ==
  \/ Link11 \/ (\E c \in Cmds : Call(c)) \/ Sending11 \/ Awaiting11 \/ TakeResp
  \/ Reply11 \/ AnswerPanic11 \/ Launching11 \/ Dying11
  \/ Link9 \/ Command9 \/ PlainExecute \/ Reply9 \/ Loop9 \/ Launching9 \/ Dying9

\* The counters are numbers, also where an action does not say so.
LEMMA Numbers ==
  ASSUME PxiPlain
  PROVE  /\ call \in Nat /\ served \in Nat /\ sent \in Nat /\ in9[2] \in Nat
         /\ Len(to9) \in Nat /\ Len(to11) \in Nat
         /\ \A c \in Cmds : Args[c] \in Nat
         /\ Launch \in Cmds /\ Args[Launch] = 0 /\ NoCmd \notin Cmds /\ Panic \notin Cmds
         /\ NoCmd # Panic
         /\ cmd \in Cmds \cup {NoCmd}
<1>1. /\ call \in 0 .. MaxCalls /\ served \in Nat /\ sent \in Nat
      /\ in9 \in Word \X Nat
      /\ to9 \in Seq(Word) /\ to11 \in Seq(Word) /\ cmd \in Cmds \cup {NoCmd}
  BY DEF PxiPlain, PxiTypeOK
<1>2. call \in Nat /\ served \in Nat /\ in9[2] \in Nat
  BY <1>1, FifoAssumption
<1>3. Len(to9) \in Nat /\ Len(to11) \in Nat
  BY <1>1, LenProperties
<1> QED
  BY <1>1, <1>2, <1>3, CmdAssumption, ArgAssumption DEF NoCmd, Panic

\* A call has a command.
LEMMA InCall ==
  ASSUME PxiPlain, pc11 \in Calling11 \cup Stub11
  PROVE  /\ cmd \in Cmds /\ Args[cmd] \in Nat /\ call > 0
         /\ SentArgs \in Nat /\ SentArgs <= Args[cmd]
  BY Numbers DEF PxiPlain, CountOK, SentArgs

-----------------------------------------------------------------------------
(* The handshake.                                                          *)

\* Neither side can pass the handshake before the other flushed.
LEMMA LinkPcsStep == ASSUME PxiPlain, PlainNext PROVE LinkPcs'
<1>1. CASE Link11
  BY <1>1, Recv11Receives DEF Link11, Flush11, Hello11, Answer11, Register11, LinkPcs,
     HandshakeOK, LinkWords11, LinkWords9, Sent, Received, Behind, Masked11, Masked9,
     Unlinked11, Hello99, OldWord, Hello11Word, Init11, Init9, Panic11s, Woken,
     Thread11, Thread9, PxiPlain, fifos, arm9, arm11, flags
<1>2. CASE \E c \in Cmds : Call(c)
  BY <1>2 DEF Call, LinkPcs, HandshakeOK, Received, Behind, Masked11, Masked9,
     Unlinked11, Hello99, OldWord, Hello11Word, Init11, Init9, Panic11s, Woken,
     Thread11, Thread9, PxiPlain, fifos, arm9, arm11, flags
<1>3. CASE Sending11
  BY <1>3 DEF Sending11, SendCmd, SyncCmd, SendArg, AllSent, LinkPcs, HandshakeOK,
     Masked11, Masked9, Unlinked11, Hello99, OldWord, Hello11Word, Init11, Init9,
     Panic11s, Woken, Thread11, Thread9, PxiPlain, fifos, arm9, arm11, flags
<1>4. CASE Awaiting11
  BY <1>4 DEF Awaiting11, CheckResp, Wfi11, OtherIrq11, GfxSwitch, LinkPcs, HandshakeOK,
     Masked11, Masked9, Unlinked11, Hello99, OldWord, Hello11Word, Init11, Init9,
     Panic11s, Woken, Thread11, Thread9, PxiPlain, fifos, arm9, arm11, flags
<1>5. CASE TakeResp
  BY <1>5 DEF TakeResp, LinkPcs, HandshakeOK, Received, Behind, Masked11, Masked9,
     Unlinked11, Hello99, OldWord, Hello11Word, Init11, Init9, Panic11s, Woken,
     Thread11, Thread9, PxiPlain, fifos, arm9, arm11, flags
<1>6. CASE Reply11
  BY <1>6 DEF Reply11, Enter11, RespCode, RespResult, LinkPcs, HandshakeOK, Masked11,
     Unlinked11, Hello99, OldWord, Hello11Word, Init11, Init9, Panic11s, Woken,
     Thread11, Thread9, PxiPlain, fifos, arm9, arm11, flags
<1>7. CASE AnswerPanic11
  BY <1>7 DEF AnswerPanic11, PanicCode, PanicResp11, PanicResult11, PanicSync11,
     LinkPcs, HandshakeOK, Masked11, Masked9, Unlinked11, Hello99, OldWord, Hello11Word,
     Init11, Init9, Panic11s, Woken, Thread11, Thread9, PxiPlain, fifos, arm9, arm11,
     flags
<1>8. CASE Launching11
  BY <1>8 DEF Launching11, StubReady, StubEntry, StubGot, LinkPcs, HandshakeOK,
     Masked11, Unlinked11, Hello99, OldWord, Hello11Word, Init11, Init9, Panic11s,
     Woken, Thread11, Thread9, PxiPlain, fifos, arm9, arm11, flags
<1>9. CASE Dying11
  BY <1>9 DEF Dying11, PlainPanic11, Panic11, Assert11, PanicSend11, PanicSyncReq11,
       PanicDrain11,
     LinkPcs, HandshakeOK, Received, Behind, Masked11, Masked9, Unlinked11, Hello99,
     OldWord, Hello11Word, Init11, Init9, Panic11s, Woken, Thread11, Thread9, PxiPlain,
     fifos, arm9, arm11, flags
<1>10. CASE Link9
  BY <1>10, Recv9Receives DEF Link9, Flush9, Hello9, Answer9, Register9, LinkPcs,
     HandshakeOK, LinkWords11, LinkWords9, Sent, Received, Behind, Masked11, Masked9,
     Unlinked11, Hello99, OldWord, Hello11Word, Init11, Init9, Panic11s, Woken,
     Thread11, Thread9, PxiPlain, fifos, arm9, arm11, flags
<1>11. CASE Command9
  BY <1>11 DEF Command9, PlainEnter9, Enter9, PlainRecvCode, RecvCode, RecvArgs, LinkPcs,
       HandshakeOK, Masked9,
     Unlinked11, Hello99, OldWord, Hello11Word, Init11, Init9, Panic11s, Woken,
     Thread11, Thread9, PxiPlain, fifos, arm9, arm11, flags
<1>12. CASE PlainExecute
  BY <1>12 DEF PlainExecute, Execute, LinkPcs, HandshakeOK, Panic11s, Woken, Thread11,
       Thread9,
     PxiPlain, fifos, arm9, arm11, flags
<1>13. CASE Reply9
  BY <1>13 DEF Reply9, SendResp, SendResult, PlainSyncResp, SyncResp, Return9, LinkPcs,
       HandshakeOK, Unlinked11,
     Hello99, OldWord, Hello11Word, Init11, Init9, Panic11s, Woken, Thread11, Thread9,
     PxiPlain, fifos, arm9, arm11, flags
<1>14. CASE Loop9
  BY <1>14 DEF Loop9, CheckLaunch, Wfi9, OtherIrq9, LinkPcs, HandshakeOK, Masked11,
     Masked9, Unlinked11, Hello99, OldWord, Hello11Word, Init11, Init9, Panic11s, Woken,
     Thread11, Thread9, PxiPlain, fifos, arm9, arm11, flags
<1>15. CASE Launching9
  BY <1>15 DEF Launching9, AwaitReady, CopySections, SendEntry, AwaitGot, LinkPcs,
     HandshakeOK, Masked11, Masked9, Unlinked11, Hello99, OldWord, Hello11Word, Init11,
     Init9, Panic11s, Woken, Thread11, Thread9, PxiPlain, fifos, arm9, arm11, flags
<1>16. CASE Dying9
  BY <1>16 DEF Dying9, PanicStart9, PanicIn9, Assert9, PanicSend9, PanicSync9, PanicDrain9,
     LinkPcs, HandshakeOK, Received, Behind, Masked11, Masked9, Unlinked11, Hello99,
     OldWord, Hello11Word, Init11, Init9, Panic11s, Woken, Thread11, Thread9, PxiPlain,
     fifos, arm9, arm11, flags
<1> QED
  BY <1>1, <1>2, <1>3, <1>4, <1>5, <1>6, <1>7, <1>8, <1>9, <1>10, <1>11, <1>12, <1>13,
     <1>14, <1>15, <1>16 DEF PlainNext

\* The greeting of the ARM9 is the first word the ARM11 reads.
LEMMA LinkWords11Step == ASSUME PxiPlain, PlainNext PROVE LinkWords11'
<1>1. CASE Link11
  BY <1>1, Recv11Receives DEF Link11, Flush11, Hello11, Answer11, Register11,
     LinkWords11, HandshakeOK, LinkPcs, Received, Behind, Masked11, Masked9, Unlinked11,
     Hello99, OldWord, Hello11Word, Init11, Init9, Panic11s, Woken, Thread11, Thread9,
     PxiPlain, fifos, arm9, arm11, flags
<1>2. CASE \E c \in Cmds : Call(c)
  BY <1>2 DEF Call, LinkWords11, HandshakeOK, Init11, Init9, Panic11s, Woken, Thread11,
     Thread9, PxiPlain, fifos, arm9, arm11, flags
<1>3. CASE Sending11
  BY <1>3 DEF Sending11, SendCmd, SyncCmd, SendArg, AllSent, LinkWords11, HandshakeOK,
     LinkPcs, Received, Behind, Masked11, Masked9, Unlinked11, Hello99, OldWord,
     Hello11Word, Init11, Init9, Panic11s, Woken, Thread11, Thread9, PxiPlain, fifos,
     arm9, arm11, flags
<1>4. CASE Awaiting11
  BY <1>4 DEF Awaiting11, CheckResp, Wfi11, OtherIrq11, GfxSwitch, LinkWords11,
     HandshakeOK, Received, Behind, Masked11, Masked9, Unlinked11, Hello99, OldWord,
     Hello11Word, Init11, Init9, Panic11s, Woken, Thread11, Thread9, PxiPlain, fifos,
     arm9, arm11, flags
<1>5. CASE TakeResp
  BY <1>5 DEF TakeResp, LinkWords11, HandshakeOK, Init11, Init9, Panic11s, Woken,
     Thread11, Thread9, PxiPlain, fifos, arm9, arm11, flags
<1>6. CASE Reply11
  BY <1>6 DEF Reply11, Enter11, RespCode, RespResult, LinkWords11, HandshakeOK, LinkPcs,
     Behind, Masked11, Masked9, Unlinked11, Hello99, OldWord, Hello11Word, Init11,
     Init9, Panic11s, Woken, Thread11, Thread9, PxiPlain, fifos, arm9, arm11, flags
<1>7. CASE AnswerPanic11
  BY <1>7 DEF AnswerPanic11, PanicCode, PanicResp11, PanicResult11, PanicSync11,
     LinkWords11, HandshakeOK, LinkPcs, Received, Behind, Masked11, Masked9, Unlinked11,
     Hello99, OldWord, Hello11Word, Init11, Init9, Panic11s, Woken, Thread11, Thread9,
     PxiPlain, fifos, arm9, arm11, flags
<1>8. CASE Launching11
  BY <1>8 DEF Launching11, StubReady, StubEntry, StubGot, LinkWords11, HandshakeOK,
     LinkPcs, Behind, Masked11, Masked9, Unlinked11, Hello99, OldWord, Hello11Word,
     Init11, Init9, Panic11s, Woken, Thread11, Thread9, PxiPlain, fifos, arm9, arm11,
     flags
<1>9. CASE Dying11
  BY <1>9 DEF Dying11, PlainPanic11, Panic11, Assert11, PanicSend11, PanicSyncReq11,
       PanicDrain11,
     LinkWords11, HandshakeOK, LinkPcs, Sent, Received, Behind, Masked11, Masked9,
     Unlinked11, Hello99, OldWord, Hello11Word, Init11, Init9, Panic11s, Woken,
     Thread11, Thread9, PxiPlain, fifos, arm9, arm11, flags
<1>10. CASE Link9
  <2>1. CASE Flush9
    BY <2>1 DEF Flush9, LinkWords11, Init9, Panic11s, Woken, Thread11, Thread9, PxiPlain,
       fifos, arm9, arm11, flags
  <2>2. CASE Hello9
    BY <2>2, Send11Sends DEF Hello9, LinkWords11, HandshakeOK, Sent, Hello99, OldWord,
       Hello11Word, Init11, Init9, Panic11s, Woken, Thread11, Thread9, PxiPlain, fifos,
       arm9, arm11, flags
  <2>3. CASE Answer9
    BY <2>3, Recv9Receives DEF Answer9, LinkWords11, HandshakeOK, Hello11Word, Init11,
       Init9, Panic11s, Woken, Thread11, Thread9, PxiPlain, fifos, arm9, arm11, flags
  <2>4. CASE Register9
    BY <2>4 DEF Register9, LinkWords11, HandshakeOK, Init11, Init9, Panic11s, Woken,
       Thread11, Thread9, PxiPlain, fifos, arm9, arm11, flags
  <2> QED
    BY <1>10, <2>1, <2>2, <2>3, <2>4 DEF Link9
<1>11. CASE Command9
  BY <1>11 DEF Command9, PlainEnter9, Enter9, PlainRecvCode, RecvCode, RecvArgs,
       LinkWords11, HandshakeOK, LinkPcs,
     Behind, Masked11, Masked9, Unlinked11, Hello99, OldWord, Hello11Word, Init11,
     Init9, Panic11s, Woken, Thread11, Thread9, PxiPlain, fifos, arm9, arm11, flags
<1>12. CASE PlainExecute
  BY <1>12 DEF PlainExecute, Execute, LinkWords11, HandshakeOK, Init11, Init9, Panic11s,
       Woken,
     Thread11, Thread9, PxiPlain, fifos, arm9, arm11, flags
<1>13. CASE Reply9
  BY <1>13 DEF Reply9, SendResp, SendResult, PlainSyncResp, SyncResp, Return9,
       LinkWords11, HandshakeOK,
     LinkPcs, Behind, Masked11, Masked9, Unlinked11, Hello99, OldWord, Hello11Word,
     Init11, Init9, Panic11s, Woken, Thread11, Thread9, PxiPlain, fifos, arm9, arm11,
     flags
<1>14. CASE Loop9
  BY <1>14 DEF Loop9, CheckLaunch, Wfi9, OtherIrq9, LinkWords11, HandshakeOK, Masked11,
     Masked9, Unlinked11, Hello99, OldWord, Hello11Word, Init11, Init9, Panic11s, Woken,
     Thread11, Thread9, PxiPlain, fifos, arm9, arm11, flags
<1>15. CASE Launching9
  BY <1>15 DEF Launching9, AwaitReady, CopySections, SendEntry, AwaitGot, LinkWords11,
     HandshakeOK, LinkPcs, Received, Behind, Masked11, Masked9, Unlinked11, Hello99,
     OldWord, Hello11Word, Init11, Init9, Panic11s, Woken, Thread11, Thread9, PxiPlain,
     fifos, arm9, arm11, flags
<1>16. CASE Dying9
  BY <1>16 DEF Dying9, PanicStart9, PanicIn9, Assert9, PanicSend9, PanicSync9, PanicDrain9,
     LinkWords11, HandshakeOK, LinkPcs, Sent, Received, Behind, Masked11, Masked9,
     Unlinked11, Hello99, OldWord, Hello11Word, Init11, Init9, Panic11s, Woken,
     Thread11, Thread9, PxiPlain, fifos, arm9, arm11, flags
<1> QED
  BY <1>1, <1>2, <1>3, <1>4, <1>5, <1>6, <1>7, <1>8, <1>9, <1>10, <1>11, <1>12, <1>13,
     <1>14, <1>15, <1>16 DEF PlainNext

\* The greeting of the ARM11 comes before its commands.
LEMMA LinkWords9Step == ASSUME PxiPlain, PlainNext PROVE LinkWords9'
<1>1. CASE Link11
  BY <1>1, Send9Sends, Recv11Receives DEF Link11, Flush11, Hello11, Answer11,
     Register11, LinkWords9, HandshakeOK, LinkPcs, LinkWords11, Sent, Received, Behind,
     Masked11, Masked9, Unlinked11, Hello99, OldWord, Hello11Word, Init11, Init9,
     Panic11s, Woken, Thread11, Thread9, PxiPlain, fifos, arm9, arm11, flags
<1>2. CASE \E c \in Cmds : Call(c)
  BY <1>2 DEF Call, LinkWords9, HandshakeOK, Unlinked11, Init11, Init9, Panic11s, Woken,
     Thread11, Thread9, PxiPlain, fifos, arm9, arm11, flags
<1>3. CASE Sending11
  BY <1>3, Send9Sends DEF Sending11, SendCmd, SyncCmd, SendArg, AllSent, LinkWords9,
     HandshakeOK, LinkPcs, LinkWords11, Sent, Received, Behind, Masked11, Masked9,
     Unlinked11, Hello99, OldWord, Hello11Word, Init11, Init9, Panic11s, Woken,
     Thread11, Thread9, PxiPlain, fifos, arm9, arm11, flags
<1>4. CASE Awaiting11
  BY <1>4 DEF Awaiting11, CheckResp, Wfi11, OtherIrq11, GfxSwitch, LinkWords9,
     HandshakeOK, Received, Behind, Masked11, Masked9, Unlinked11, Hello99, OldWord,
     Hello11Word, Init11, Init9, Panic11s, Woken, Thread11, Thread9, PxiPlain, fifos,
     arm9, arm11, flags
<1>5. CASE TakeResp
  BY <1>5 DEF TakeResp, LinkWords9, HandshakeOK, Unlinked11, Init11, Init9, Panic11s,
     Woken, Thread11, Thread9, PxiPlain, fifos, arm9, arm11, flags
<1>6. CASE Reply11
  BY <1>6, Recv11Receives DEF Reply11, Enter11, RespCode, RespResult, LinkWords9,
     HandshakeOK, Behind, Masked11, Masked9, Unlinked11, Hello99, OldWord, Hello11Word,
     Init11, Init9, Panic11s, Woken, Thread11, Thread9, PxiPlain, fifos, arm9, arm11,
     flags
<1>7. CASE AnswerPanic11
  BY <1>7, Send9Sends, Recv11Receives DEF AnswerPanic11, PanicCode, PanicResp11,
     PanicResult11, PanicSync11, LinkWords9, HandshakeOK, LinkPcs, LinkWords11, Sent,
     Received, Behind, Masked11, Masked9, Unlinked11, Hello99, OldWord, Hello11Word,
     Init11, Init9, Panic11s, Woken, Thread11, Thread9, PxiPlain, fifos, arm9, arm11,
     flags
<1>8. CASE Launching11
  BY <1>8, Send9Sends, Recv11Receives DEF Launching11, StubReady, StubEntry, StubGot,
     LinkWords9, HandshakeOK, Sent, Behind, Masked11, Masked9, Unlinked11, Hello99,
     OldWord, Hello11Word, Init11, Init9, Panic11s, Woken, Thread11, Thread9, PxiPlain,
     fifos, arm9, arm11, flags
<1>9. CASE Dying11
  BY <1>9, Send9Sends, Recv11Receives DEF Dying11, PlainPanic11, Panic11, Assert11,
       PanicSend11,
     PanicSyncReq11, PanicDrain11, LinkWords9, HandshakeOK, LinkPcs, LinkWords11, Sent,
     Received, Behind, Masked11, Masked9, Unlinked11, Hello99, OldWord, Hello11Word,
     Init11, Init9, Panic11s, Woken, Thread11, Thread9, PxiPlain, fifos, arm9, arm11,
     flags
<1>10. CASE Link9
  <2>1. CASE Flush9 \/ Hello9 \/ Register9
    <3>1. /\ to9' = to9 /\ pc11' = pc11
          /\ pc9' = "answer" => pc11 \in {"init", "hello"}
      BY <2>1, Send11Sends DEF Flush9, Hello9, Register9, PxiPlain, HandshakeOK, LinkPcs,
         fifos, arm11
    <3> QED
      BY <3>1 DEF PxiPlain, HandshakeOK, LinkWords9, Behind, Unlinked11, OldWord
  <2>2. CASE Answer9
    <3>1. /\ Received(to9, to9') /\ pc9 = "answer" /\ pc11' = pc11
          /\ pc9' = IF Head(to9)[1] = "11" THEN "register" ELSE pc9
      BY <2>2, Recv9Receives DEF Answer9, PxiPlain, arm11
    <3>2. pc11 \notin {"hello", "answer"}
      BY <3>1 DEF PxiPlain, HandshakeOK, LinkWords9, Received
    <3>3. pc11 = "init" => Behind(to9', 0, {OldWord})
      BY <3>1 DEF PxiPlain, HandshakeOK, LinkWords9, Received, Behind
    <3>4. pc11 \notin Unlinked11 => pc9' = "register"
      BY <3>1 DEF PxiPlain, HandshakeOK, LinkWords9, Received, Hello11Word
    <3> QED
      BY <3>1, <3>2, <3>3, <3>4 DEF LinkWords9, OldWord, Behind
  <2> QED
    BY <1>10, <2>1, <2>2 DEF Link9
<1>11. CASE Command9
  BY <1>11 DEF Command9, PlainEnter9, Enter9, PlainRecvCode, RecvCode, RecvArgs,
       LinkWords9, HandshakeOK, LinkPcs,
     Behind, Masked11, Masked9, Unlinked11, Hello99, OldWord, Hello11Word, Init11,
     Init9, Panic11s, Woken, Thread11, Thread9, PxiPlain, fifos, arm9, arm11, flags
<1>12. CASE PlainExecute
  BY <1>12 DEF PlainExecute, Execute, LinkWords9, HandshakeOK, Init11, Init9, Panic11s,
       Woken,
     Thread11, Thread9, PxiPlain, fifos, arm9, arm11, flags
<1>13. CASE Reply9
  BY <1>13 DEF Reply9, SendResp, SendResult, PlainSyncResp, SyncResp, Return9,
       LinkWords9, HandshakeOK, LinkPcs,
     Behind, Masked11, Masked9, Unlinked11, Hello99, OldWord, Hello11Word, Init11,
     Init9, Panic11s, Woken, Thread11, Thread9, PxiPlain, fifos, arm9, arm11, flags
<1>14. CASE Loop9
  BY <1>14 DEF Loop9, CheckLaunch, Wfi9, OtherIrq9, LinkWords9, HandshakeOK, Masked11,
     Masked9, Unlinked11, Hello99, OldWord, Hello11Word, Init11, Init9, Panic11s, Woken,
     Thread11, Thread9, PxiPlain, fifos, arm9, arm11, flags
<1>15. CASE Launching9
  BY <1>15 DEF Launching9, AwaitReady, CopySections, SendEntry, AwaitGot, LinkWords9,
     HandshakeOK, LinkPcs, Received, Behind, Masked11, Masked9, Unlinked11, Hello99,
     OldWord, Hello11Word, Init11, Init9, Panic11s, Woken, Thread11, Thread9, PxiPlain,
     fifos, arm9, arm11, flags
<1>16. CASE Dying9
  BY <1>16 DEF Dying9, PanicStart9, PanicIn9, Assert9, PanicSend9, PanicSync9, PanicDrain9,
     LinkWords9, HandshakeOK, LinkPcs, LinkWords11, Sent, Received, Behind, Masked11,
     Masked9, Unlinked11, Hello99, OldWord, Hello11Word, Init11, Init9, Panic11s, Woken,
     Thread11, Thread9, PxiPlain, fifos, arm9, arm11, flags
<1> QED
  BY <1>1, <1>2, <1>3, <1>4, <1>5, <1>6, <1>7, <1>8, <1>9, <1>10, <1>11, <1>12, <1>13,
     <1>14, <1>15, <1>16 DEF PlainNext

LEMMA HandshakeStep == ASSUME PxiPlain, PlainNext PROVE HandshakeOK'
  BY LinkPcsStep, LinkWords11Step, LinkWords9Step
     DEF HandshakeOK, LinkPcs, LinkWords11, LinkWords9

-----------------------------------------------------------------------------
(* Calls are counted.                                                      *)

\* No command is executed before its call, or twice.
LEMMA CountStep == ASSUME PxiPlain, PlainNext PROVE CountOK'
<1>1. CASE Link11
  BY <1>1 DEF Link11, Flush11, Hello11, Answer11, Register11, Woken, Thread11, Thread9,
     Calling11, Waiting11, Masked11, Masked9, Init11, Init9, Panic11s, Code9, Body,
     CmdWord, PanicWord, Stub11, Stub9, Dead, Panic9, Outside, Places, Unlinked11, Sent,
     Received, Behind, HandshakeOK, LinkPcs, LinkWords11, LinkWords9, CountOK, CallsOK,
     PanicsOK, RepliesOK, LaunchOK, PxiPlain, fifos, arm9, arm11, flags
<1>2. CASE \E c \in Cmds : Call(c)
  BY <1>2, Numbers DEF Call, Calling11, Waiting11, Masked11, Masked9, Init11, Init9,
     Panic11s, Code9, Body, CmdWord, PanicWord, Stub11, Stub9, Dead, Panic9, Outside,
     Places, Unlinked11, Sent, Received, Behind, HandshakeOK, LinkPcs, LinkWords11,
     LinkWords9, CountOK, CallsOK, PanicsOK, RepliesOK, LaunchOK, PxiPlain,
     fifos, arm9, arm11, flags
<1>3. CASE Sending11
  BY <1>3, Numbers DEF Sending11, SendCmd, SyncCmd, SendArg, AllSent, Woken, Thread11,
     Thread9, Calling11, Waiting11, Masked11, Masked9, Init11, Init9, Panic11s, Code9,
     Body, CmdWord, PanicWord, Stub11, Stub9, Dead, Panic9, Outside, Places, Unlinked11,
     Sent, Received, Behind, HandshakeOK, LinkPcs, LinkWords11, LinkWords9, CountOK,
     CallsOK, PanicsOK, RepliesOK, LaunchOK, PxiPlain, fifos, arm9, arm11,
     flags
<1>4. CASE Awaiting11
  BY <1>4 DEF Awaiting11, CheckResp, Wfi11, OtherIrq11, GfxSwitch, Woken, Thread11,
     Thread9, Calling11, Waiting11, Masked11, Masked9, Init11, Init9, Panic11s, Code9,
     Body, CmdWord, PanicWord, Stub11, Stub9, Dead, Panic9, Outside, Places, Unlinked11,
     Sent, Received, Behind, HandshakeOK, LinkPcs, LinkWords11, LinkWords9, CountOK,
     CallsOK, PanicsOK, RepliesOK, LaunchOK, PxiPlain, fifos, arm9, arm11,
     flags
<1>5. CASE TakeResp
  BY <1>5 DEF TakeResp, Calling11, Waiting11, Masked11, Masked9, Init11, Init9,
     Panic11s, Code9, Body, CmdWord, PanicWord, Stub11, Stub9, Dead, Panic9, Outside,
     Places, Unlinked11, Sent, Received, Behind, HandshakeOK, LinkPcs, LinkWords11,
     LinkWords9, CountOK, CallsOK, PanicsOK, RepliesOK, LaunchOK, PxiPlain,
     fifos, arm9, arm11, flags
<1>6. CASE Reply11
  BY <1>6 DEF Reply11, Enter11, RespCode, RespResult, Woken, Thread11, Thread9,
     Calling11, Waiting11, Masked11, Masked9, Init11, Init9, Panic11s, Code9, Body,
     CmdWord, PanicWord, Stub11, Stub9, Dead, Panic9, Outside, Places, Unlinked11, Sent,
     Received, Behind, HandshakeOK, LinkPcs, LinkWords11, LinkWords9, CountOK, CallsOK,
     PanicsOK, RepliesOK, LaunchOK, PxiPlain, fifos, arm9, arm11, flags
<1>7. CASE AnswerPanic11
  BY <1>7 DEF AnswerPanic11, PanicCode, PanicResp11, PanicResult11, PanicSync11, Init11,
     Init9, Panic11s, Code9, Body, CmdWord, PanicWord, Stub11, Stub9, Dead, Panic9,
     Outside, Places, Unlinked11, Sent, Received, Behind, HandshakeOK, LinkPcs,
     LinkWords11, LinkWords9, CountOK, CallsOK, PanicsOK, RepliesOK, LaunchOK,
     PxiPlain, fifos, arm9, arm11, flags
<1>8. CASE Launching11
  BY <1>8 DEF Launching11, StubReady, StubEntry, StubGot, Woken, Thread11, Thread9,
     Calling11, Waiting11, Masked11, Masked9, Init11, Init9, Panic11s, Code9, Body,
     CmdWord, PanicWord, Stub11, Stub9, Dead, Panic9, Outside, Places, Unlinked11, Sent,
     Received, Behind, HandshakeOK, LinkPcs, LinkWords11, LinkWords9, CountOK, CallsOK,
     PanicsOK, RepliesOK, LaunchOK, PxiPlain, fifos, arm9, arm11, flags
<1>9. CASE Dying11
  <2>1. CASE PlainPanic11
    BY <2>1, Numbers, TypeParts, Send9Sends, Recv11Receives DEF PlainPanic11, Panic11,
         Woken,
       Thread11, Thread9, Calling11, Waiting11, Masked11, Masked9, Init11, Init9,
       Panic11s, Code9, Body, CmdWord, PanicWord, Stub11, Stub9, Dead, Panic9, Outside,
       Places, Unlinked11, Sent, Received, Behind, HandshakeOK, LinkPcs, LinkWords11,
       LinkWords9, CountOK, CallsOK, PanicsOK, RepliesOK, LaunchOK, PxiPlain,
       fifos, arm9, arm11, flags
  <2>2. CASE Assert11
    BY <2>2 DEF Assert11, Calling11, Waiting11, Masked11, Masked9, Init11, Init9,
       Panic11s, Code9, Body, CmdWord, PanicWord, Stub11, Stub9, Dead, Panic9, Outside,
       Places, Unlinked11, Sent, Received, Behind, HandshakeOK, LinkPcs, LinkWords11,
       LinkWords9, CountOK, CallsOK, PanicsOK, RepliesOK, LaunchOK, PxiPlain,
       fifos, arm9, arm11, flags
  <2>3. CASE PanicSend11
    BY <2>3 DEF PanicSend11, Calling11, Waiting11, Masked11, Masked9, Init11, Init9,
       Panic11s, Code9, Body, CmdWord, PanicWord, Stub11, Stub9, Dead, Panic9, Outside,
       Places, Unlinked11, Sent, Received, Behind, HandshakeOK, LinkPcs, LinkWords11,
       LinkWords9, CountOK, CallsOK, PanicsOK, RepliesOK, LaunchOK, PxiPlain,
       fifos, arm9, arm11, flags
  <2>4. CASE PanicSyncReq11
    BY <2>4 DEF PanicSyncReq11, Calling11, Waiting11, Masked11, Masked9, Init11, Init9,
       Panic11s, Code9, Body, CmdWord, PanicWord, Stub11, Stub9, Dead, Panic9, Outside,
       Places, Unlinked11, Sent, Received, Behind, HandshakeOK, LinkPcs, LinkWords11,
       LinkWords9, CountOK, CallsOK, PanicsOK, RepliesOK, LaunchOK, PxiPlain,
       fifos, arm9, arm11, flags
  <2>5. CASE PanicDrain11
    BY <2>5 DEF PanicDrain11, Calling11, Waiting11, Masked11, Masked9, Init11, Init9,
       Panic11s, Code9, Body, CmdWord, PanicWord, Stub11, Stub9, Dead, Panic9, Outside,
       Places, Unlinked11, Sent, Received, Behind, HandshakeOK, LinkPcs, LinkWords11,
       LinkWords9, CountOK, CallsOK, PanicsOK, RepliesOK, LaunchOK, PxiPlain,
       fifos, arm9, arm11, flags
  <2> QED
    BY <1>9, <2>1, <2>2, <2>3, <2>4, <2>5 DEF Dying11
<1>10. CASE Link9
  BY <1>10 DEF Link9, Flush9, Hello9, Answer9, Register9, Init11, Init9, Panic11s,
     Code9, Body, CmdWord, PanicWord, Stub11, Stub9, Dead, Panic9, Outside, Places,
     Unlinked11, Sent, Received, Behind, HandshakeOK, LinkPcs, LinkWords11, LinkWords9,
     CountOK, CallsOK, PanicsOK, RepliesOK, LaunchOK, PxiPlain, fifos, arm9,
     arm11, flags
<1>11. CASE Command9
  BY <1>11 DEF Command9, PlainEnter9, Enter9, PlainRecvCode, RecvCode, RecvArgs, Woken,
       Init9, Panic11s, Code9,
     Body, CmdWord, PanicWord, Stub11, Stub9, Dead, Panic9, Outside, Places, Unlinked11,
     Sent, Received, Behind, HandshakeOK, LinkPcs, LinkWords11, LinkWords9, CountOK,
     CallsOK, PanicsOK, RepliesOK, LaunchOK, PxiPlain, fifos, arm9, arm11,
     flags
<1>12. CASE PlainExecute
  BY <1>12, Numbers DEF PlainExecute, Execute, Waiting11, Masked9, Panic11s, Code9, Body,
       CmdWord,
     PanicWord, Stub11, Stub9, Dead, Panic9, Outside, Places, Unlinked11, Sent,
     Received, Behind, HandshakeOK, LinkPcs, LinkWords11, LinkWords9, CountOK, CallsOK,
     PanicsOK, RepliesOK, LaunchOK, PxiPlain, fifos, arm9, arm11, flags
<1>13. CASE Reply9
  BY <1>13 DEF Reply9, SendResp, SendResult, PlainSyncResp, SyncResp, Return9, Panic11s,
       Code9, Body, CmdWord,
     PanicWord, Stub11, Stub9, Dead, Panic9, Outside, Places, Unlinked11, Sent,
     Received, Behind, HandshakeOK, LinkPcs, LinkWords11, LinkWords9, CountOK, CallsOK,
     PanicsOK, RepliesOK, LaunchOK, PxiPlain, fifos, arm9, arm11, flags
<1>14. CASE Loop9
  BY <1>14 DEF Loop9, CheckLaunch, Wfi9, OtherIrq9, Init9, Panic11s, Code9, Body,
     CmdWord, PanicWord, Stub11, Stub9, Dead, Panic9, Outside, Places, Unlinked11, Sent,
     Received, Behind, HandshakeOK, LinkPcs, LinkWords11, LinkWords9, CountOK, CallsOK,
     PanicsOK, RepliesOK, LaunchOK, PxiPlain, fifos, arm9, arm11, flags
<1>15. CASE Launching9
  BY <1>15 DEF Launching9, AwaitReady, CopySections, SendEntry, AwaitGot, Init11, Init9,
     Panic11s, Code9, Body, CmdWord, PanicWord, Stub11, Stub9, Dead, Panic9, Outside,
     Places, Unlinked11, Sent, Received, Behind, HandshakeOK, LinkPcs, LinkWords11,
     LinkWords9, CountOK, CallsOK, PanicsOK, RepliesOK, LaunchOK, PxiPlain,
     fifos, arm9, arm11, flags
<1>16. CASE Dying9
  BY <1>16 DEF Dying9, PanicStart9, PanicIn9, Assert9, PanicSend9, PanicSync9, PanicDrain9,
     Masked11, Masked9, Init11, Init9, Panic11s, Code9, Body, CmdWord, PanicWord,
     Stub11, Stub9, Dead, Panic9, Outside, Places, Unlinked11, Sent, Received, Behind,
     HandshakeOK, LinkPcs, LinkWords11, LinkWords9, CountOK, CallsOK, PanicsOK,
     RepliesOK, LaunchOK, PxiPlain, fifos, arm9, arm11, flags
<1> QED
  BY <1>1, <1>2, <1>3, <1>4, <1>5, <1>6, <1>7, <1>8, <1>9, <1>10, <1>11, <1>12, <1>13,
     <1>14, <1>15, <1>16 DEF PlainNext

-----------------------------------------------------------------------------
(* The words of a call on their way to the ARM9.                           *)

\* The words of a call, action by action: what is sent is appended, what is
\* read was at the head.
LEMMA CallsSendArg == ASSUME PxiPlain, SendArg PROVE CallsOK'
<1>1. /\ Sent(to9, to9', <<"arg", cmd, sent>>) /\ pc11 = "args" /\ h11 = "none"
      /\ sent' = sent + 1 /\ sent < Args[cmd]
      /\ UNCHANGED <<sync9, pc11, cmd, call, served, h9, pc9, in9>>
  BY Send9Sends DEF SendArg, PxiPlain, Thread11, arm9, flags
<1>2. cmd \in Cmds /\ Args[cmd] \in Nat /\ sent \in Nat /\ call \in Nat /\ in9[2] \in Nat
  BY <1>1, Numbers DEF PxiPlain, CountOK, Calling11
<1>3. UNCHANGED <<Dead, CmdWord, Off>>
  BY <1>1 DEF Dead, CmdWord, Off
<1>4. SUFFICES ASSUME ~Dead PROVE CallsOK'
  BY <1>3 DEF CallsOK
<1>5. /\ SentArgs = sent /\ SentArgs' = SentArgs + 1
  BY <1>1 DEF SentArgs
<1>6. served # call
  BY <1>1, <1>2, <1>4, <1>5 DEF PxiPlain, CallsOK, Body, Panic11s
<1>7. Off \in {0, 1}
  BY DEF Off
<1>8. \/ /\ h9 \in {"none", "code"} /\ (h9 = "code" => ~sync9)
         /\ Len(to9) = Off + 1 + SentArgs /\ to9[Off + 1] = CmdWord
      \/ /\ h9 \in {"args", "exec"} /\ ~sync9
         /\ in9[1] = CmdWord /\ in9[2] <= Args[cmd]
         /\ in9[2] + Len(to9) = SentArgs
         /\ h9 = "exec" => in9[2] = Args[cmd]
  BY <1>1, <1>4, <1>6 DEF PxiPlain, CallsOK, Body, Panic11s
<1>a. Len(to9) \in Nat /\ Len(to9') = Len(to9) + 1 /\ \A i \in 1 .. Len(to9) : to9'[i] = to9[i]
  BY <1>1 DEF Sent
<1>b. Len(to9) = Off + 1 + SentArgs => to9'[Off + 1] = to9[Off + 1]
  BY <1>a, <1>7, <1>5, <1>2
<1>9. /\ SentArgs' \in Nat /\ SentArgs \in Nat /\ Off + 1 \in Nat
      /\ Len(to9') = Len(to9) + 1
  BY <1>a, <1>2, <1>5, <1>7
<1>c. Len(to9) = Off + 1 + SentArgs => Len(to9') = Off + 1 + SentArgs'
  BY <1>5, <1>9
<1>d. in9[2] + Len(to9) = SentArgs => in9[2] + Len(to9') = SentArgs'
  BY <1>a, <1>2, <1>5, <1>9
<1>e. Off' = Off /\ CmdWord' = CmdWord
  BY <1>3
<1> QED
  BY <1>1, <1>e, <1>6, <1>8, <1>b, <1>c, <1>d DEF CallsOK, Body, Waiting11, Panic11s


\* The answer of the ARM11 may lie before the first command.
LEMMA CallsAnswer9 == ASSUME PxiPlain, Answer9 PROVE CallsOK'
<1>1. /\ Received(to9, to9') /\ pc9 = "answer"
      /\ pc9' = IF Head(to9)[1] = "11" THEN "register" ELSE pc9
      /\ UNCHANGED <<sync9, pc11, cmd, call, sent, served, h9, in9>>
  BY Recv9Receives DEF Answer9, PxiPlain, arm11, flags
<1>2. h9 = "none" /\ served = 0 /\ call \in Nat /\ Off = 1
  BY <1>1, Numbers DEF PxiPlain, HandshakeOK, LinkPcs, CountOK, Masked9, Init9, Off
<1>3. /\ Len(to9) \in Nat \ {0} /\ Len(to9') = Len(to9) - 1
      /\ \A i \in 1 .. Len(to9') : to9'[i] = to9[i + 1]
  BY <1>1 DEF Received
<1>4. CASE pc11 \in Unlinked11
  <2>1. ~sync9 \/ Dead
    BY <1>4 DEF PxiPlain, CallsOK, Unlinked11, Body, Waiting11, Panic11s
  <2> QED
    BY <1>1, <1>2, <1>4, <2>1 DEF CallsOK, Unlinked11, Body, Waiting11, Dead
<1>5. CASE pc11 \notin Unlinked11
  <2>1. Head(to9) = Hello11Word
    BY <1>1, <1>5 DEF PxiPlain, HandshakeOK, LinkPcs, LinkWords11, LinkWords9, Received
  <2>2. Off' = 0
    BY <1>1, <2>1 DEF Hello11Word, Off
  <2>3. UNCHANGED <<SentArgs, CmdWord, Dead>>
    BY <1>1 DEF SentArgs, CmdWord, Dead
  <2>4. to9[2] = CmdWord /\ Len(to9) >= 2 => to9'[1] = CmdWord
    BY <1>3
  <2>5. ~Dead /\ pc11 \notin Panic11s =>
          /\ pc11 \notin Body => ~sync9
          /\ pc11 \in {"register", "ready", "send", "stub"} => Len(to9) = 1
          /\ pc11 = "sync" => Len(to9) = 2 /\ to9[2] = CmdWord
          /\ pc11 \in Body =>
               served # call /\ SentArgs \in Nat /\ Len(to9) = 2 + SentArgs /\ to9[2] = CmdWord
          /\ pc11 \notin {"entry", "got", "gone", "take"}
    <3> SUFFICES ASSUME ~Dead, pc11 \notin Panic11s
                 PROVE  <2>5!2
      OBVIOUS
    <3>1. pc11 \in Calling11 \cup Stub11 => call > 0 /\ served # call /\ SentArgs \in Nat
      BY <1>2, InCall
    <3>2. pc11 \notin {"entry", "got", "gone", "take"}
      BY <1>2 DEF PxiPlain, CountOK, RepliesOK, Calling11, Waiting11, Stub11, Panic11s
    <3> QED
      BY <3>1, <3>2, <1>2 DEF PxiPlain, CallsOK, Calling11, Body
  <2> QED
    BY <1>1, <1>2, <1>3, <2>2, <2>3, <2>5 DEF CallsOK, Unlinked11
<1> QED
  BY <1>4, <1>5

\* The first word it reads is the command of the call.
LEMMA CallsRecvCode == ASSUME PxiPlain, PlainRecvCode PROVE CallsOK'
<1>1. /\ h9 = "code" /\ h9' = "args" /\ in9' = <<Head(to9), 0>> /\ Received(to9, to9')
      /\ UNCHANGED <<sync9, pc11, cmd, call, sent, served, pc9>>
  BY Recv9Receives DEF PlainRecvCode, RecvCode, PxiPlain, arm11, flags
<1>2. UNCHANGED <<Off, CmdWord, SentArgs>> /\ ~Dead /\ Off = 0
  BY <1>1 DEF Off, CmdWord, SentArgs, Dead, Panic9, PxiPlain, HandshakeOK, LinkPcs,
     Masked9, Init9
<1>3. SUFFICES ASSUME pc11 \notin Panic11s PROVE CallsOK'
  BY <1>1 DEF CallsOK
<1>4. /\ pc11 \in Body /\ served # call /\ ~sync9
      /\ Len(to9) = 1 + SentArgs /\ to9[1] = CmdWord
  BY <1>1, <1>2, <1>3 DEF PxiPlain, CallsOK
<1>5. SentArgs \in Nat /\ Args[cmd] \in Nat
  BY <1>4, InCall, Numbers DEF Body, Calling11, SentArgs
<1>6. /\ in9'[1] = CmdWord /\ in9'[2] = 0 /\ 0 <= Args[cmd]
      /\ in9'[2] + Len(to9') = SentArgs
  BY <1>1, <1>4, <1>5 DEF Received
<1> QED
  BY <1>1, <1>2, <1>4, <1>6 DEF CallsOK, Body, Waiting11

\* The handler counts the arguments it reads.
LEMMA CallsRecvArgs == ASSUME PxiPlain, RecvArgs PROVE CallsOK'
<1>1. /\ h9 = "args" /\ h9' \in {"args", "exec"}
      /\ UNCHANGED <<sync9, pc11, cmd, call, sent, served, pc9>>
  BY Recv9Receives DEF RecvArgs, PxiPlain, arm11, flags
<1>2. UNCHANGED <<Off, CmdWord, SentArgs>> /\ ~Dead /\ ~Dead'
  BY <1>1 DEF Off, CmdWord, SentArgs, Dead, Panic9
<1>3. SUFFICES ASSUME pc11 \notin Panic11s PROVE CallsOK'
  BY <1>1 DEF CallsOK
<1>4. pc11 \in Body
  BY <1>1, <1>2, <1>3 DEF PxiPlain, CallsOK
<1>5. /\ served # call /\ ~sync9 /\ in9[1] = CmdWord /\ in9[2] <= Args[cmd]
      /\ in9[2] + Len(to9) = SentArgs
  BY <1>1, <1>2, <1>3, <1>4 DEF PxiPlain, CallsOK
<1>6. Words9 = Args[cmd] /\ SentArgs <= Args[cmd] /\ in9[2] \in Nat /\ Len(to9) \in Nat
  BY <1>4, <1>5, InCall, Numbers DEF Words9, Code9, CmdWord, Body, Calling11
<1>7. /\ in9'[1] = CmdWord /\ in9'[2] <= Args[cmd] /\ in9'[2] + Len(to9') = SentArgs
      /\ h9' = "exec" => in9'[2] = Args[cmd]
  <2>1. CASE in9[2] < Words9 /\ Recv9 /\ in9' = <<in9[1], in9[2] + 1>> /\ h9' = h9
    <3>1. Len(to9') = Len(to9) - 1
      BY <2>1, Recv9Receives DEF PxiPlain, Received
    <3>2. in9'[1] = in9[1] /\ in9'[2] = in9[2] + 1 /\ h9' = "args"
      BY <1>1, <2>1
    <3>3. Args[cmd] \in Nat /\ SentArgs \in Nat
      BY <1>4, InCall DEF Body, Calling11
    <3>4. in9[2] < Args[cmd]
      BY <1>6, <2>1
    <3>5. in9'[2] <= Args[cmd] /\ in9'[2] + Len(to9') = SentArgs
      BY <1>5, <1>6, <3>1, <3>2, <3>3, <3>4
    <3> QED
      BY <1>5, <3>2, <3>5
  <2>2. CASE in9[2] = Words9 /\ UNCHANGED <<to9, to11>> /\ in9' = in9 /\ h9' = "exec"
    BY <1>5, <1>6, <2>2
  <2> QED
    BY <2>1, <2>2 DEF RecvArgs
<1> QED
  BY <1>1, <1>2, <1>4, <1>5, <1>7 DEF CallsOK, Body, Waiting11

\* With the last argument read the call is served.
LEMMA CallsExecute == ASSUME PxiPlain, PlainExecute PROVE CallsOK'
<1>1. /\ h9 = "exec" /\ h9' = "resp"
      /\ served' = IF Code9 = Panic THEN served ELSE in9[1][3]
      /\ UNCHANGED <<to9, sync9, pc11, cmd, call, sent, pc9, in9>>
  BY DEF PlainExecute, Execute, fifos, arm11
<1>2. UNCHANGED <<CmdWord, SentArgs>> /\ ~Dead
  BY <1>1 DEF CmdWord, SentArgs, Dead, Panic9
<1>3. SUFFICES ASSUME pc11 \notin Panic11s PROVE CallsOK'
  BY <1>1 DEF CallsOK
<1>4. /\ pc11 \in Body /\ served # call /\ ~sync9 /\ in9[1] = CmdWord
      /\ in9[2] = Args[cmd] /\ in9[2] + Len(to9) = SentArgs
  BY <1>1, <1>2, <1>3 DEF PxiPlain, CallsOK
<1>5. /\ Args[cmd] \in Nat /\ Len(to9) \in Nat /\ SentArgs <= Args[cmd] /\ cmd # Panic
  BY <1>4, InCall, Numbers, CmdAssumption DEF Body, Calling11
<1>6. Len(to9) = 0 /\ SentArgs = Args[cmd]
  BY <1>4, <1>5
<1>7. served' = call
  BY <1>1, <1>4, <1>5 DEF Code9, CmdWord
<1> QED
  BY <1>1, <1>2, <1>4, <1>6, <1>7 DEF CallsOK, Body, Waiting11

\* The stubs find nothing but the words of the launch.
LEMMA CallsAwait == ASSUME PxiPlain, AwaitReady \/ AwaitGot PROVE CallsOK'
<1>1. /\ Received(to9, to9') /\ pc9 \in Stub9 /\ pc9' \in Stub9 /\ h9 = "none"
      /\ UNCHANGED <<sync9, pc11, cmd, call, sent, served, h9, in9>>
  BY Recv9Receives DEF AwaitReady, AwaitGot, PxiPlain, HandshakeOK, LinkPcs, Masked9,
     Stub9, arm11, flags
<1>2. UNCHANGED <<CmdWord, SentArgs, Dead>> /\ Off = 0 /\ Off' = 0 /\ ~Dead
  BY <1>1 DEF Off, CmdWord, SentArgs, Dead, Panic9, Stub9
<1>3. SUFFICES ASSUME pc11 \notin Panic11s PROVE CallsOK'
  BY <1>1 DEF CallsOK
<1>4. pc11 \in {"entry", "got", "gone"}
  BY <1>1, <1>2, <1>3 DEF PxiPlain, CallsOK, LaunchOK, Received, Stub11
<1>5. \A W : Behind(to9, 0, W) => Behind(to9', 0, W)
  BY <1>1 DEF Behind, Received
<1>6. UNCHANGED <<ReadyWord, GotWord>>
  BY DEF ReadyWord, GotWord
<1> QED
  BY <1>1, <1>2, <1>4, <1>5 DEF PxiPlain, CallsOK, Body, Waiting11

\* A step that touches neither the words nor the handler nor the call.
LEMMA CallsQuiet ==
  ASSUME PxiPlain,
         UNCHANGED <<to9, sync9, pc11, cmd, call, sent, served, h9, in9, Off>>
  PROVE  CallsOK'
<1>1. UNCHANGED <<CmdWord, SentArgs, Dead>>
  BY DEF CmdWord, SentArgs, Dead
<1> QED
  BY <1>1 DEF PxiPlain, CallsOK, Behind, ReadyWord, GotWord

\* All actions; those of one call at a time.
LEMMA CallsStep == ASSUME PxiPlain, PlainNext PROVE CallsOK'
<1>1. CASE Link11
  <2>1. CASE Flush11
    BY <2>1 DEF Flush11, Waiting11, Panic11s, Body, Stub11, Stub9, Dead, Panic9,
       Outside, Places, Unlinked11, Sent, Received, Behind, HandshakeOK, LinkPcs,
       LinkWords11, LinkWords9, CountOK, CallsOK, PanicsOK, RepliesOK, LaunchOK, Off,
       SentArgs, ReadyWord, GotWord, Words9, NoReply, Coming11, HalfRead, Read11,
       Quiet11, PxiPlain, fifos, arm9, arm11, flags
  <2>2. CASE Hello11
    BY <2>2 DEF Hello11, Waiting11, Panic11s, Body, Stub11, Stub9, Dead, Panic9,
       Outside, Places, Unlinked11, Sent, Received, Behind, HandshakeOK, LinkPcs,
       LinkWords11, LinkWords9, CountOK, CallsOK, PanicsOK, RepliesOK, LaunchOK, Off,
       SentArgs, ReadyWord, GotWord, Words9, NoReply, Coming11, HalfRead, Read11,
       Quiet11, PxiPlain, fifos, arm9, arm11, flags
  <2>3. CASE Answer11
    BY <2>3, Send9Sends DEF Answer11, Waiting11, Panic11s, Body, PanicWord, Stub11,
       Stub9, Dead, Panic9, Outside, Places, Unlinked11, Sent, Received, Behind,
       HandshakeOK, LinkPcs, LinkWords11, LinkWords9, CountOK, CallsOK, PanicsOK,
       RepliesOK, LaunchOK, Off, SentArgs, ReadyWord, GotWord, Words9, NoReply,
       Coming11, HalfRead, Read11, Quiet11, PxiPlain, fifos, arm9, arm11, flags
  <2>4. CASE Register11
    BY <2>4 DEF Register11, Waiting11, Panic11s, Body, Stub11, Stub9, Dead, Panic9,
       Outside, Places, Unlinked11, Sent, Received, Behind, HandshakeOK, LinkPcs,
       LinkWords11, LinkWords9, CountOK, CallsOK, PanicsOK, RepliesOK, LaunchOK, Off,
       SentArgs, ReadyWord, GotWord, Words9, NoReply, Coming11, HalfRead, Read11,
       Quiet11, PxiPlain, fifos, arm9, arm11, flags
  <2> QED
    BY <1>1, <2>1, <2>2, <2>3, <2>4 DEF Link11
<1>2. CASE \E c \in Cmds : Call(c)
  BY <1>2 DEF Call, Waiting11, Panic11s, Body, Stub11, Stub9, Dead, Panic9, Outside,
     Places, Unlinked11, Sent, Received, Behind, HandshakeOK, LinkPcs, LinkWords11,
     LinkWords9, CountOK, CallsOK, PanicsOK, RepliesOK, LaunchOK, Off, SentArgs,
     ReadyWord, GotWord, Words9, NoReply, Coming11, HalfRead, Read11, Quiet11, PxiPlain,
     fifos, arm9, arm11, flags
<1>3. CASE Sending11
  <2>1. CASE SendCmd
    BY <2>1, Numbers, TypeParts, Send9Sends, Recv11Receives DEF SendCmd, Woken,
       Thread11, Thread9, Calling11, Waiting11, Masked11, Masked9, Init11, Init9,
       Panic11s, Code9, Body, CmdWord, PanicWord, Stub11, Stub9, Dead, Panic9, Outside,
       Places, Unlinked11, Sent, Received, Behind, HandshakeOK, LinkPcs, LinkWords11,
       LinkWords9, CountOK, CallsOK, PanicsOK, RepliesOK, LaunchOK, Off, SentArgs,
       ReadyWord, GotWord, Words9, NoReply, Coming11, HalfRead, Read11, Quiet11,
       PxiPlain, fifos, arm9, arm11, flags
  <2>2. CASE SyncCmd
    BY <2>2 DEF SyncCmd, Waiting11, Panic11s, Body, CmdWord, Stub11, Stub9, Dead,
       Panic9, Outside, Places, Unlinked11, Sent, Received, Behind, HandshakeOK,
       LinkPcs, LinkWords11, LinkWords9, CountOK, CallsOK, PanicsOK, RepliesOK,
       LaunchOK, Off, SentArgs, ReadyWord, GotWord, Words9, NoReply, Coming11, HalfRead,
       Read11, Quiet11, PxiPlain, fifos, arm9, arm11, flags
  <2>3. CASE SendArg
    BY <2>3, CallsSendArg
  <2>4. CASE AllSent
    BY <2>4 DEF AllSent, Waiting11, Panic11s, Body, CmdWord, Stub11, Stub9, Dead,
       Panic9, Outside, Places, Unlinked11, Sent, Received, Behind, HandshakeOK,
       LinkPcs, LinkWords11, LinkWords9, CountOK, CallsOK, PanicsOK, RepliesOK,
       LaunchOK, Off, SentArgs, ReadyWord, GotWord, Words9, NoReply, Coming11, HalfRead,
       Read11, Quiet11, PxiPlain, fifos, arm9, arm11, flags
  <2> QED
    BY <1>3, <2>1, <2>2, <2>3, <2>4 DEF Sending11
<1>4. CASE Awaiting11
  <2>1. CASE CheckResp
    BY <2>1, Numbers DEF CheckResp, Calling11, Waiting11, Panic11s, Body, CmdWord,
       PanicWord, Stub11, Stub9, Dead, Panic9, Outside, Places, Unlinked11, Sent,
       Received, Behind, HandshakeOK, LinkPcs, LinkWords11, LinkWords9, CountOK,
       CallsOK, PanicsOK, RepliesOK, LaunchOK, Off, SentArgs, ReadyWord, GotWord,
       Words9, NoReply, Coming11, HalfRead, Read11, Quiet11, PxiPlain, fifos, arm9,
       arm11, flags
  <2>2. CASE Wfi11
    BY <2>2 DEF Wfi11, Waiting11, Panic11s, Body, CmdWord, Stub11, Stub9, Dead, Panic9,
       Outside, Places, Unlinked11, Sent, Received, Behind, HandshakeOK, LinkPcs,
       LinkWords11, LinkWords9, CountOK, CallsOK, PanicsOK, RepliesOK, LaunchOK, Off,
       SentArgs, ReadyWord, GotWord, Words9, NoReply, Coming11, HalfRead, Read11,
       Quiet11, PxiPlain, fifos, arm9, arm11, flags
  <2>3. CASE OtherIrq11
    BY <2>3 DEF OtherIrq11, Waiting11, Panic11s, Body, CmdWord, Stub11, Stub9, Dead,
       Panic9, Outside, Places, Unlinked11, Sent, Received, Behind, HandshakeOK,
       LinkPcs, LinkWords11, LinkWords9, CountOK, CallsOK, PanicsOK, RepliesOK,
       LaunchOK, Off, SentArgs, ReadyWord, GotWord, Words9, NoReply, Coming11, HalfRead,
       Read11, Quiet11, PxiPlain, fifos, arm9, arm11, flags
  <2>4. CASE GfxSwitch
    BY <2>4 DEF GfxSwitch, CmdWord, Stub9, Dead, Panic9, Outside, Places, Unlinked11,
       Sent, Received, Behind, HandshakeOK, LinkPcs, LinkWords11, LinkWords9, CountOK,
       CallsOK, PanicsOK, RepliesOK, LaunchOK, Off, SentArgs, ReadyWord, GotWord,
       Words9, NoReply, Coming11, HalfRead, Read11, Quiet11, PxiPlain, fifos, arm9,
       arm11, flags
  <2> QED
    BY <1>4, <2>1, <2>2, <2>3, <2>4 DEF Awaiting11
<1>5. CASE TakeResp
  BY <1>5 DEF TakeResp, Panic11s, Stub9, Dead, Panic9, Outside, Places, Unlinked11,
     Sent, Received, Behind, HandshakeOK, LinkPcs, LinkWords11, LinkWords9, CountOK,
     CallsOK, PanicsOK, RepliesOK, LaunchOK, Off, SentArgs, ReadyWord, GotWord, Words9,
     NoReply, Coming11, HalfRead, Read11, Quiet11, PxiPlain, fifos, arm9, arm11, flags
<1>6. CASE Reply11
  BY <1>6, Recv11Receives DEF Reply11, Enter11, RespCode, RespResult, Woken, Thread11,
     Thread9, Calling11, Waiting11, Masked11, Masked9, Init11, Init9, Panic11s, Code9,
     Body, CmdWord, PanicWord, Stub11, Stub9, Dead, Panic9, Outside, Places, Unlinked11,
     Sent, Received, Behind, HandshakeOK, LinkPcs, LinkWords11, LinkWords9, CountOK,
     CallsOK, PanicsOK, RepliesOK, LaunchOK, Off, SentArgs, ReadyWord, GotWord, Words9,
     NoReply, Coming11, HalfRead, Read11, Quiet11, PxiPlain, fifos, arm9, arm11, flags
<1>7. CASE AnswerPanic11
  BY <1>7, Recv11Receives DEF AnswerPanic11, PanicCode, PanicResp11, PanicResult11,
     PanicSync11, Masked9, Init11, Init9, Panic11s, Code9, Body, CmdWord, PanicWord,
     Stub11, Stub9, Dead, Panic9, Outside, Places, Unlinked11, Sent, Received, Behind,
     HandshakeOK, LinkPcs, LinkWords11, LinkWords9, CountOK, CallsOK, PanicsOK,
     RepliesOK, LaunchOK, Off, SentArgs, ReadyWord, GotWord, Words9, NoReply, Coming11,
     HalfRead, Read11, Quiet11, PxiPlain, fifos, arm9, arm11, flags
<1>8. CASE Launching11
  <2>1. CASE StubReady
    BY <2>1, Send9Sends DEF StubReady, Calling11, Waiting11, Init9, Panic11s, Body,
       CmdWord, PanicWord, Stub11, Stub9, Dead, Panic9, Outside, Places, Unlinked11,
       Sent, Received, Behind, HandshakeOK, LinkPcs, LinkWords11, LinkWords9, CountOK,
       CallsOK, PanicsOK, RepliesOK, LaunchOK, Off, SentArgs, ReadyWord, GotWord,
       Words9, NoReply, Coming11, HalfRead, Read11, Quiet11, PxiPlain, fifos, arm9,
       arm11, flags
  <2>2. CASE StubEntry
    BY <2>2, Recv11Receives DEF StubEntry, Waiting11, Panic11s, Body, PanicWord, Stub11,
       Stub9, Dead, Panic9, Outside, Places, Unlinked11, Sent, Received, Behind,
       HandshakeOK, LinkPcs, LinkWords11, LinkWords9, CountOK, CallsOK, PanicsOK,
       RepliesOK, LaunchOK, Off, SentArgs, ReadyWord, GotWord, Words9, NoReply,
       Coming11, HalfRead, Read11, Quiet11, PxiPlain, fifos, arm9, arm11, flags
  <2>3. CASE StubGot
    BY <2>3, Send9Sends DEF StubGot, Waiting11, Panic11s, Body, PanicWord, Stub11,
       Stub9, Dead, Panic9, Outside, Places, Unlinked11, Sent, Received, Behind,
       HandshakeOK, LinkPcs, LinkWords11, LinkWords9, CountOK, CallsOK, PanicsOK,
       RepliesOK, LaunchOK, Off, SentArgs, ReadyWord, GotWord, Words9, NoReply,
       Coming11, HalfRead, Read11, Quiet11, PxiPlain, fifos, arm9, arm11, flags
  <2> QED
    BY <1>8, <2>1, <2>2, <2>3 DEF Launching11
<1>9. CASE Dying11
  BY <1>9 DEF Dying11, PlainPanic11, Panic11, Assert11, PanicSend11, PanicSyncReq11,
       PanicDrain11,
     Masked11, Masked9, Init11, Init9, Panic11s, Code9, Body, CmdWord, PanicWord,
     Stub11, Stub9, Dead, Panic9, Outside, Places, Unlinked11, Sent, Received, Behind,
     HandshakeOK, LinkPcs, LinkWords11, LinkWords9, CountOK, CallsOK, PanicsOK,
     RepliesOK, LaunchOK, Off, SentArgs, ReadyWord, GotWord, Words9, NoReply, Coming11,
     HalfRead, Read11, Quiet11, PxiPlain, fifos, arm9, arm11, flags
<1>10. CASE Link9
  <2>1. CASE Flush9 \/ Hello9 \/ Register9
    BY <2>1 DEF Flush9, Hello9, Register9, Waiting11, Code9, Body, CmdWord, PanicWord,
       Stub11, Stub9, Dead, Panic9, Outside, Places, Unlinked11, Sent, Received, Behind,
       HandshakeOK, LinkPcs, LinkWords11, LinkWords9, CountOK, CallsOK, PanicsOK,
       RepliesOK, LaunchOK, Off, SentArgs, ReadyWord, GotWord, Words9, NoReply,
       Coming11, HalfRead, Read11, Quiet11, PxiPlain, fifos, arm9, arm11, flags
  <2>2. CASE Answer9
    BY <2>2, CallsAnswer9
  <2> QED
    BY <1>10, <2>1, <2>2 DEF Link9
<1>11. CASE Command9
  <2>1. CASE PlainEnter9
    BY <2>1 DEF PlainEnter9, Enter9, Woken, Thread9, CmdWord, PanicWord, Stub11, Stub9,
         Dead, Panic9,
       Outside, Places, Unlinked11, Sent, Received, Behind, HandshakeOK, LinkPcs,
       LinkWords11, LinkWords9, CountOK, CallsOK, PanicsOK, RepliesOK, LaunchOK, Off,
       SentArgs, ReadyWord, GotWord, Words9, NoReply, Coming11, HalfRead, Read11,
       Quiet11, PxiPlain, fifos, arm9, arm11, flags
  <2>2. CASE PlainRecvCode
    BY <2>2, CallsRecvCode
  <2>3. CASE RecvArgs
    BY <2>3, CallsRecvArgs
  <2> QED
    BY <1>11, <2>1, <2>2, <2>3 DEF Command9
<1>12. CASE PlainExecute
  BY <1>12, CallsExecute
<1>13. CASE Reply9
  BY <1>13, Send11Sends DEF Reply9, SendResp, SendResult, PlainSyncResp, SyncResp,
       Return9, Init9, Panic11s,
     Code9, Body, CmdWord, PanicWord, Stub11, Stub9, Dead, Panic9, Outside, Places,
     Unlinked11, Sent, Received, Behind, HandshakeOK, LinkPcs, LinkWords11, LinkWords9,
     CountOK, CallsOK, PanicsOK, RepliesOK, LaunchOK, Off, SentArgs, ReadyWord, GotWord,
     Words9, NoReply, Coming11, HalfRead, Read11, Quiet11, PxiPlain, fifos, arm9, arm11,
     flags
<1>14. CASE Loop9
  <2>1. pc9 # "answer" /\ pc9' # "answer"
    BY <1>14 DEF Loop9, CheckLaunch, Wfi9, OtherIrq9
  <2> QED
    BY <1>14, <2>1, CallsQuiet
       DEF Loop9, CheckLaunch, Wfi9, OtherIrq9, Off, fifos, arm11, flags
<1>15. CASE Launching9
  <2>1. CASE AwaitReady
    BY <2>1, CallsAwait
  <2>2. CASE CopySections \/ SendEntry
    BY <2>2, Send11Sends DEF CopySections, SendEntry, CmdWord, PanicWord, Stub11, Stub9,
       Dead, Panic9, Outside, Places, Unlinked11, Sent, Received, Behind, HandshakeOK,
       LinkPcs, LinkWords11, LinkWords9, CountOK, CallsOK, PanicsOK, RepliesOK,
       LaunchOK, Off, SentArgs, ReadyWord, GotWord, Words9, NoReply, Coming11, HalfRead,
       Read11, Quiet11, PxiPlain, fifos, arm9, arm11, flags
  <2>3. CASE AwaitGot
    BY <2>3, CallsAwait
  <2> QED
    BY <1>15, <2>1, <2>2, <2>3 DEF Launching9
<1>16. CASE Dying9
  BY <1>16 DEF Dying9, PanicStart9, PanicIn9, Assert9, PanicSend9, PanicSync9, PanicDrain9,
     Masked11, Masked9, Init11, Init9, Panic11s, Code9, Body, CmdWord, PanicWord,
     Stub11, Stub9, Dead, Panic9, Outside, Places, Unlinked11, Sent, Received, Behind,
     HandshakeOK, LinkPcs, LinkWords11, LinkWords9, CountOK, CallsOK, PanicsOK,
     RepliesOK, LaunchOK, Off, SentArgs, ReadyWord, GotWord, Words9, NoReply, Coming11,
     HalfRead, Read11, Quiet11, PxiPlain, fifos, arm9, arm11, flags
<1> QED
  BY <1>1, <1>2, <1>3, <1>4, <1>5, <1>6, <1>7, <1>8, <1>9, <1>10, <1>11, <1>12, <1>13,
     <1>14, <1>15, <1>16 DEF PlainNext

-----------------------------------------------------------------------------
(* The same after a panic of the ARM11.                                    *)

\* A panic between calls finds the FIFO empty,
LEMMA PanicsPanic11 == ASSUME PxiPlain, PlainPanic11 PROVE PanicsOK'
<1>1. /\ pc11 = "ready" /\ pc11' = "panic"
      /\ UNCHANGED <<to9, sync9, cmd, call, pc9, h9, in9>>
  BY DEF PlainPanic11, Panic11, fifos
<1>2. UNCHANGED <<CmdWord, Off, Dead>>
  BY <1>1 DEF CmdWord, Off, Dead
<1>3. SUFFICES ASSUME ~Dead PROVE PanicsOK'
  BY <1>2 DEF PanicsOK
<1>4. Len(to9) = Off /\ h9 = "none" /\ ~sync9
  BY <1>1, <1>3 DEF PxiPlain, CallsOK, Body, Waiting11, Panic11s
<1> QED
  BY <1>1, <1>2, <1>4 DEF PanicsOK, Behind, Handling9

\* its word is added at the end,
LEMMA PanicsPanicSend11 == ASSUME PxiPlain, PanicSend11 PROVE PanicsOK'
<1>1. /\ Sent(to9, to9', PanicWord) /\ pc11 \in {"panic", "assert"}
      /\ UNCHANGED <<sync9, cmd, call, pc9, h9, in9>>
  BY Send9Sends DEF PanicSend11, PanicWord, PxiPlain, arm9
<1>2. /\ UNCHANGED <<CmdWord, Off, Dead>> /\ Off \in {0, 1} /\ pc11 \in Panic11s
  BY <1>1 DEF CmdWord, Off, Dead, Panic11s
<1>3. SUFFICES ASSUME ~Dead PROVE PanicsOK'
  BY <1>2 DEF PanicsOK
<1>4. Behind(to9', Off, {PanicWord})
  BY <1>1, <1>2, <1>3 DEF PxiPlain, PanicsOK, Behind, Sent
<1>5. h9 \notin Handling9 /\ ~sync9
  BY <1>1, <1>2, <1>3 DEF PxiPlain, PanicsOK
<1> QED
  BY <1>1, <1>2, <1>4, <1>5 DEF PanicsOK, Handling9

\* perhaps behind the answer to the handshake,
LEMMA PanicsAnswer9 == ASSUME PxiPlain, Answer9 PROVE PanicsOK'
<1>1. /\ Received(to9, to9') /\ pc9 = "answer"
      /\ pc9' = IF Head(to9)[1] = "11" THEN "register" ELSE pc9
      /\ UNCHANGED <<sync9, pc11, cmd, call, h9, in9>>
  BY Recv9Receives DEF Answer9, PxiPlain, arm11, flags
<1>2. /\ UNCHANGED <<CmdWord, Dead>> /\ Off = 1 /\ h9 = "none"
  BY <1>1 DEF CmdWord, Off, Dead, PxiPlain, HandshakeOK, LinkPcs, Masked9, Init9
<1>3. SUFFICES ASSUME ~Dead, pc11 \in Panic11s PROVE PanicsOK'
  BY <1>1, <1>2 DEF PanicsOK
<1>4. Off' = 0
  <2>1. Head(to9) = Hello11Word
    BY <1>1, <1>3 DEF PxiPlain, HandshakeOK, LinkWords9, Unlinked11, Panic11s
  <2> QED
    BY <1>1, <2>1 DEF Hello11Word, Off
<1>5. Behind(to9', 0, {PanicWord})
  BY <1>1, <1>2, <1>3 DEF PxiPlain, PanicsOK, Behind, Received
<1>6. pc11 \in {"panic", "assert", "panicSync", "assertSync"} => ~sync9
  BY <1>3 DEF PxiPlain, PanicsOK
<1> QED
  BY <1>1, <1>2, <1>4, <1>5, <1>6 DEF PanicsOK, Handling9

\* and is read as a command.
LEMMA PanicsCommand ==
  ASSUME PxiPlain, PlainRecvCode \/ RecvArgs \/ PlainExecute
  PROVE  PanicsOK'
<1>1. /\ h9 \in {"code", "args", "exec"} /\ h9' \in {"args", "exec", "resp"}
      /\ UNCHANGED <<sync9, pc11, cmd, call, pc9>>
  BY DEF PlainRecvCode, RecvCode, RecvArgs, PlainExecute, Execute, arm11, fifos
<1>2. UNCHANGED <<CmdWord, Off>> /\ Off = 0 /\ ~Dead
  BY <1>1 DEF CmdWord, Off, Dead, Panic9, PxiPlain, HandshakeOK, LinkPcs, Masked9, Init9
<1>3. SUFFICES ASSUME pc11 \in Panic11s PROVE PanicsOK'
  BY <1>1 DEF PanicsOK
<1>4. /\ pc11 \notin {"panic", "assert", "panicSync", "assertSync"} /\ ~sync9
      /\ Behind(to9, 0, {PanicWord})
      /\ h9 \in {"args", "exec"} => in9[1] = PanicWord
  BY <1>1, <1>2, <1>3 DEF PxiPlain, PanicsOK, Handling9
<1>5. in9'[1] = PanicWord /\ Behind(to9', 0, {PanicWord})
  <2>1. CASE PlainRecvCode
    <3>1. Received(to9, to9') /\ in9' = <<Head(to9), 0>>
      BY <2>1, Recv9Receives DEF PlainRecvCode, RecvCode, PxiPlain
    <3> QED
      BY <1>4, <3>1 DEF Received, Behind
  <2>2. CASE RecvArgs
    <3>1. in9[2] >= Words9
      BY <1>4, <2>2, Numbers DEF RecvArgs, Words9, Code9, PanicWord
    <3> QED
      BY <1>4, <2>2, <3>1, Numbers DEF RecvArgs, Behind, Words9, Code9, PanicWord
  <2>3. CASE PlainExecute
    BY <1>4, <2>3 DEF PlainExecute, Execute, Behind, fifos
  <2> QED
    BY <2>1, <2>2, <2>3
<1> QED
  BY <1>1, <1>2, <1>4, <1>5 DEF PanicsOK

\* A stub that waits for the ARM11 may find a panic instead.
LEMMA PanicsAwait == ASSUME PxiPlain, AwaitReady \/ AwaitGot PROVE PanicsOK'
<1>1. /\ Received(to9, to9') /\ pc9 \in Stub9 /\ pc9' \in Stub9 /\ h9 = "none"
      /\ UNCHANGED <<sync9, pc11, cmd, call, served, h9, in9>>
  BY Recv9Receives DEF AwaitReady, AwaitGot, PxiPlain, HandshakeOK, LinkPcs, Masked9,
     Stub9, arm11, flags
<1>2. UNCHANGED <<PanicWord, Dead>> /\ Off = 0 /\ Off' = 0 /\ ~Dead
  BY <1>1 DEF Off, PanicWord, Dead, Panic9, Stub9
<1>3. served = call
  BY <1>1 DEF PxiPlain, LaunchOK
<1>4. \A W : Behind(to9, 0, W) => Behind(to9', 0, W)
  BY <1>1 DEF Behind, Received
<1> QED
  BY <1>1, <1>2, <1>3, <1>4 DEF PxiPlain, PanicsOK, Handling9

\* A step that touches neither the words nor the handler nor the call.
LEMMA PanicsQuiet ==
  ASSUME PxiPlain, UNCHANGED <<to9, sync9, pc11, cmd, call, h9, in9, Off>>
  PROVE  PanicsOK'
<1>1. UNCHANGED <<CmdWord, PanicWord, Dead>>
  BY DEF CmdWord, PanicWord, Dead
<1> QED
  BY <1>1 DEF PxiPlain, PanicsOK, Behind, Handling9

\* The response ends the command that was executed, of the call or the panic.
LEMMA PanicsReply9 == ASSUME PxiPlain, Reply9 PROVE PanicsOK'
<1>1. /\ h9 \in {"resp", "result", "done"} /\ h9' \in {"result", "done", "none"}
      /\ h9' = "result" => h9 = "resp"
      /\ UNCHANGED <<to9, sync9, pc11, cmd, call, pc9, in9>>
  BY Send11Sends DEF Reply9, SendResp, SendResult, PlainSyncResp, SyncResp, Return9,
     PxiPlain, arm11, flags
<1>2. UNCHANGED <<CmdWord, Off>> /\ ~Dead
  BY <1>1 DEF CmdWord, Off, Dead, Panic9
<1>3. SUFFICES ASSUME pc11 \in Panic11s PROVE PanicsOK'
  BY <1>1 DEF PanicsOK
<1> QED
  BY <1>1, <1>2, <1>3 DEF PxiPlain, PanicsOK, Behind, Handling9

\* All actions, with a panic behind them.
LEMMA PanicsStep == ASSUME PxiPlain, PlainNext PROVE PanicsOK'
<1>1. CASE Link11
  BY <1>1 DEF Link11, Flush11, Hello11, Answer11, Register11, Init11, Init9, Panic11s,
     Code9, Body, CmdWord, PanicWord, Stub11, Stub9, Dead, Panic9, Outside, Places,
     Unlinked11, Sent, Received, Behind, HandshakeOK, LinkPcs, LinkWords11, LinkWords9,
     CountOK, CallsOK, PanicsOK, RepliesOK, LaunchOK, Off, Words9,
     PxiPlain, fifos, arm9, arm11, flags
<1>2. CASE \E c \in Cmds : Call(c)
  BY <1>2 DEF Call, Panic11s, Stub9, Dead, Panic9, Outside, Places, Unlinked11, Sent,
     Received, Behind, HandshakeOK, LinkPcs, LinkWords11, LinkWords9, CountOK, CallsOK,
     PanicsOK, RepliesOK, LaunchOK, Off, Words9, PxiPlain, fifos,
     arm9, arm11, flags
<1>3. CASE Sending11
  BY <1>3 DEF Sending11, SendCmd, SyncCmd, SendArg, AllSent, Init11, Init9, Panic11s,
     Code9, Body, CmdWord, PanicWord, Stub11, Stub9, Dead, Panic9, Outside, Places,
     Unlinked11, Sent, Received, Behind, HandshakeOK, LinkPcs, LinkWords11, LinkWords9,
     CountOK, CallsOK, PanicsOK, RepliesOK, LaunchOK, Off, Words9,
     PxiPlain, fifos, arm9, arm11, flags
<1>4. CASE Awaiting11
  BY <1>4 DEF Awaiting11, CheckResp, Wfi11, OtherIrq11, GfxSwitch, Init11, Init9,
     Panic11s, Code9, Body, CmdWord, PanicWord, Stub11, Stub9, Dead, Panic9, Outside,
     Places, Unlinked11, Sent, Received, Behind, HandshakeOK, LinkPcs, LinkWords11,
     LinkWords9, CountOK, CallsOK, PanicsOK, RepliesOK, LaunchOK, Off, Words9,
     PxiPlain, fifos, arm9, arm11, flags
<1>5. CASE TakeResp
  BY <1>5 DEF TakeResp, Stub9, Dead, Panic9, Outside, Places, Unlinked11, Sent,
     Received, Behind, HandshakeOK, LinkPcs, LinkWords11, LinkWords9, CountOK, CallsOK,
     PanicsOK, RepliesOK, LaunchOK, Off, Words9, PxiPlain, fifos,
     arm9, arm11, flags
<1>6. CASE Reply11
  BY <1>6 DEF Reply11, Enter11, RespCode, RespResult, Woken, Masked11, Init9, Panic11s,
     Code9, Body, CmdWord, PanicWord, Stub11, Stub9, Dead, Panic9, Outside, Places,
     Unlinked11, Sent, Received, Behind, HandshakeOK, LinkPcs, LinkWords11, LinkWords9,
     CountOK, CallsOK, PanicsOK, RepliesOK, LaunchOK, Off, Words9,
     PxiPlain, fifos, arm9, arm11, flags
<1>7. CASE AnswerPanic11
  BY <1>7 DEF AnswerPanic11, PanicCode, PanicResp11, PanicResult11, PanicSync11, Woken,
     Thread11, Thread9, Calling11, Waiting11, Masked11, Masked9, Init11, Init9,
     Panic11s, Code9, Body, CmdWord, PanicWord, Stub11, Stub9, Dead, Panic9, Outside,
     Places, Unlinked11, Sent, Received, Behind, HandshakeOK, LinkPcs, LinkWords11,
     LinkWords9, CountOK, CallsOK, PanicsOK, RepliesOK, LaunchOK, Off, Words9,
     PxiPlain, fifos, arm9, arm11, flags
<1>8. CASE Launching11
  BY <1>8 DEF Launching11, StubReady, StubEntry, StubGot, Panic11s, Code9, Body,
     CmdWord, PanicWord, Stub11, Stub9, Dead, Panic9, Outside, Places, Unlinked11, Sent,
     Received, Behind, HandshakeOK, LinkPcs, LinkWords11, LinkWords9, CountOK, CallsOK,
     PanicsOK, RepliesOK, LaunchOK, Off, Words9, PxiPlain, fifos,
     arm9, arm11, flags
<1>9. CASE Dying11
  <2>1. CASE PlainPanic11
    BY <2>1, PanicsPanic11
  <2>2. CASE Assert11
    BY <2>2 DEF Assert11, Waiting11, Body, Dead, Behind, CallsOK, PanicsOK, Off,
       Panic11s, Handling9, PxiPlain, fifos, arm9
  <2>3. CASE PanicSend11
    BY <2>3, PanicsPanicSend11
  <2>4. CASE PanicSyncReq11
    BY <2>4 DEF PanicSyncReq11, Panic11s, CmdWord, Stub9, Dead, Panic9, Outside, Places,
       Unlinked11, Sent, Received, Behind, HandshakeOK, LinkPcs, LinkWords11,
       LinkWords9, CountOK, CallsOK, PanicsOK, RepliesOK, LaunchOK, Off, Words9,
       PxiPlain, fifos, arm9, arm11, flags
  <2>5. CASE PanicDrain11
    BY <2>5, Recv11Receives DEF PanicDrain11, Panic11s, CmdWord, Stub11, Stub9, Dead,
       Panic9, Outside, Places, Unlinked11, Sent, Received, Behind, HandshakeOK,
       LinkPcs, LinkWords11, LinkWords9, CountOK, CallsOK, PanicsOK, RepliesOK,
       LaunchOK, Off, Words9, PxiPlain, fifos, arm9, arm11, flags
  <2> QED
    BY <1>9, <2>1, <2>2, <2>3, <2>4, <2>5 DEF Dying11
<1>10. CASE Link9
  <2>1. CASE Flush9 \/ Register9
    <3>1. Off' = Off
      BY <2>1 DEF Flush9, Register9, Off
    <3> QED
      BY <2>1, <3>1, PanicsQuiet DEF Flush9, Register9, fifos, arm11, flags
  <2>3. CASE Hello9
    <3>1. pc11 \in {"init", "hello"} /\ pc11' = pc11
      BY <2>3 DEF Hello9, PxiPlain, HandshakeOK, LinkPcs, arm11
    <3> QED
      BY <3>1 DEF PanicsOK, Panic11s
  <2>2. CASE Answer9
    BY <2>2, PanicsAnswer9
  <2> QED
    BY <1>10, <2>1, <2>2, <2>3 DEF Link9
<1>11. CASE Command9
  <2>1. CASE PlainEnter9
    BY <2>1 DEF PlainEnter9, Enter9, Woken, Thread9, CmdWord, PanicWord, Stub11, Stub9,
         Dead, Panic9,
       Outside, Places, Unlinked11, Sent, Received, Behind, HandshakeOK, LinkPcs,
       LinkWords11, LinkWords9, CountOK, CallsOK, PanicsOK, RepliesOK, LaunchOK, Off,
       Words9, PxiPlain, fifos, arm9, arm11, flags
  <2>2. CASE PlainRecvCode
    BY <2>2, PanicsCommand
  <2>3. CASE RecvArgs
    BY <2>3, PanicsCommand
  <2> QED
    BY <1>11, <2>1, <2>2, <2>3 DEF Command9
<1>12. CASE PlainExecute
  BY <1>12, PanicsCommand DEF PxiPlain
<1>13. CASE Reply9
  BY <1>13, PanicsReply9
<1>14. CASE Loop9
  <2>1. pc9 # "answer" /\ pc9' # "answer"
    BY <1>14 DEF Loop9, CheckLaunch, Wfi9, OtherIrq9
  <2> QED
    BY <1>14, <2>1, PanicsQuiet
       DEF Loop9, CheckLaunch, Wfi9, OtherIrq9, Off, fifos, arm11, flags
<1>15. CASE Launching9
  <2>1. CASE AwaitReady
    BY <2>1, PanicsAwait
  <2>2. CASE CopySections \/ SendEntry
    BY <2>2 DEF CopySections, SendEntry, Panic11s, PanicWord, Stub11, Stub9, Dead,
       Panic9, Outside, Places, Unlinked11, Sent, Received, Behind, HandshakeOK,
       LinkPcs, LinkWords11, LinkWords9, CountOK, CallsOK, PanicsOK, RepliesOK,
       LaunchOK, Off, Words9, PxiPlain, fifos, arm9, arm11, flags
  <2>3. CASE AwaitGot
    BY <2>3, PanicsAwait
  <2> QED
    BY <1>15, <2>1, <2>2, <2>3 DEF Launching9
<1>16. CASE Dying9
  BY <1>16 DEF Dying9, PanicStart9, PanicIn9, Assert9, PanicSend9, PanicSync9, PanicDrain9,
     Masked11, Masked9, Init11, Init9, Panic11s, Code9, Body, CmdWord, PanicWord,
     Stub11, Stub9, Dead, Panic9, Outside, Places, Unlinked11, Sent, Received, Behind,
     HandshakeOK, LinkPcs, LinkWords11, LinkWords9, CountOK, CallsOK, PanicsOK,
     RepliesOK, LaunchOK, Off, Words9, PxiPlain, fifos, arm9, arm11,
     flags
<1> QED
  BY <1>1, <1>2, <1>3, <1>4, <1>5, <1>6, <1>7, <1>8, <1>9, <1>10, <1>11, <1>12, <1>13,
     <1>14, <1>15, <1>16 DEF PlainNext

-----------------------------------------------------------------------------
(* Responses on their way to the ARM11.                                    *)

\* A word that is not part of a response came from a dead ARM9 or a stub.
LEMMA ExtraTail ==
  ASSUME Received(to11, to11'), UNCHANGED <<Dead, pc9>>
  PROVE  /\ Extra(0) => Head(to11) \in {PanicWord, EntryWord} /\ Extra(0)'
         /\ Extra(1) => Extra(0)'
         /\ Extra(2) => Extra(1)'
<1>1. /\ Len(to11) \in Nat \ {0} /\ Head(to11) = to11[1] /\ Len(to11') = Len(to11) - 1
      /\ \A i \in 1 .. Len(to11') : to11'[i] = to11[i + 1]
  BY DEF Received
<1>2. UNCHANGED <<PanicWord, EntryWord>>
  BY DEF PanicWord, EntryWord
<1>3. /\ Len(to11) - 1 = Len(to11')
      /\ \A i \in 1 .. Len(to11') : i + 1 \in 1 .. Len(to11)
  BY <1>1
<1>4. ASSUME NEW n \in {0, 1}, Behind(to11, n + 1, {PanicWord, EntryWord})
      PROVE  Behind(to11', n, {PanicWord, EntryWord}')
  <2>1. \A i \in n + 1 .. Len(to11') :
           i \in 1 .. Len(to11') /\ i + 1 \in (n + 1) + 1 .. Len(to11)
    BY <1>1, <1>4
  <2> QED BY <1>1, <1>2, <1>4, <2>1 DEF Behind
<1>5. Extra(1) => Extra(0)'
  BY <1>1, <1>2, <1>4 DEF Extra
<1>6. Extra(2) => Extra(1)'
  BY <1>1, <1>2, <1>4 DEF Extra
<1>7. Extra(0) => Head(to11) \in {PanicWord, EntryWord} /\ Extra(0)'
  <2>1. ASSUME Extra(0)
        PROVE  Behind(to11', 0, {PanicWord, EntryWord}')
    <3>1. \A i \in 0 + 1 .. Len(to11') : i + 1 \in 0 + 1 .. Len(to11)
      BY <1>1
    <3>2. \A i \in 0 + 1 .. Len(to11) : to11[i] \in {PanicWord, EntryWord}
      BY <2>1 DEF Extra, Behind
    <3>3. \A i \in 0 + 1 .. Len(to11') : to11'[i] = to11[i + 1]
      BY <1>1
    <3> QED BY <1>2, <3>1, <3>2, <3>3 DEF Behind
  <2>2. ASSUME Extra(0)
        PROVE  Head(to11) \in {PanicWord, EntryWord}
    BY <1>1, <2>2 DEF Extra, Behind
  <2> QED BY <1>1, <2>1, <2>2 DEF Extra
<1> QED
  BY <1>5, <1>6, <1>7

\* The greeting is no response.
LEMMA RepliesHello11 == ASSUME PxiPlain, Hello11 PROVE RepliesOK'
<1>1. /\ Received(to11, to11') /\ pc11 = "hello"
      /\ pc11' = IF Head(to11)[1] = "99" THEN "answer" ELSE "hello"
      /\ UNCHANGED <<sync11, cmd, call, resp, h11, served, pc9, h9>>
  BY Recv11Receives DEF Hello11, PxiPlain, arm9, flags
<1>2. Len(to11) \in Nat \ {0} /\ Head(to11) = to11[1] /\ Len(to11') = Len(to11) - 1
  BY <1>1 DEF Received
<1>3. NoReply' /\ h11' = "none"
  BY <1>1 DEF PxiPlain, RepliesOK, NoReply, Quiet11, Dead, HandshakeOK, LinkPcs,
     Masked11, Init11
<1>4. CASE pc9 = "init"
  <2>1. Head(to11)[1] = "old"
    BY <1>2, <1>4 DEF PxiPlain, HandshakeOK, LinkWords11, Behind, OldWord
  <2> QED
    BY <1>1, <1>3, <2>1 DEF RepliesOK, Outside, Stub11, Body, Waiting11
<1>5. CASE pc9 # "init"
  <2>1. Len(to11') = 0
    BY <1>1, <1>2, <1>5 DEF PxiPlain, HandshakeOK, LinkPcs, LinkWords11, LinkWords9
  <2>2. Extra(0)'
    BY <2>1 DEF Extra, Behind
  <2> QED
    BY <1>1, <1>3, <2>2 DEF RepliesOK, Outside, Stub11, Body, Waiting11
<1> QED
  BY <1>4, <1>5

\* Where the handler of the ARM11 can run.
LEMMA Interrupted ==
  ASSUME PxiPlain, h11 # "none"
  PROVE  /\ pc11 \in {"ready", "send", "sync", "take"} \cup Body
         /\ h11 = "result" =>
              pc11 \in Body /\ served = call /\ (h9 = "none" \/ Dead) /\ HalfRead
         /\ h11 # "result" =>
              \/ Dead /\ Extra(0)
              \/ pc11 \in Body /\ served = call /\ (h9 = "none" \/ Dead) /\ Coming11
<1>1. pc11 \in {"ready", "send", "sync", "take"} \cup Body
  BY TypeParts DEF PxiPlain, HandshakeOK, LinkPcs, Places, Calling11, Body
<1>2. h9 \in {"resp", "result", "done"} => ~Dead
  BY DEF Dead, Panic9
<1> QED
  BY <1>1, <1>2 DEF PxiPlain, RepliesOK, Outside, NoReply, Read11, Quiet11, Coming11,
       HalfRead

\* The handler reads the two words of a response in order.
LEMMA RepliesRespCode == ASSUME PxiPlain, RespCode PROVE RepliesOK'
<1>1. /\ Received(to11, to11') /\ h11 = "code" /\ Head(to11)[1] = "resp"
      /\ resp' = <<Head(to11)[2], resp[2]>> /\ h11' = "result"
      /\ UNCHANGED <<sync11, pc11, cmd, call, served, pc9, h9>>
  BY Recv11Receives DEF RespCode, PxiPlain, arm9, flags
<1>2. UNCHANGED <<Dead, RespWord, ResultWord>>
  BY <1>1 DEF Dead, RespWord, ResultWord
<1>3. ~Extra(0)
  BY <1>1, <1>2, ExtraTail DEF PanicWord, EntryWord
<1>4. pc11 \in Body /\ served = call /\ (h9 = "none" \/ Dead) /\ Coming11
  BY <1>1, <1>3, Interrupted
<1>5. Extra(1)' /\ resp'[1] = cmd /\ to11'[1] = ResultWord
  BY <1>1, <1>2, <1>4, ExtraTail DEF Coming11, Extra, Received, RespWord
<1>6. HalfRead'
  BY <1>1, <1>2, <1>4, <1>5 DEF HalfRead, Coming11
<1> QED
  BY <1>1, <1>2, <1>4, <1>6 DEF RepliesOK, Body, Waiting11, Outside, Stub11

LEMMA RepliesRespResult == ASSUME PxiPlain, RespResult PROVE RepliesOK'
<1>1. /\ Received(to11, to11') /\ h11 = "result"
      /\ resp' = <<resp[1], Head(to11)[3]>> /\ h11' = "none"
      /\ UNCHANGED <<sync11, pc11, cmd, call, served, pc9, h9>>
  BY Recv11Receives DEF RespResult, PxiPlain, arm9, flags
<1>2. UNCHANGED <<Dead, ResultWord>>
  BY <1>1 DEF Dead, ResultWord
<1>3. pc11 \in Body /\ served = call /\ (h9 = "none" \/ Dead) /\ HalfRead
  BY <1>1, Interrupted
<1>4. Extra(0)' /\ resp' = <<cmd, call>>
  BY <1>1, <1>2, <1>3, ExtraTail DEF HalfRead, Received, ResultWord
<1>5. Read11'
  BY <1>1, <1>2, <1>3, <1>4 DEF HalfRead, Read11, Quiet11
<1> QED
  BY <1>1, <1>2, <1>3, <1>5 DEF RepliesOK, Body, Waiting11, Outside, Stub11

\* A command to the ARM11 can only be the panic of a dead ARM9.
LEMMA RepliesPanicCode == ASSUME PxiPlain, PanicCode PROVE RepliesOK'
<1>1. /\ Received(to11, to11') /\ h11 = "code" /\ Head(to11)[1] = "cmd"
      /\ h11' = "panicResp"
      /\ UNCHANGED <<sync11, pc11, cmd, call, resp, served, pc9, h9>>
  BY Recv11Receives DEF PanicCode, PxiPlain, arm9, flags
<1>2. UNCHANGED Dead
  BY <1>1 DEF Dead
<1>3. ~Coming11
  BY <1>1 DEF Coming11, RespWord, Received
<1>4. Dead /\ Extra(0) /\ Extra(0)' /\ ~HalfRead
  BY <1>1, <1>2, <1>3, Interrupted, ExtraTail DEF HalfRead
<1>5. (NoReply => NoReply') /\ (Read11 => Read11') /\ pc11 \notin {"init", "hello"}
  BY <1>1, <1>2, <1>4 DEF NoReply, Read11, Quiet11, PxiPlain, HandshakeOK, LinkPcs,
     Masked11, Init11
<1>6. h9 \notin {"result", "done"}
  BY <1>4 DEF Dead, Panic9
<1> QED
  BY <1>1, <1>2, <1>3, <1>4, <1>5, <1>6 DEF PxiPlain, RepliesOK

\* The stub of the ARM11 waits for a single word.
LEMMA RepliesStubEntry == ASSUME PxiPlain, StubEntry PROVE RepliesOK'
<1>1. /\ Received(to11, to11') /\ pc11 = "entry" /\ pc11' = "got"
      /\ UNCHANGED <<sync11, cmd, call, resp, h11, served, pc9, h9>>
  BY Recv11Receives DEF StubEntry, PxiPlain, arm9, flags
<1>2. UNCHANGED Dead
  BY <1>1 DEF Dead
<1>3. NoReply /\ Extra(0) /\ Extra(0)'
  BY <1>1, <1>2, ExtraTail DEF PxiPlain, RepliesOK, Outside, Stub11
<1>4. NoReply'
  BY <1>1, <1>2, <1>3 DEF NoReply, Quiet11
<1> QED
  BY <1>1, <1>2, <1>3, <1>4 DEF PxiPlain, RepliesOK, Body, Waiting11

\* Where the handler of the ARM9 sends its response.
LEMMA Answering ==
  ASSUME PxiPlain, h9 \in {"resp", "result"}, pc11 \notin Panic11s
  PROVE  /\ pc11 \in Body /\ served = call /\ in9[1] = CmdWord /\ NoReply
         /\ h9 = "resp" => Len(to11) = 0
         /\ h9 = "result" => Len(to11) = 1 /\ to11[1] = RespWord
<1>1. ~Dead /\ pc9 \notin Masked9
  BY DEF PxiPlain, HandshakeOK, LinkPcs, LinkWords11, LinkWords9, Dead, Panic9
<1>2. pc11 \in Body /\ served = call /\ in9[1] = CmdWord
  BY <1>1 DEF PxiPlain, CallsOK
<1> QED
  BY <1>1, <1>2, Numbers DEF PxiPlain, RepliesOK, Extra, Masked9

\* The response it sends is that of the call.
LEMMA RepliesSend == ASSUME PxiPlain, SendResp \/ SendResult PROVE RepliesOK'
<1>1. /\ h9 \in {"resp", "result"} /\ h9' = IF h9 = "resp" THEN "result" ELSE "done"
      /\ Sent(to11, to11', <<IF h9 = "resp" THEN "resp" ELSE "result", Code9, in9[1][3]>>)
      /\ UNCHANGED <<sync11, pc11, cmd, call, resp, h11, served, pc9>>
  BY Send11Sends DEF SendResp, SendResult, PxiPlain, arm11, flags
<1>2. UNCHANGED <<Dead, RespWord, ResultWord>> /\ ~Dead
  BY <1>1 DEF Dead, Panic9, RespWord, ResultWord
<1>3. CASE pc11 \in Panic11s
  BY <1>1, <1>3 DEF PxiPlain, HandshakeOK, LinkPcs, RepliesOK, Outside, Stub11, Body,
     Waiting11, Masked11, Panic11s
<1>4. CASE pc11 \notin Panic11s
  <2>1. /\ pc11 \in Body /\ served = call /\ in9[1] = CmdWord /\ NoReply
        /\ h9 = "resp" => Len(to11) = 0
        /\ h9 = "result" => Len(to11) = 1 /\ to11[1] = RespWord
    BY <1>1, <1>4, Answering
  <2>2. NoReply'
    BY <1>1, <1>2, <2>1 DEF NoReply, Quiet11
  <2>3. /\ h9 = "resp" => Len(to11') = 1 /\ to11'[1] = RespWord
        /\ h9 = "result" => Len(to11') = 2 /\ to11'[1] = RespWord /\ to11'[2] = ResultWord
    BY <1>1, <2>1 DEF Sent, RespWord, ResultWord, Code9, CmdWord
  <2> QED
    BY <1>1, <1>2, <2>1, <2>2, <2>3 DEF PxiPlain, RepliesOK, Outside, Stub11, Body,
       Waiting11
<1> QED
  BY <1>3, <1>4

\* A dying ARM9 sends its panic behind what it sent before.
LEMMA RepliesPanicSend9 == ASSUME PxiPlain, PanicSend9 PROVE RepliesOK'
<1>1. /\ h9 \in {"panic", "assert"} /\ h9' \in {"panicSync", "assertSync"}
      /\ Sent(to11, to11', PanicWord)
      /\ UNCHANGED <<sync11, pc11, cmd, call, resp, h11, served, pc9>>
  BY Send11Sends DEF PanicSend9, PanicWord, PxiPlain, arm11, flags
<1>2. /\ UNCHANGED <<RespWord, ResultWord, PanicWord, EntryWord>> /\ Dead /\ Dead'
      /\ h9 \notin {"resp", "result", "done", "none"}
  BY <1>1 DEF Dead, Panic9, RespWord, ResultWord, PanicWord, EntryWord
<1>3. /\ Len(to11) \in Nat /\ Len(to11') = Len(to11) + 1 /\ to11'[Len(to11')] = PanicWord
      /\ \A i \in 1 .. Len(to11) : to11'[i] = to11[i]
  BY <1>1 DEF Sent
<1>4. \A n \in Nat : Extra(n) => Extra(n)'
  BY <1>2, <1>3 DEF Extra, Behind
<1>5. Extra(0) => Extra(0)'
  BY <1>4
<1>6. Coming11 => Coming11'
  <2>1. Extra(2) => Extra(2)'
    BY <1>4
  <2>2. Extra(2) => to11'[1] = to11[1] /\ to11'[2] = to11[2]
    BY <1>3 DEF Extra
  <2> QED
    BY <1>1, <1>2, <2>1, <2>2 DEF Coming11
<1>7. HalfRead => HalfRead'
  <2>1. Extra(1) => Extra(1)'
    BY <1>4
  <2>2. Extra(1) => to11'[1] = to11[1]
    BY <1>3 DEF Extra
  <2> QED
    BY <1>1, <1>2, <2>1, <2>2 DEF HalfRead
<1>8. (Read11 => Read11') /\ (NoReply => NoReply')
  BY <1>1, <1>2, <1>5 DEF Read11, NoReply, Quiet11
<1> QED
  BY <1>1, <1>2, <1>5, <1>6, <1>7, <1>8 DEF PxiPlain, RepliesOK

\* A step that touches neither the words nor the handlers, and stays inside the
\* call or outside it.
LEMMA RepliesQuiet ==
  ASSUME PxiPlain,
         UNCHANGED <<to11, sync11, cmd, call, resp, h11, served, pc9, h9>>,
         \/ pc11' = pc11
         \/ pc11 \in Body /\ pc11' \in Body
  PROVE  RepliesOK'
<1>1. UNCHANGED <<RespWord, ResultWord, Dead, Quiet11, NoReply, Coming11, HalfRead, Read11>>
  BY DEF RespWord, ResultWord, Dead, Quiet11, NoReply, Coming11, HalfRead, Read11,
         Extra, Behind
<1>2. Extra(0)' <=> Extra(0)
  BY <1>1 DEF Extra, Behind, PanicWord, EntryWord
<1>3. pc11 \in Body /\ pc11' \in Body =>
        pc11' \notin Outside \cup {"init", "hello", "take"}
  BY DEF Body, Waiting11, Outside, Stub11
<1> QED
  BY <1>1, <1>2, <1>3 DEF PxiPlain, RepliesOK

\* The call takes the response when it recognises it.
LEMMA RepliesCheckResp == ASSUME PxiPlain, CheckResp PROVE RepliesOK'
<1>1. /\ h11 = "none" /\ pc11 = "check" /\ pc11' = IF resp[1] = cmd THEN "take" ELSE "wfi"
      /\ UNCHANGED <<to11, sync11, cmd, call, resp, h11, served, pc9, h9>>
  BY DEF CheckResp, Thread11, fifos, arm9, flags
<1>2. CASE resp[1] # cmd
  BY <1>1, <1>2, RepliesQuiet DEF Body, Waiting11
<1>3. CASE resp[1] = cmd
  <2>1. cmd # NoCmd
    BY <1>1, InCall, CmdAssumption DEF Calling11, Waiting11
  <2>2. served = call /\ (h9 = "none" \/ Dead) /\ Read11
    BY <1>1, <1>3, <2>1 DEF PxiPlain, RepliesOK, Body, Waiting11, NoReply, Coming11,
       HalfRead
  <2>3. Dead' = Dead /\ Read11'
    BY <1>1, <2>2 DEF Dead, Read11, Extra, Behind, Quiet11, PanicWord, EntryWord
  <2>4. pc11' = "take" /\ h11' = "none"
    BY <1>1, <1>3
  <2> QED
    BY <1>1, <2>2, <2>3, <2>4 DEF RepliesOK, Outside, Stub11, Body, Waiting11
<1> QED
  BY <1>2, <1>3

\* All actions, as the ARM11 sees them.
LEMMA RepliesStep == ASSUME PxiPlain, PlainNext PROVE RepliesOK'
<1>1. CASE Link11
  <2>1. CASE Flush11 \/ Answer11 \/ Register11
    BY <2>1, Send9Sends DEF Flush11, Answer11, Register11, Waiting11, Panic11s, Code9,
       Body, CmdWord, PanicWord, Stub11, Stub9, Dead, Panic9, Outside, Places,
       Unlinked11, Sent, Received, Behind, HandshakeOK, LinkPcs, LinkWords11,
       LinkWords9, CountOK, CallsOK, PanicsOK, RepliesOK, LaunchOK, RespWord,
       ResultWord, EntryWord, Extra, Quiet11, NoReply, Coming11, HalfRead, Read11,
       PxiPlain, fifos, arm9, arm11, flags
  <2>2. CASE Hello11
    BY <2>2, RepliesHello11
  <2> QED
    BY <1>1, <2>1, <2>2 DEF Link11
<1>2. CASE \E c \in Cmds : Call(c)
  BY <1>2 DEF Call, Waiting11, Body, Stub11, Stub9, Dead, Panic9, Outside, Places,
     Unlinked11, Sent, Received, Behind, HandshakeOK, LinkPcs, LinkWords11, LinkWords9,
     CountOK, CallsOK, PanicsOK, RepliesOK, LaunchOK, RespWord, ResultWord, EntryWord,
     Extra, Quiet11, NoReply, Coming11, HalfRead, Read11, PxiPlain, fifos, arm9, arm11,
     flags
<1>3. CASE Sending11
  <2>1. CASE SendCmd
    BY <2>1, Send9Sends DEF SendCmd, Stub11, Stub9, Dead, Panic9, Outside, Places,
       Unlinked11, Sent, Received, Behind, HandshakeOK, LinkPcs, LinkWords11,
       LinkWords9, CountOK, CallsOK, PanicsOK, RepliesOK, LaunchOK, RespWord,
       ResultWord, EntryWord, Extra, Quiet11, NoReply, Coming11, HalfRead, Read11,
       PxiPlain, fifos, arm9, arm11, flags
  <2>2. CASE SyncCmd
    BY <2>2 DEF SyncCmd, Stub9, Dead, Panic9, Outside, Places, Unlinked11, Sent,
       Received, Behind, HandshakeOK, LinkPcs, LinkWords11, LinkWords9, CountOK,
       CallsOK, PanicsOK, RepliesOK, LaunchOK, RespWord, ResultWord, EntryWord, Extra,
       Quiet11, NoReply, Coming11, HalfRead, Read11, PxiPlain, fifos, arm9, arm11, flags
  <2>3. CASE SendArg
    BY <2>3, Send9Sends, RepliesQuiet DEF SendArg, PxiPlain, arm9, flags
  <2>4. CASE AllSent
    BY <2>4 DEF AllSent, Body, Stub11, Stub9, Dead, Panic9, Outside, Places, Unlinked11,
       Sent, Received, Behind, HandshakeOK, LinkPcs, LinkWords11, LinkWords9, CountOK,
       CallsOK, PanicsOK, RepliesOK, LaunchOK, RespWord, ResultWord, EntryWord, Extra,
       Quiet11, NoReply, Coming11, HalfRead, Read11, PxiPlain, fifos, arm9, arm11, flags
  <2> QED
    BY <1>3, <2>1, <2>2, <2>3, <2>4 DEF Sending11
<1>4. CASE Awaiting11
  <2>1. CASE CheckResp
    BY <2>1, RepliesCheckResp
  <2>2. CASE Wfi11 \/ OtherIrq11
    BY <2>2, RepliesQuiet DEF Wfi11, OtherIrq11, Body, Waiting11, fifos, arm9, flags
  <2>3. CASE GfxSwitch
    BY <2>3, RepliesQuiet DEF GfxSwitch, fifos, arm9, flags
  <2> QED
    BY <1>4, <2>1, <2>2, <2>3 DEF Awaiting11
<1>5. CASE TakeResp
  BY <1>5 DEF TakeResp, Waiting11, Body, Stub11, Stub9, Dead, Panic9, Outside, Places,
     Unlinked11, Sent, Received, Behind, HandshakeOK, LinkPcs, LinkWords11, LinkWords9,
     CountOK, CallsOK, PanicsOK, RepliesOK, LaunchOK, RespWord, ResultWord, EntryWord,
     Extra, Quiet11, NoReply, Coming11, HalfRead, Read11, PxiPlain, fifos, arm9, arm11,
     flags
<1>6. CASE Reply11
  <2>1. CASE Enter11
    BY <2>1 DEF Enter11, Woken, Thread11, Waiting11, Body, CmdWord, PanicWord, Stub11,
       Stub9, Dead, Panic9, Outside, Places, Unlinked11, Sent, Received, Behind,
       HandshakeOK, LinkPcs, LinkWords11, LinkWords9, CountOK, CallsOK, PanicsOK,
       RepliesOK, LaunchOK, RespWord, ResultWord, EntryWord, Extra, Quiet11, NoReply,
       Coming11, HalfRead, Read11, PxiPlain, fifos, arm9, arm11, flags
  <2>2. CASE RespCode
    BY <2>2, RepliesRespCode
  <2>3. CASE RespResult
    BY <2>3, RepliesRespResult
  <2> QED
    BY <1>6, <2>1, <2>2, <2>3 DEF Reply11
<1>7. CASE AnswerPanic11
  <2>1. CASE PanicCode
    BY <2>1, RepliesPanicCode
  <2>2. CASE PanicResp11 \/ PanicResult11 \/ PanicSync11
    BY <2>2, Send9Sends DEF PanicResp11, PanicResult11, PanicSync11, Thread11, Thread9,
       Calling11, Waiting11, Masked11, Masked9, Init11, Init9, Panic11s, Code9, Body,
       CmdWord, PanicWord, Stub11, Stub9, Dead, Panic9, Outside, Places, Unlinked11,
       Sent, Received, Behind, HandshakeOK, LinkPcs, LinkWords11, LinkWords9, CountOK,
       CallsOK, PanicsOK, RepliesOK, LaunchOK, RespWord, ResultWord, EntryWord, Extra,
       Quiet11, NoReply, Coming11, HalfRead, Read11, PxiPlain, fifos, arm9, arm11, flags
  <2> QED
    BY <1>7, <2>1, <2>2 DEF AnswerPanic11
<1>8. CASE Launching11
  <2>1. CASE StubReady \/ StubGot
    BY <2>1, Send9Sends DEF StubReady, StubGot, Waiting11, Body, CmdWord, PanicWord,
       Stub11, Stub9, Dead, Panic9, Outside, Places, Unlinked11, Sent, Received, Behind,
       HandshakeOK, LinkPcs, LinkWords11, LinkWords9, CountOK, CallsOK, PanicsOK,
       RepliesOK, LaunchOK, RespWord, ResultWord, EntryWord, Extra, Quiet11, NoReply,
       Coming11, HalfRead, Read11, PxiPlain, fifos, arm9, arm11, flags
  <2>2. CASE StubEntry
    BY <2>2, RepliesStubEntry
  <2> QED
    BY <1>8, <2>1, <2>2 DEF Launching11
<1>9. CASE Dying11
  BY <1>9, Numbers, TypeParts, Send9Sends, Recv11Receives DEF Dying11, PlainPanic11,
       Panic11,
     Assert11, PanicSend11, PanicSyncReq11, PanicDrain11, Woken, Thread11, Thread9,
     Calling11, Waiting11, Masked11, Masked9, Init11, Init9, Panic11s, Code9, Body,
     CmdWord, PanicWord, Stub11, Stub9, Dead, Panic9, Outside, Places, Unlinked11, Sent,
     Received, Behind, HandshakeOK, LinkPcs, LinkWords11, LinkWords9, CountOK, CallsOK,
     PanicsOK, RepliesOK, LaunchOK, RespWord, ResultWord, EntryWord, Extra, Quiet11,
     NoReply, Coming11, HalfRead, Read11, PxiPlain, fifos, arm9, arm11, flags
<1>10. CASE Link9
  BY <1>10, Recv9Receives DEF Link9, Flush9, Hello9, Answer9, Register9, Waiting11,
     Masked9, Init11, Init9, Panic11s, Code9, Body, CmdWord, PanicWord, Stub11, Stub9,
     Dead, Panic9, Outside, Places, Unlinked11, Sent, Received, Behind, HandshakeOK,
     LinkPcs, LinkWords11, LinkWords9, CountOK, CallsOK, PanicsOK, RepliesOK, LaunchOK,
     RespWord, ResultWord, EntryWord, Extra, Quiet11, NoReply, Coming11, HalfRead,
     Read11, PxiPlain, fifos, arm9, arm11, flags
<1>11. CASE Command9
  BY <1>11, Recv9Receives DEF Command9, PlainEnter9, Enter9, PlainRecvCode, RecvCode,
       RecvArgs, Woken, Thread11,
     Thread9, Calling11, Waiting11, Masked11, Masked9, Init11, Init9, Panic11s, Code9,
     Body, CmdWord, PanicWord, Stub11, Stub9, Dead, Panic9, Outside, Places, Unlinked11,
     Sent, Received, Behind, HandshakeOK, LinkPcs, LinkWords11, LinkWords9, CountOK,
     CallsOK, PanicsOK, RepliesOK, LaunchOK, RespWord, ResultWord, EntryWord, Extra,
     Quiet11, NoReply, Coming11, HalfRead, Read11, PxiPlain, fifos, arm9, arm11, flags
<1>12. CASE PlainExecute
  BY <1>12 DEF PlainExecute, Execute, Stub9, Dead, Panic9, Outside, Places, Unlinked11,
       Sent,
     Received, Behind, HandshakeOK, LinkPcs, LinkWords11, LinkWords9, CountOK, CallsOK,
     PanicsOK, RepliesOK, LaunchOK, RespWord, ResultWord, EntryWord, Extra, Quiet11,
     NoReply, Coming11, HalfRead, Read11, PxiPlain, fifos, arm9, arm11, flags
<1>13. CASE Reply9
  <2>1. CASE SendResp
    BY <2>1, RepliesSend
  <2>2. CASE SendResult
    BY <2>2, RepliesSend
  <2>3. CASE PlainSyncResp
    BY <2>3 DEF PlainSyncResp, SyncResp, Return9, Waiting11, Panic11s, Body, Stub11,
         Stub9, Dead, Panic9,
       Outside, Places, Unlinked11, Sent, Received, Behind, HandshakeOK, LinkPcs,
       LinkWords11, LinkWords9, CountOK, CallsOK, PanicsOK, RepliesOK, LaunchOK,
       RespWord, ResultWord, EntryWord, Extra, Quiet11, NoReply, Coming11, HalfRead,
       Read11, PxiPlain, fifos, arm9, arm11, flags
  <2> QED
    BY <1>13, <2>1, <2>2, <2>3 DEF Reply9
<1>14. CASE Loop9
  BY <1>14 DEF Loop9, CheckLaunch, Wfi9, OtherIrq9, Panic11s, Code9, Body, CmdWord,
     PanicWord, Stub11, Stub9, Dead, Panic9, Outside, Places, Unlinked11, Sent,
     Received, Behind, HandshakeOK, LinkPcs, LinkWords11, LinkWords9, CountOK, CallsOK,
     PanicsOK, RepliesOK, LaunchOK, RespWord, ResultWord, EntryWord, Extra, Quiet11,
     NoReply, Coming11, HalfRead, Read11, PxiPlain, fifos, arm9, arm11, flags
<1>15. CASE Launching9
  BY <1>15, Send11Sends, Recv9Receives DEF Launching9, AwaitReady, CopySections,
     SendEntry, AwaitGot, Masked11, Masked9, Init11, Init9, Panic11s, Code9, Body,
     CmdWord, PanicWord, Stub11, Stub9, Dead, Panic9, Outside, Places, Unlinked11, Sent,
     Received, Behind, HandshakeOK, LinkPcs, LinkWords11, LinkWords9, CountOK, CallsOK,
     PanicsOK, RepliesOK, LaunchOK, RespWord, ResultWord, EntryWord, Extra, Quiet11,
     NoReply, Coming11, HalfRead, Read11, PxiPlain, fifos, arm9, arm11, flags
<1>16. CASE Dying9
  <2>1. CASE PanicStart9
    BY <2>1 DEF PanicStart9, PanicIn9, Stub9, Dead, Panic9, Outside, Places, Unlinked11,
         Sent,
       Received, Behind, HandshakeOK, LinkPcs, LinkWords11, LinkWords9, CountOK,
       CallsOK, PanicsOK, RepliesOK, LaunchOK, RespWord, ResultWord, EntryWord, Extra,
       Quiet11, NoReply, Coming11, HalfRead, Read11, PxiPlain, fifos, arm9, arm11, flags
  <2>2. CASE Assert9
    BY <2>2 DEF Assert9, Stub9, Dead, Panic9, Outside, Places, Unlinked11, Sent,
       Received, Behind, HandshakeOK, LinkPcs, LinkWords11, LinkWords9, CountOK,
       CallsOK, PanicsOK, RepliesOK, LaunchOK, RespWord, ResultWord, EntryWord, Extra,
       Quiet11, NoReply, Coming11, HalfRead, Read11, PxiPlain, fifos, arm9, arm11, flags
  <2>3. CASE PanicSend9
    BY <2>3, RepliesPanicSend9
  <2>4. CASE PanicSync9
    BY <2>4 DEF PanicSync9, Stub9, Dead, Panic9, Outside, Places, Unlinked11, Sent,
       Received, Behind, HandshakeOK, LinkPcs, LinkWords11, LinkWords9, CountOK,
       CallsOK, PanicsOK, RepliesOK, LaunchOK, RespWord, ResultWord, EntryWord, Extra,
       Quiet11, NoReply, Coming11, HalfRead, Read11, PxiPlain, fifos, arm9, arm11, flags
  <2>5. CASE PanicDrain9
    BY <2>5, Recv9Receives DEF PanicDrain9, Stub11, Stub9, Dead, Panic9, Outside,
       Places, Unlinked11, Sent, Received, Behind, HandshakeOK, LinkPcs, LinkWords11,
       LinkWords9, CountOK, CallsOK, PanicsOK, RepliesOK, LaunchOK, RespWord,
       ResultWord, EntryWord, Extra, Quiet11, NoReply, Coming11, HalfRead, Read11,
       PxiPlain, fifos, arm9, arm11, flags
  <2> QED
    BY <1>16, <2>1, <2>2, <2>3, <2>4, <2>5 DEF Dying9
<1> QED
  BY <1>1, <1>2, <1>3, <1>4, <1>5, <1>6, <1>7, <1>8, <1>9, <1>10, <1>11, <1>12, <1>13,
     <1>14, <1>15, <1>16 DEF PlainNext

-----------------------------------------------------------------------------
(* Types.                                                                  *)

\* When the ARM9 executes, its words are known.
LEMMA Executing ==
  ASSUME PxiPlain, h9 = "exec"
  PROVE  /\ pc9 \notin Masked9 /\ ~Dead
         /\ \/ served = call /\ in9[1] = PanicWord /\ pc11 \in Panic11s
            \/ /\ served # call /\ in9[1] = CmdWord /\ in9[2] = Args[cmd] /\ cmd \in Cmds
               /\ pc11 \in Body /\ Len(to9) = 0
<1>1. pc9 \notin Masked9 /\ ~Dead
  BY DEF PxiPlain, HandshakeOK, LinkPcs, Dead, Panic9
<1>2. pc11 \in Body \/ pc11 \in Panic11s
  BY <1>1 DEF PxiPlain, CallsOK
<1>3. CASE pc11 \in Body
  <2>1. /\ served # call /\ in9[1] = CmdWord /\ in9[2] = Args[cmd]
        /\ in9[2] + Len(to9) = SentArgs
    BY <1>1, <1>3 DEF PxiPlain, CallsOK, Body, Waiting11, Panic11s
  <2>2. cmd \in Cmds /\ Args[cmd] \in Nat /\ SentArgs \in Nat /\ SentArgs <= Args[cmd]
    BY <1>3, InCall DEF Body, Calling11
  <2>3. Len(to9) = 0
    BY <2>1, <2>2, Numbers
  <2> QED
    BY <1>1, <1>3, <2>1, <2>2, <2>3
<1>4. CASE pc11 \in Panic11s
  <2>1. served = call
    BY <1>4 DEF PxiPlain, CountOK, Calling11, Waiting11, Panic11s
  <2> QED
    BY <1>1, <1>4, <2>1 DEF PxiPlain, PanicsOK
<1> QED
  BY <1>2, <1>3, <1>4

\* What is kept of a response is of its type.
LEMMA DataReply == ASSUME PxiPlain, RespCode \/ RespResult PROVE Data'
<1>1. UNCHANGED <<cmd, call, sent, served, in9>>
  BY DEF RespCode, RespResult, arm9, flags
<1>2. resp' \in (Cmds \cup {NoCmd}) \X (0 .. MaxCalls)
  <2>1. /\ resp \in (Cmds \cup {NoCmd}) \X (0 .. MaxCalls) /\ call \in 0 .. MaxCalls
        /\ cmd \in Cmds \cup {NoCmd}
    BY TypeParts DEF PxiPlain, Data
  <2>2. CASE RespCode
    <3>1. /\ Received(to11, to11') /\ h11 = "code" /\ Head(to11)[1] = "resp"
          /\ UNCHANGED <<h9, pc9>>
      BY <2>2, Recv11Receives DEF RespCode, PxiPlain, arm9
    <3>2. Coming11
      BY <3>1, Interrupted, ExtraTail DEF PanicWord, EntryWord, Dead
    <3>3. Head(to11)[2] = cmd
      BY <3>1, <3>2 DEF Coming11, Received, RespWord
    <3> QED
      BY <2>1, <2>2, <3>3 DEF RespCode
  <2>3. CASE RespResult
    <3>1. Received(to11, to11') /\ HalfRead
      BY <2>3, Interrupted, Recv11Receives DEF RespResult, PxiPlain
    <3>2. Head(to11)[3] = call
      BY <3>1 DEF HalfRead, Received, ResultWord
    <3> QED
      BY <2>1, <2>3, <3>2 DEF RespResult
  <2> QED
    BY <2>2, <2>3
<1> QED
  BY <1>1, <1>2, TypeParts DEF PxiPlain, Data

\* The parts of the type invariant.  What a suspended handler holds is as good as
\* what a running one does.
LEMMA DataStep == ASSUME PxiIInv, Next PROVE Data'
<1>1. Data /\ Suspended /\ Queues
  BY TypeParts DEF PxiIInv
<1>2. CASE Step11
  <2>1. CASE RespCode \/ RespResult
    <3>1. ~cut
      BY <2>1 DEF PxiIInv, NestOK, LinkPcs, Masked11, Panic11s, RespCode, RespResult
    <3> QED
      BY <2>1, <3>1, DataReply DEF PxiIInv
  <2>2. CASE ~(RespCode \/ RespResult)
    BY <1>1, <1>2, <2>2 DEF Data, Step11, Flush11, Hello11, Answer11, Register11, SendCmd,
       SyncCmd, SendArg, AllSent, CheckResp, Wfi11, TakeResp, Enter11, PanicCode,
       PanicResp11, PanicResult11, PanicSync11, StubReady, StubEntry, StubGot,
       PanicSend11, PanicSyncReq11, PanicDrain11, arm9, flags
  <2> QED
    BY <2>1, <2>2
<1>3. CASE Step9
  <2>1. CASE RecvCode
    <3>1. Head(to9) \in Word
      BY <2>1, Recv9Receives DEF RecvCode, PxiIInv, Received
    <3>2. \A id \in Cmds \cup {Panic, NoCmd}, n \in 0 .. MaxParams : <<"arg", id, n>> \in Word
      BY ArgAssumption DEF Word
    <3>3. in9' \in Word \X Nat
      BY <1>1, <2>1, <3>1, <3>2 DEF RecvCode, Misread, PanicIn9, Data
    <3> QED
      BY <1>1, <2>1, <3>3 DEF RecvCode, Data, arm11
  <2>2. CASE SkipResult \/ SyncResp
    <3>1. in9' \in Word \X Nat
      <4>1. CASE outer = <<>>
        BY <1>1, <2>2, <4>1 DEF SkipResult, SyncResp, Return9, Data
      <4>2. CASE outer # <<>>
        <5>1. Head(outer) \in Handling9 \X (Word \X Nat)
          BY <1>1, <4>2, HeadTailProperties DEF Suspended
        <5> QED
          BY <2>2, <4>2, <5>1 DEF SkipResult, SyncResp, Return9
      <4> QED
        BY <4>1, <4>2
    <3> QED
      BY <1>1, <2>2, <3>1 DEF SkipResult, SyncResp, Data, arm11, flags
  <2>3. CASE Execute
    BY <1>1, <2>3 DEF Execute, Data, Word, arm11
  <2>4. CASE RecvArgs
    BY <1>1, <2>4 DEF RecvArgs, Data, arm11
  <2>5. CASE ~(RecvCode \/ SkipResult \/ SyncResp \/ Execute \/ RecvArgs)
    BY <1>1, <1>3, <2>5 DEF Data, Step9, Flush9, Hello9, Answer9, Register9, Enter9,
       ExecuteUnknown, SendResp, SendResult, CheckLaunch, Wfi9, AwaitReady, CopySections,
       SendEntry, AwaitGot, PanicSend9, PanicSync9, PanicDrain9, arm11, flags
  <2> QED
    BY <2>1, <2>2, <2>3, <2>4, <2>5
<1> QED
  BY <1>1, <1>2, <1>3, FifoAssumption DEF Next, Data, Call, OtherIrq11, OtherIrq9,
     GfxSwitch, RecvEmpty, Panic11, Assert11, PanicStart9, PanicIn9, Assert9, arm9,
     arm11, flags

LEMMA SuspendedStep == ASSUME PxiIInv, Next PROVE Suspended'
<1>1. Suspended /\ in9 \in Word \X Nat /\ h9 \in {"none"} \cup Handling9 \cup Panic9
  BY TypeParts DEF PxiIInv, Data, Places
<1>2. CASE SkipResult \/ SyncResp
  <2>1. outer' = outer \/ (outer # <<>> /\ outer' = Tail(outer))
    BY <1>2 DEF SkipResult, SyncResp, Return9
  <2> QED
    BY <1>1, <2>1, HeadTailProperties DEF Suspended
<1>3. CASE Enter9
  <2>1. CASE Thread9
    BY <1>1, <1>3, <2>1 DEF Enter9, Suspended
  <2>2. CASE ~Thread9
    <3>1. outer = <<>> /\ outer' = <<<<h9, in9>>>> \o outer
      BY <1>3, <2>2 DEF Enter9, PxiIInv, NestOK
    <3>2. <<h9, in9>> \in Handling9 \X (Word \X Nat)
      BY <1>1, <1>3, <2>2 DEF Enter9, Thread9
    <3>3. <<<<h9, in9>>>> \o outer = <<<<h9, in9>>>>
      BY <3>1
    <3>4. <<<<h9, in9>>>> \in Seq(Handling9 \X (Word \X Nat)) /\ Len(<<<<h9, in9>>>>) = 1
      BY <3>2
    <3> QED
      BY <3>1, <3>3, <3>4 DEF Suspended
  <2> QED
    BY <2>1, <2>2
<1>4. CASE ~(SkipResult \/ SyncResp \/ Enter9)
  <2>1. outer' = outer
    BY <1>4 DEF Next, Step11, Flush11, Hello11, Answer11, Register11, SendCmd, SyncCmd,
       SendArg, AllSent, CheckResp, Wfi11, TakeResp, Enter11, RespCode, RespResult,
       PanicCode, PanicResp11, PanicResult11, PanicSync11, StubReady, StubEntry, StubGot,
       PanicSend11, PanicSyncReq11, PanicDrain11, Step9, Flush9, Hello9, Answer9,
       Register9, RecvCode, RecvArgs, Execute, ExecuteUnknown, SendResp, SendResult,
       CheckLaunch, Wfi9, AwaitReady, CopySections, SendEntry, AwaitGot, PanicSend9,
       PanicSync9, PanicDrain9, Call, OtherIrq11, OtherIrq9, GfxSwitch, RecvEmpty,
       Panic11, Assert11, PanicStart9, PanicIn9, Assert9, arm9, nest
  <2> QED
    BY <1>1, <2>1 DEF Suspended
<1> QED
  BY <1>2, <1>3, <1>4

LEMMA PlacesStep == ASSUME Places, Suspended, Next PROVE Places'
<1>1. CASE Step11
  BY <1>1 DEF Places, Step11, Flush11, Hello11, Answer11, Register11, SendCmd, SyncCmd,
     SendArg, AllSent, CheckResp, Wfi11, TakeResp, Enter11, RespCode, RespResult,
     PanicCode, PanicResp11, PanicResult11, PanicSync11, StubReady, StubEntry, StubGot,
     PanicSend11, PanicSyncReq11, PanicDrain11, Woken, Masked11, Calling11, Waiting11,
     Panic11s, Init11, arm9
<1>2. CASE SkipResult \/ SyncResp
  <2>1. outer # <<>> => Head(outer)[1] \in Handling9
    <3>1. outer # <<>> => Head(outer) \in Handling9 \X (Word \X Nat)
      BY HeadTailProperties DEF Suspended
    <3> QED
      BY <3>1
  <2>2. h9' \in {"none"} \cup Handling9
    BY <1>2, <2>1 DEF SkipResult, SyncResp, Return9
  <2> QED
    BY <1>2, <2>2 DEF SkipResult, SyncResp, Places, arm11
<1>3. CASE Step9 /\ ~(SkipResult \/ SyncResp)
  BY <1>3 DEF Places, Step9, Flush9, Hello9, Answer9, Register9, Enter9, RecvCode,
     Misread, PanicIn9, RecvArgs, Execute, ExecuteUnknown, SendResp, SendResult,
     CheckLaunch, Wfi9, AwaitReady, CopySections, SendEntry, AwaitGot, PanicSend9,
     PanicSync9, PanicDrain9, Woken, Masked9, Panic9, Init9, Handling9, arm11
<1> QED
  BY <1>1, <1>2, <1>3 DEF Next, Places, Call, OtherIrq11, OtherIrq9, GfxSwitch,
     RecvEmpty, PanicIn9, Panic11, Assert11, PanicStart9, Assert9, arm9, arm11, Panic9,
     Masked11, Calling11, Waiting11, Panic11s, Init11

LEMMA FlagsStep == ASSUME Flags, Next PROVE Flags'
<1>1. CASE Step11
  BY <1>1 DEF Flags, Step11, Flush11, Hello11, Answer11, Register11, SendCmd, SyncCmd,
     SendArg, AllSent, CheckResp, Wfi11, TakeResp, Enter11, RespCode, RespResult,
     PanicCode, PanicResp11, PanicResult11, PanicSync11, StubReady, StubEntry, StubGot,
     PanicSend11, PanicSyncReq11, PanicDrain11, arm9, fifos, flags, nest
<1>2. CASE Step9
  BY <1>2 DEF Flags, Step9, Flush9, Hello9, Answer9, Register9, Enter9, RecvCode, Misread,
     PanicIn9, RecvArgs, Eat, SkipResult, Return9, Execute, ExecuteUnknown, SendResp,
     SendResult, SyncResp, CheckLaunch, Wfi9, AwaitReady, CopySections, SendEntry,
     AwaitGot, PanicSend9, PanicSync9, PanicDrain9, arm11, fifos, flags, nest
<1> QED
  BY <1>1, <1>2 DEF Next, Flags, Call, OtherIrq11, OtherIrq9, GfxSwitch, RecvEmpty,
     PanicIn9, Panic11, Assert11, PanicStart9, Assert9, arm9, arm11, fifos, flags, nest

LEMMA QueuesStep == ASSUME PxiTypeOK, Next PROVE Queues'
<1>1. Queues /\ Len(<<>>) <= FifoWords /\ <<>> \in Seq(Word)
  BY FifoAssumption, TypeParts
<1>2. /\ \A k \in {"99", "11", "resp", "result", "cmd"} :
           <<k, NoCmd, 0>> \in Word /\ <<k, Panic, 0>> \in Word
      /\ \A k \in {"ready", "entry", "got"} : <<k, Launch, 0>> \in Word
  BY CmdAssumption DEF Word
<1>3. <<"cmd", cmd, call>> \in Word /\ <<"arg", cmd, sent>> \in Word
  BY DEF Word, PxiTypeOK
<1>4. \A k \in {"resp", "result"} : <<k, Code9, in9[1][3]>> \in Word
  BY DEF Word, PxiTypeOK, Code9
<1>5. CASE Step11
  BY <1>1, <1>2, <1>3, <1>5, Send9Sends, Recv11Receives DEF Queues, Step11,
     Flush11, Hello11, Answer11, Register11, SendCmd, SyncCmd, SendArg, AllSent,
     CheckResp, Wfi11, TakeResp, Enter11, RespCode, RespResult, PanicCode, PanicResp11,
     PanicResult11, PanicSync11, StubReady, StubEntry, StubGot, PanicSend11,
     PanicSyncReq11, PanicDrain11, arm9, fifos, flags
<1>6. CASE Step9
  BY <1>1, <1>2, <1>4, <1>6, Send11Sends, Recv9Receives DEF Queues, Step9,
     Flush9, Hello9, Answer9, Register9, Enter9, RecvCode, RecvArgs, SkipResult, Execute,
     ExecuteUnknown, SendResp, SendResult, SyncResp, CheckLaunch, Wfi9, AwaitReady,
     CopySections, SendEntry, AwaitGot, PanicSend9, PanicSync9, PanicDrain9, arm11,
     fifos, flags
<1> QED
  BY <1>1, <1>5, <1>6 DEF Next, Queues, Call, OtherIrq11, OtherIrq9, GfxSwitch, RecvEmpty,
     Panic11, Assert11, PanicStart9, PanicIn9, Assert9, arm11, fifos, flags

LEMMA TypeStep == ASSUME PxiIInv, Next PROVE PxiTypeOK'
<1>1. Flags /\ Places /\ Suspended /\ PxiTypeOK
  BY TypeParts DEF PxiIInv
<1>2. Flags' /\ Places' /\ Queues' /\ Data' /\ Suspended'
  BY <1>1, FlagsStep, PlacesStep, QueuesStep, DataStep, SuspendedStep
<1>3. (Flags /\ Places /\ Queues /\ Data /\ Suspended)' => PxiTypeOK'
  BY TypeParts, PTL
<1> QED
  BY <1>2, <1>3

-----------------------------------------------------------------------------
(* The launch.                                                             *)

\* The ARM11 leaves its stub only with the word of the stub of the ARM9.
LEMMA LaunchStubEntry == ASSUME PxiPlain, StubEntry PROVE LaunchOK'
<1>1. /\ Len(to11) > 0 /\ pc11 = "entry" /\ pc11' = "got"
      /\ UNCHANGED <<cmd, call, g_startFirmLaunch, served, pc9, h9>>
  BY Recv11Receives DEF StubEntry, PxiPlain, Received, arm9, flags
<1>2. Extra(0)
  BY <1>1 DEF PxiPlain, RepliesOK, Outside, Stub11
<1>3. Dead \/ pc9 \in {"confirm", "gone"}
  BY <1>1, <1>2, Numbers DEF Extra
<1>4. pc9 \in Stub9 => ~Dead
  BY DEF PxiPlain, HandshakeOK, LinkPcs, Masked9, Stub9, Dead, Panic9
<1> QED
  BY <1>1, <1>3, <1>4 DEF PxiPlain, LaunchOK, Stub9, Stub11, Dead

\* The launch is the last call.
LEMMA LaunchExecute == ASSUME PxiPlain, PlainExecute PROVE LaunchOK'
<1>1. /\ h9 = "exec"
      /\ served' = IF Code9 = Panic THEN served ELSE in9[1][3]
      /\ g_startFirmLaunch' = (g_startFirmLaunch \/ Code9 = Launch)
      /\ UNCHANGED <<pc11, cmd, call, pc9>>
  BY DEF PlainExecute, Execute, arm11
<1>2. pc9 \notin Stub9 /\ pc9 \notin Masked9
  BY <1>1 DEF PxiPlain, HandshakeOK, LinkPcs, Masked9, Stub9
<1>3. CASE served = call
  <2>1. Code9 = Panic
    BY <1>1, <1>3, Executing DEF Code9, PanicWord
  <2>2. served' = served /\ (g_startFirmLaunch' => g_startFirmLaunch)
    BY <1>1, <2>1, Numbers
  <2> QED
    BY <1>1, <1>2, <2>2, Executing DEF PxiPlain, LaunchOK, Stub9, Dead
<1>4. CASE served # call
  <2>1. Code9 = cmd /\ in9[1][3] = call /\ cmd \in Cmds /\ pc11 \in Body
    BY <1>1, <1>4, Executing DEF Code9, CmdWord
  <2>2. served' = call
    BY <1>1, <2>1, Numbers
  <2>3. g_startFirmLaunch' => cmd = Launch
    BY <1>1, <2>1 DEF PxiPlain, LaunchOK
  <2> QED
    BY <1>1, <1>2, <2>1, <2>2, <2>3, Executing DEF PxiPlain, LaunchOK, Dead
<1> QED
  BY <1>3, <1>4

\* The ARM9 copies only after the word of the stub of the ARM11.
LEMMA LaunchAwaitReady == ASSUME PxiPlain, AwaitReady PROVE LaunchOK'
<1>1. /\ Received(to9, to9') /\ pc9 = "stub"
      /\ pc9' = IF Head(to9)[1] = "ready" THEN "copy" ELSE "stub"
      /\ UNCHANGED <<pc11, cmd, call, g_startFirmLaunch, served, h9>>
  BY Recv9Receives DEF AwaitReady, PxiPlain, arm11, flags
<1>2. h9 = "none" /\ ~Dead /\ Off = 0 /\ served = call /\ g_startFirmLaunch
  BY <1>1 DEF PxiPlain, HandshakeOK, LinkPcs, Masked9, Dead, Panic9, Off, LaunchOK, Stub9
<1>3. Len(to9) > 0 /\ Head(to9) = to9[1]
  BY <1>1 DEF Received
<1>4. CASE pc11 = "entry"
  BY <1>1, <1>2, <1>4 DEF PxiPlain, LaunchOK, Stub9, Stub11, Dead
<1>5. CASE pc11 \in Panic11s
  <2>1. Head(to9) = PanicWord
    BY <1>2, <1>3, <1>5, Numbers DEF PxiPlain, PanicsOK, Behind
  <2> QED
    BY <1>1, <2>1 DEF PxiPlain, LaunchOK, PanicWord, Dead
<1> QED
  BY <1>1, <1>2, <1>3, <1>5 DEF PxiPlain, LaunchOK, CallsOK, Stub11, Body

\* All actions, during a launch.
LEMMA LaunchStep == ASSUME PxiPlain, PlainNext PROVE LaunchOK'
<1>1. CASE Link11
  BY <1>1 DEF Link11, Flush11, Hello11, Answer11, Register11, Waiting11, Init11, Init9,
     Panic11s, Code9, Body, CmdWord, PanicWord, Stub11, Stub9, Dead, Panic9, Outside,
     Places, Unlinked11, Sent, Received, Behind, HandshakeOK, LinkPcs, LinkWords11,
     LinkWords9, CountOK, CallsOK, PanicsOK, RepliesOK, LaunchOK, Read11, ReadyWord,
     GotWord, PxiPlain, fifos, arm9, arm11, flags
<1>2. CASE \E c \in Cmds : Call(c)
  BY <1>2 DEF Call, Waiting11, Panic11s, Body, Stub11, Stub9, Dead, Panic9, Outside,
     Places, Unlinked11, Sent, Received, Behind, HandshakeOK, LinkPcs, LinkWords11,
     LinkWords9, CountOK, CallsOK, PanicsOK, RepliesOK, LaunchOK, Read11, ReadyWord,
     GotWord, PxiPlain, fifos, arm9, arm11, flags
<1>3. CASE Sending11
  BY <1>3 DEF Sending11, SendCmd, SyncCmd, SendArg, AllSent, Waiting11, Init11, Init9,
     Panic11s, Code9, Body, CmdWord, PanicWord, Stub11, Stub9, Dead, Panic9, Outside,
     Places, Unlinked11, Sent, Received, Behind, HandshakeOK, LinkPcs, LinkWords11,
     LinkWords9, CountOK, CallsOK, PanicsOK, RepliesOK, LaunchOK, Read11, ReadyWord,
     GotWord, PxiPlain, fifos, arm9, arm11, flags
<1>4. CASE Awaiting11
  BY <1>4 DEF Awaiting11, CheckResp, Wfi11, OtherIrq11, GfxSwitch, Waiting11, Init11,
     Init9, Panic11s, Code9, Body, CmdWord, PanicWord, Stub11, Stub9, Dead, Panic9,
     Outside, Places, Unlinked11, Sent, Received, Behind, HandshakeOK, LinkPcs,
     LinkWords11, LinkWords9, CountOK, CallsOK, PanicsOK, RepliesOK, LaunchOK, Read11,
     ReadyWord, GotWord, PxiPlain, fifos, arm9, arm11, flags
<1>5. CASE TakeResp
  BY <1>5 DEF TakeResp, Stub11, Stub9, Dead, Panic9, Outside, Places, Unlinked11, Sent,
     Received, Behind, HandshakeOK, LinkPcs, LinkWords11, LinkWords9, CountOK, CallsOK,
     PanicsOK, RepliesOK, LaunchOK, Read11, ReadyWord, GotWord, PxiPlain, fifos, arm9,
     arm11, flags
<1>6. CASE Reply11
  BY <1>6 DEF Reply11, Enter11, RespCode, RespResult, Woken, Thread11, Thread9,
     Calling11, Waiting11, Masked11, Masked9, Init11, Init9, Panic11s, Code9, Body,
     CmdWord, PanicWord, Stub11, Stub9, Dead, Panic9, Outside, Places, Unlinked11, Sent,
     Received, Behind, HandshakeOK, LinkPcs, LinkWords11, LinkWords9, CountOK, CallsOK,
     PanicsOK, RepliesOK, LaunchOK, Read11, ReadyWord, GotWord, PxiPlain, fifos, arm9,
     arm11, flags
<1>7. CASE AnswerPanic11
  BY <1>7 DEF AnswerPanic11, PanicCode, PanicResp11, PanicResult11, PanicSync11, Init11,
     Init9, Panic11s, Code9, Body, CmdWord, PanicWord, Stub11, Stub9, Dead, Panic9,
     Outside, Places, Unlinked11, Sent, Received, Behind, HandshakeOK, LinkPcs,
     LinkWords11, LinkWords9, CountOK, CallsOK, PanicsOK, RepliesOK, LaunchOK, Read11,
     ReadyWord, GotWord, PxiPlain, fifos, arm9, arm11, flags
<1>8. CASE Launching11
  <2>1. CASE StubReady \/ StubGot
    BY <2>1 DEF StubReady, StubGot, PanicWord, Stub11, Stub9, Dead, Panic9, Outside,
       Places, Unlinked11, Sent, Received, Behind, HandshakeOK, LinkPcs, LinkWords11,
       LinkWords9, CountOK, CallsOK, PanicsOK, RepliesOK, LaunchOK, Read11, ReadyWord,
       GotWord, PxiPlain, fifos, arm9, arm11, flags
  <2>2. CASE StubEntry
    BY <2>2, LaunchStubEntry
  <2> QED
    BY <1>8, <2>1, <2>2 DEF Launching11
<1>9. CASE Dying11
  BY <1>9 DEF Dying11, PlainPanic11, Panic11, Assert11, PanicSend11, PanicSyncReq11,
       PanicDrain11,
     Masked11, Masked9, Init11, Init9, Panic11s, Code9, Body, CmdWord, PanicWord,
     Stub11, Stub9, Dead, Panic9, Outside, Places, Unlinked11, Sent, Received, Behind,
     HandshakeOK, LinkPcs, LinkWords11, LinkWords9, CountOK, CallsOK, PanicsOK,
     RepliesOK, LaunchOK, Read11, ReadyWord, GotWord, PxiPlain, fifos, arm9, arm11, flags
<1>10. CASE Link9
  BY <1>10 DEF Link9, Flush9, Hello9, Answer9, Register9, Init11, Init9, Panic11s,
     Code9, Body, CmdWord, PanicWord, Stub11, Stub9, Dead, Panic9, Outside, Places,
     Unlinked11, Sent, Received, Behind, HandshakeOK, LinkPcs, LinkWords11, LinkWords9,
     CountOK, CallsOK, PanicsOK, RepliesOK, LaunchOK, Read11, ReadyWord, GotWord,
     PxiPlain, fifos, arm9, arm11, flags
<1>11. CASE Command9
  BY <1>11 DEF Command9, PlainEnter9, Enter9, PlainRecvCode, RecvCode, RecvArgs, Woken,
       Thread9, Init11, Init9,
     Panic11s, Code9, Body, CmdWord, PanicWord, Stub11, Stub9, Dead, Panic9, Outside,
     Places, Unlinked11, Sent, Received, Behind, HandshakeOK, LinkPcs, LinkWords11,
     LinkWords9, CountOK, CallsOK, PanicsOK, RepliesOK, LaunchOK, Read11, ReadyWord,
     GotWord, PxiPlain, fifos, arm9, arm11, flags
<1>12. CASE PlainExecute
  BY <1>12, LaunchExecute DEF PxiPlain
<1>13. CASE Reply9
  BY <1>13 DEF Reply9, SendResp, SendResult, PlainSyncResp, SyncResp, Return9, Panic11s,
       Code9, Body, CmdWord,
     PanicWord, Stub11, Stub9, Dead, Panic9, Outside, Places, Unlinked11, Sent,
     Received, Behind, HandshakeOK, LinkPcs, LinkWords11, LinkWords9, CountOK, CallsOK,
     PanicsOK, RepliesOK, LaunchOK, Read11, ReadyWord, GotWord, PxiPlain, fifos, arm9,
     arm11, flags
<1>14. CASE Loop9
  BY <1>14 DEF Loop9, CheckLaunch, Wfi9, OtherIrq9, Panic11s, Code9, Body, CmdWord,
     PanicWord, Stub11, Stub9, Dead, Panic9, Outside, Places, Unlinked11, Sent,
     Received, Behind, HandshakeOK, LinkPcs, LinkWords11, LinkWords9, CountOK, CallsOK,
     PanicsOK, RepliesOK, LaunchOK, Read11, ReadyWord, GotWord, PxiPlain, fifos, arm9,
     arm11, flags
<1>15. CASE Launching9
  <2>1. CASE AwaitReady
    BY <2>1, LaunchAwaitReady
  <2>2. CASE CopySections \/ SendEntry \/ AwaitGot
    BY <2>2, Recv9Receives DEF CopySections, SendEntry, AwaitGot, Masked9, Panic11s,
       Code9, Body, CmdWord, PanicWord, Stub11, Stub9, Dead, Panic9, Outside, Places,
       Unlinked11, Sent, Received, Behind, HandshakeOK, LinkPcs, LinkWords11,
       LinkWords9, CountOK, CallsOK, PanicsOK, RepliesOK, LaunchOK, Read11, ReadyWord,
       GotWord, PxiPlain, fifos, arm9, arm11, flags
  <2> QED
    BY <1>15, <2>1, <2>2 DEF Launching9
<1>16. CASE Dying9
  BY <1>16 DEF Dying9, PanicStart9, PanicIn9, Assert9, PanicSend9, PanicSync9, PanicDrain9,
     Masked11, Masked9, Init11, Init9, Panic11s, Code9, Body, CmdWord, PanicWord,
     Stub11, Stub9, Dead, Panic9, Outside, Places, Unlinked11, Sent, Received, Behind,
     HandshakeOK, LinkPcs, LinkWords11, LinkWords9, CountOK, CallsOK, PanicsOK,
     RepliesOK, LaunchOK, Read11, ReadyWord, GotWord, PxiPlain, fifos, arm9, arm11, flags
<1> QED
  BY <1>1, <1>2, <1>3, <1>4, <1>5, <1>6, <1>7, <1>8, <1>9, <1>10, <1>11, <1>12, <1>13,
     <1>14, <1>15, <1>16 DEF PlainNext

-----------------------------------------------------------------------------
(* The invariant, also after a panic inside a call.                        *)

\* Until then a handler runs undisturbed: the ARM11 raises no second interrupt.
LEMMA Undisturbed == ASSUME PxiPlain, h9 \in Handling9 PROVE ~sync9 /\ ~Dead
<1>1. ~Dead
  BY DEF Dead, Panic9, Handling9
<1>2. pc11 \in {"ready"} \cup Calling11 \cup Masked11
  BY DEF PxiPlain, PxiTypeOK
<1>3. CASE pc11 \in Panic11s
  BY <1>1, <1>3 DEF PxiPlain, PanicsOK
<1>4. CASE pc11 \notin Panic11s
  BY <1>1, <1>4 DEF PxiPlain, CallsOK, Handling9
<1> QED
  BY <1>1, <1>3, <1>4

\* Only a panic inside a call cuts one, and it stays cut.
LEMMA CutSteps ==
  ASSUME PxiIInv, Next
  PROVE  /\ cut => cut' /\ ~Panic11
         /\ ~cut /\ cut' => Panic11 /\ pc11 # "ready" /\ pc11 \notin Masked11
<1>1. CASE Panic11
  BY <1>1 DEF Panic11, PxiIInv, NestOK, Masked11, Panic11s
<1>2. CASE ~Panic11
  <2>1. cut' = cut
    <3>1. CASE Step11
      BY <3>1 DEF Step11, Flush11, Hello11, Answer11, Register11, SendCmd, SyncCmd,
         SendArg, AllSent, CheckResp, Wfi11, TakeResp, Enter11, RespCode, RespResult,
         PanicCode, PanicResp11, PanicResult11, PanicSync11, StubReady, StubEntry,
         StubGot, PanicSend11, PanicSyncReq11, PanicDrain11, arm9, flags
    <3>2. CASE Step9
      BY <3>2 DEF Step9, Flush9, Hello9, Answer9, Register9, Enter9, RecvCode,
         RecvArgs, SkipResult, Execute, ExecuteUnknown, SendResp, SendResult, SyncResp,
         CheckLaunch, Wfi9, AwaitReady, CopySections, SendEntry, AwaitGot, PanicSend9,
         PanicSync9, PanicDrain9, flags
    <3> QED
      BY <1>2, <3>1, <3>2 DEF Next, Call, OtherIrq11, OtherIrq9, GfxSwitch, RecvEmpty,
         Assert11, PanicStart9, PanicIn9, Assert9, arm9, flags
  <2> QED
    BY <1>2, <2>1
<1> QED
  BY <1>1, <1>2

\* What the CPUs do until then are the plain steps.
LEMMA PlainSteps == ASSUME PxiIInv, Next, ~cut' PROVE PxiPlain /\ PlainNext
<1>1. ~cut /\ PxiPlain /\ outer = <<>> /\ ~resumed /\ h9 # "skip"
  BY CutSteps DEF PxiIInv, NestOK
<1>2. CASE Enter9
  <2>1. h9 \notin Handling9
    BY <1>1, <1>2, Undisturbed DEF Enter9
  <2>2. Thread9
    BY <1>1, <1>2, <2>1 DEF Enter9, Thread9, PxiPlain, PxiTypeOK
  <2> QED
    BY <1>1, <1>2, <2>2 DEF PlainNext, Command9, PlainEnter9, Enter9
<1>3. CASE RecvCode
  <2>1. /\ Received(to9, to9') /\ Head(to9) = to9[1] /\ Len(to9) > 0
        /\ h9 = "code" /\ Off = 0 /\ ~Dead
    BY <1>1, <1>3, Recv9Receives, Undisturbed DEF RecvCode, Received, Off, PxiPlain,
         Handling9,
       HandshakeOK, LinkPcs, Masked9, Init9
  <2>2. to9[1] \in {CmdWord, PanicWord}
    <3>1. CASE pc11 \in Panic11s
      BY <1>1, <2>1, <3>1 DEF PxiPlain, PanicsOK, Behind
    <3>2. CASE pc11 \notin Panic11s
      BY <1>1, <2>1, <3>2 DEF PxiPlain, CallsOK
    <3> QED
      BY <3>1, <3>2
  <2>3. Head(to9)[1] = "cmd"
    BY <2>1, <2>2 DEF CmdWord, PanicWord
  <2> QED
    BY <1>1, <1>3, <2>3 DEF PlainNext, Command9, PlainRecvCode, RecvCode
<1>4. CASE Execute \/ ExecuteUnknown
  <2>1. in9[1] = PanicWord \/ (in9[1] = CmdWord /\ cmd \in Cmds)
    BY <1>1, <1>4, Executing DEF Execute, ExecuteUnknown
  <2>2. in9[1][1] = "cmd" /\ Code9 # NoCmd
    BY <1>1, <2>1, Numbers DEF Code9, PanicWord, CmdWord
  <2> QED
    BY <1>1, <1>4, <2>2 DEF PlainNext, PlainExecute, Execute, ExecuteUnknown
<1>5. CASE SyncResp
  BY <1>1, <1>5 DEF PlainNext, Reply9, PlainSyncResp, SyncResp, Return9
<1>6. CASE Panic11
  <2>1. pc11 = "ready"
    BY <1>6 DEF Panic11
  <2> QED
    BY <1>1, <1>6, <2>1 DEF PlainNext, Dying11, PlainPanic11, Panic11
<1>7. ~SkipResult /\ ~RecvEmpty
  BY <1>1 DEF SkipResult, RecvEmpty
<1>8. CASE ~(Enter9 \/ RecvCode \/ Execute \/ ExecuteUnknown \/ SyncResp \/ Panic11)
  BY <1>1, <1>7, <1>8 DEF Next, Step11, Step9, PlainNext, Link11, Sending11, Awaiting11,
     Reply11, AnswerPanic11, Launching11, Dying11, Link9, Command9, Reply9, Loop9,
     Launching9, Dying9
<1> QED
  BY <1>2, <1>3, <1>4, <1>5, <1>6, <1>8

\* Only the stub of the ARM11 sends its word.
LEMMA NoReadyStep == ASSUME PxiIInv, Next PROVE NoReady'
<1>1. PxiTypeOK /\ NoReady
  BY DEF PxiIInv
<1>2. CASE StubReady \/ StubEntry \/ StubGot
  BY <1>2 DEF StubReady, StubEntry, StubGot, NoReady
<1>3. CASE ~(StubReady \/ StubEntry \/ StubGot)
  <2>1. pc11 \in {"entry", "got", "gone"} => pc11' = pc11
    BY <1>3 DEF Next, Step11, Flush11, Hello11, Answer11, Register11, SendCmd, SyncCmd,
       SendArg, AllSent, CheckResp, Wfi11, TakeResp, Enter11, RespCode, RespResult,
       PanicCode, PanicResp11, PanicResult11, PanicSync11, Masked11, Woken,
       PanicSend11, PanicSyncReq11, PanicDrain11, Step9, Flush9, Hello9, Answer9,
       Register9, Enter9, RecvCode, RecvArgs, SkipResult, Execute, ExecuteUnknown,
       SendResp, SendResult, SyncResp, CheckLaunch, Wfi9, AwaitReady, CopySections,
       SendEntry, AwaitGot, PanicSend9, PanicSync9, PanicDrain9, Call, OtherIrq11,
       OtherIrq9, GfxSwitch, RecvEmpty, Panic11, Assert11, PanicStart9, PanicIn9,
       Assert9, arm11
  <2>2. \/ to9' = to9
        \/ Received(to9, to9')
        \/ to9' = <<>>
        \/ \E w : w[1] # "ready" /\ Sent(to9, to9', w)
    <3>1. CASE SendCmd \/ SendArg \/ Answer11 \/ PanicResp11 \/ PanicResult11 \/ PanicSend11
      <4>1. \A w : Send9(w) => Sent(to9, to9', w)
        BY <1>1, Send9Sends
      <4>2. CASE SendCmd
        BY <4>1, <4>2 DEF SendCmd
      <4>3. CASE SendArg
        BY <4>1, <4>3 DEF SendArg
      <4>4. CASE Answer11
        BY <4>1, <4>4 DEF Answer11
      <4>5. CASE PanicResp11
        BY <4>1, <4>5 DEF PanicResp11
      <4>6. CASE PanicResult11
        BY <4>1, <4>6 DEF PanicResult11
      <4>7. CASE PanicSend11
        BY <4>1, <4>7 DEF PanicSend11
      <4> QED
        BY <3>1, <4>2, <4>3, <4>4, <4>5, <4>6, <4>7
    <3>2. CASE Answer9 \/ RecvCode \/ RecvArgs \/ SkipResult \/ AwaitReady \/ AwaitGot
                 \/ PanicDrain9
      <4>1. Recv9 => Received(to9, to9')
        BY <1>1, Recv9Receives
      <4> QED
        BY <3>2, <4>1 DEF Answer9, RecvCode, RecvArgs, SkipResult, AwaitReady, AwaitGot,
           PanicDrain9
    <3>3. CASE /\ ~(SendCmd \/ SendArg \/ Answer11 \/ PanicResp11 \/ PanicResult11)
               /\ ~(PanicSend11 \/ Answer9 \/ RecvCode \/ RecvArgs \/ SkipResult)
               /\ ~(AwaitReady \/ AwaitGot \/ PanicDrain9)
      BY <1>3, <3>3 DEF Next, Step11, Flush11, Hello11, Register11, SyncCmd, AllSent,
         CheckResp, Wfi11, TakeResp, Enter11, RespCode, RespResult, PanicCode,
         PanicSync11, PanicSyncReq11, PanicDrain11, Step9, Flush9, Hello9, Register9,
         Enter9, Execute, ExecuteUnknown, SendResp, SendResult, SyncResp, CheckLaunch,
         Wfi9, CopySections, SendEntry, PanicSend9, PanicSync9, Call, OtherIrq11,
         OtherIrq9, GfxSwitch, RecvEmpty, Panic11, Assert11, PanicStart9, PanicIn9, Assert9,
         Recv11, Send11, arm9, fifos
    <3> QED
      BY <3>1, <3>2, <3>3
  <2> QED
    BY <1>1, <2>1, <2>2 DEF NoReady, Received, Sent
<1> QED
  BY <1>2, <1>3

\* After a panic inside a call only its own interrupt is still to come, so that
\* one handler at most is suspended.
LEMMA NestStep == ASSUME PxiIInv, Next PROVE NestOK'
<1>1. CASE ~cut'
  <2>1. PxiPlain /\ PlainNext /\ outer = <<>> /\ ~resumed /\ h9 # "skip"
    BY <1>1, PlainSteps DEF PxiIInv, NestOK, PxiPlain
  <2>2. outer' = <<>> /\ ~resumed' /\ h9' # "skip"
    BY <2>1 DEF PlainNext, Link11, Flush11, Hello11, Answer11, Register11, Call, Sending11,
       SendCmd, SyncCmd, SendArg, AllSent, Awaiting11, CheckResp, Wfi11, OtherIrq11,
       GfxSwitch, TakeResp, Reply11, Enter11, RespCode, RespResult, AnswerPanic11,
       PanicCode, PanicResp11, PanicResult11, PanicSync11, Launching11, StubReady,
       StubEntry, StubGot, Dying11, PlainPanic11, Panic11, Assert11, PanicSend11,
       PanicSyncReq11, PanicDrain11, Link9, Flush9, Hello9, Answer9, Register9,
       Command9, PlainEnter9, Enter9, PlainRecvCode, RecvCode, RecvArgs, PlainExecute,
       Execute, Reply9, SendResp, SendResult, PlainSyncResp, SyncResp, Return9, Loop9,
       CheckLaunch, Wfi9, OtherIrq9, Launching9, AwaitReady, CopySections, SendEntry,
       AwaitGot, Dying9, PanicStart9, PanicIn9, Assert9, PanicSend9, PanicSync9,
       PanicDrain9, arm9, nest
  <2> QED
    BY <1>1, <2>2 DEF NestOK
<1>2. CASE ~cut /\ cut'
  <2>1. /\ pc11' = "panic" /\ UNCHANGED <<h9, sync9, outer>>
    BY <1>2, CutSteps DEF Panic11, fifos, nest
  <2> QED
    BY <1>2, <2>1, Undisturbed DEF PxiIInv, NestOK
<1>3. CASE cut
  <2>1. /\ cut' /\ ~Panic11 /\ h11 = "none"
        /\ pc11 \in {"panic", "panicSync", "panicWait", "halted"}
    BY <1>3, CutSteps DEF PxiIInv, NestOK, LinkPcs, Masked11, Panic11s
  <2>2. CASE Step11
    <3>1. CASE PanicSend11
      BY <1>3, <2>1, <3>1 DEF PanicSend11, PxiIInv, NestOK, arm9, nest
    <3>2. CASE PanicSyncReq11
      BY <1>3, <2>1, <3>2 DEF PanicSyncReq11, PxiIInv, NestOK, arm9, nest
    <3>3. CASE PanicDrain11
      BY <1>3, <2>1, <3>3 DEF PanicDrain11, PxiIInv, NestOK, arm9, nest
    <3> QED
      BY <2>1, <2>2, <3>1, <3>2, <3>3 DEF Step11, Flush11, Hello11, Answer11, Register11,
         SendCmd, SyncCmd, SendArg, AllSent, CheckResp, Wfi11, TakeResp, Enter11, RespCode,
         RespResult, PanicCode, PanicResp11, PanicResult11, PanicSync11, StubReady,
         StubEntry, StubGot, Masked11, Panic11s
  <2>3. CASE Enter9
    <3>1. /\ sync9 /\ ~sync9' /\ pc11' = pc11 /\ h9 \notin Panic9
          /\ outer' = outer \/ h9 # "none"
      BY <2>3 DEF Enter9, Thread9, arm11
    <3>2. outer = <<>> /\ h9 \in {"none"} \cup Handling9
      BY <3>1, TypeParts DEF PxiIInv, NestOK, Places
    <3>3. h9 # "none" => pc11 \notin {"panic", "panicSync"}
      BY <1>3, <3>1, <3>2 DEF PxiIInv, NestOK
    <3> QED
      BY <2>1, <3>1, <3>2, <3>3 DEF NestOK
  <2>4. CASE SkipResult \/ SyncResp
    <3>1. /\ sync9' = sync9 /\ pc11' = pc11 /\ h9 \in Handling9
          /\ outer' # <<>> => outer # <<>>
      <4>1. outer' = outer \/ (outer # <<>> /\ outer' = Tail(outer))
        BY <2>4 DEF SkipResult, SyncResp, Return9
      <4> QED
        BY <2>4, <4>1 DEF SkipResult, SyncResp, Handling9, arm11
    <3>2. outer # <<>> \/ h9' = "none"
      BY <2>4 DEF SkipResult, SyncResp, Return9
    <3> QED
      BY <1>3, <2>1, <3>1, <3>2 DEF PxiIInv, NestOK, Handling9
  <2>5. CASE ~(Step11 \/ Enter9 \/ SkipResult \/ SyncResp)
    <3>1. UNCHANGED <<pc11, sync9, outer>> /\ (h9' \in Handling9 => h9 \in Handling9)
      BY <2>1, <2>5 DEF Next, Step9, Flush9, Hello9, Answer9, Register9, RecvCode, Misread,
         PanicIn9, RecvArgs, Execute, ExecuteUnknown, SendResp, SendResult, CheckLaunch,
         Wfi9, AwaitReady, CopySections, SendEntry, AwaitGot, PanicSend9, PanicSync9,
         PanicDrain9, Call, OtherIrq11, OtherIrq9, GfxSwitch, RecvEmpty, Assert11,
         PanicStart9, Assert9, arm9, arm11, fifos, nest, Handling9, Send11
    <3> QED
      BY <1>3, <2>1, <3>1 DEF PxiIInv, NestOK
  <2> QED
    BY <2>2, <2>3, <2>4, <2>5
<1> QED
  BY <1>1, <1>2, <1>3

\* After it the ARM9 never leaves the first wait of its stub.
LEMMA CutStep == ASSUME PxiIInv, Next, cut' PROVE LinkPcs' /\ CutOK'
<1>1. CASE ~cut
  <2>1. /\ Panic11 /\ pc11 \notin Masked11 /\ PxiPlain
    BY <1>1, CutSteps DEF PxiIInv
  <2>2. pc11' = "panic" /\ h11' = "none" /\ UNCHANGED <<pc9, h9>>
    BY <2>1 DEF Panic11
  <2>3. pc9 \notin {"copy", "entry", "confirm", "gone"}
    BY <2>1 DEF PxiPlain, LaunchOK, Masked11
  <2> QED
    BY <2>1, <2>2, <2>3 DEF PxiIInv, LinkPcs, CutOK, Masked11, Init11, Unlinked11
<1>2. CASE cut
  <2>1. /\ pc11 \in {"panic", "panicSync", "panicWait", "halted"} /\ h11 = "none"
        /\ LinkPcs /\ CutOK /\ NoReady
    BY <1>2 DEF PxiIInv, NestOK, LinkPcs, Masked11, Panic11s
  <2>2. to9 # <<>> => Head(to9)[1] # "ready"
    <3>1. to9 # <<>> => Len(to9) \in Nat \ {0} /\ Head(to9) = to9[1]
      BY EmptySeq, LenProperties, TypeParts DEF PxiIInv, Queues
    <3> QED
      BY <2>1, <3>1 DEF NoReady
  <2>3. pc11' \in {"panic", "panicSync", "panicWait", "halted"} /\ h11' = "none"
    <3>1. NestOK'
      BY NestStep
    <3>2. h11' = h11 \/ h11' = "none" \/ Enter11 \/ h11 # "none"
      BY DEF Next, Step11, Flush11, Hello11, Answer11, Register11,
         SendCmd, SyncCmd, SendArg, AllSent, CheckResp, Wfi11, TakeResp, RespCode,
         RespResult, PanicCode, PanicResp11, PanicResult11, PanicSync11, StubReady,
         StubEntry, StubGot, PanicSend11, PanicSyncReq11, PanicDrain11, Step9, Flush9,
         Hello9, Answer9, Register9, Enter9, RecvCode, RecvArgs, SkipResult, Execute,
         ExecuteUnknown, SendResp, SendResult, SyncResp, CheckLaunch, Wfi9, AwaitReady,
         CopySections, SendEntry, AwaitGot, PanicSend9, PanicSync9, PanicDrain9, Call,
         OtherIrq11, OtherIrq9, GfxSwitch, RecvEmpty, Panic11, Assert11, PanicStart9,
         PanicIn9,
         Assert9, arm11
    <3>3. ~Enter11
      BY <2>1 DEF Enter11, Masked11, Panic11s
    <3> QED
      BY <2>1, <3>1, <3>2, <3>3 DEF NestOK
  <2>4. /\ pc9' \in Masked9 => h9' = "none"
        /\ pc9' \notin {"init", "hello", "copy", "entry", "confirm", "gone"}
    <3>1. CASE Step9
      <4>1. pc9 \notin {"init", "hello", "copy", "entry", "confirm", "gone"}
        BY <1>2, <2>1 DEF LinkPcs, CutOK
      <4>2. CASE Flush9 \/ Hello9 \/ Answer9 \/ Register9 \/ CheckLaunch \/ Wfi9
        BY <2>1, <4>1, <4>2 DEF Flush9, Hello9, Answer9, Register9, CheckLaunch, Wfi9,
           Thread9, LinkPcs, Masked9, Init9
      <4>3. CASE AwaitReady \/ CopySections \/ SendEntry \/ AwaitGot
        BY <2>1, <2>2, <4>1, <4>3 DEF AwaitReady, CopySections, SendEntry, AwaitGot,
           LinkPcs, Masked9, Recv9
      <4>4. CASE Enter9
        BY <4>4 DEF Enter9, Woken, Masked9, Init9
      <4>5. CASE \/ RecvCode \/ RecvArgs \/ SkipResult \/ Execute \/ ExecuteUnknown
                \/ SendResp \/ SendResult \/ SyncResp
                \/ PanicSend9 \/ PanicSync9 \/ PanicDrain9
        <5>1. h9 # "none" /\ pc9' = pc9
          BY <4>5 DEF RecvCode, RecvArgs, SkipResult, Execute, ExecuteUnknown, SendResp,
             SendResult, SyncResp, PanicSend9, PanicSync9, PanicDrain9
        <5> QED
          BY <2>1, <4>1, <5>1 DEF LinkPcs
      <4> QED
        BY <3>1, <4>2, <4>3, <4>4, <4>5 DEF Step9
    <3>2. CASE ~Step9
      <4>1. (UNCHANGED <<pc9, h9>>) \/ pc9' = "check" \/ (pc9 \notin Masked9 /\ pc9' = pc9)
        BY <2>1, <3>2 DEF Next, Step11, Flush11, Hello11, Answer11, Register11,
           SendCmd, SyncCmd, SendArg, AllSent, CheckResp, Wfi11, TakeResp, Enter11,
           RespCode,
           RespResult, PanicCode, PanicResp11, PanicResult11, PanicSync11, StubReady,
           StubEntry, StubGot, PanicSend11, PanicSyncReq11, PanicDrain11, Call, OtherIrq11,
           OtherIrq9, GfxSwitch, RecvEmpty, Panic11, Assert11, PanicStart9, PanicIn9,
           Assert9, arm9,
           LinkPcs
      <4>2. RecvEmpty => pc9 \notin Masked9
        BY <2>1 DEF RecvEmpty, LinkPcs
      <4> QED
        BY <1>2, <2>1, <4>1, <4>2 DEF LinkPcs, CutOK, Masked9, Init9
    <3> QED
      BY <3>1, <3>2
  <2> QED
    BY <2>3, <2>4 DEF LinkPcs, CutOK, Unlinked11, Masked9, Init9
<1> QED
  BY <1>1, <1>2

\* The invariant holds at reset and is kept by every step.
LEMMA PxiInit == Init => PxiIInv
<1> SUFFICES ASSUME Init PROVE PxiIInv
  OBVIOUS
<1>1. /\ to9 \in Seq(Word) /\ Len(to9) <= FifoWords
      /\ to11 \in Seq(Word) /\ Len(to11) <= FifoWords
  <2>1. <<>> \in Seq(Word) /\ Len(<<>>) <= FifoWords
    BY FifoAssumption
  <2>2. OldWord \in Word
    BY DEF OldWord, Word
  <2>3. <<OldWord>> \in Seq(Word) /\ Len(<<OldWord>>) <= FifoWords
    BY <2>2, FifoAssumption
  <2> QED
    BY <2>1, <2>3 DEF Init, Leftover, OldWord
<1>2. Behind(to9, 0, {OldWord}) /\ Behind(to11, 0, {OldWord})
  BY DEF Init, Leftover, Behind, OldWord
<1>3. PxiTypeOK
  <2>1. Flags /\ Places
    BY DEF Init, Flags, Places, Masked11, Masked9, Init11, Init9
  <2>2. Queues
    BY <1>1 DEF Queues
  <2>3. Data
    BY FifoAssumption, CmdAssumption DEF Init, Data, Word
  <2>4. Suspended
    BY DEF Init, Suspended
  <2> QED
    BY <2>1, <2>2, <2>3, <2>4, TypeParts
<1>4. HandshakeOK /\ CountOK
  BY <1>2 DEF Init, HandshakeOK, LinkPcs, LinkWords11, LinkWords9, CountOK, Calling11,
     Waiting11, Stub11
<1>5. CallsOK /\ PanicsOK /\ LaunchOK
  BY DEF Init, CallsOK, PanicsOK, LaunchOK, Body, Waiting11, Panic11s, Stub9
<1>6. RepliesOK
  BY DEF Init, RepliesOK, NoReply, Quiet11, Outside, Stub11, Body, Waiting11
<1>7. NoReady
  BY <1>2 DEF NoReady, Behind, OldWord
<1>8. NestOK /\ CutOK /\ ~cut
  BY DEF Init, NestOK, CutOK
<1> QED
  BY <1>3, <1>4, <1>5, <1>6, <1>7, <1>8 DEF PxiIInv, PxiPlain, HandshakeOK

LEMMA PxiStep == PxiIInv /\ [Next]_vars => PxiIInv'
<1> SUFFICES ASSUME PxiIInv, [Next]_vars PROVE PxiIInv'
  OBVIOUS
<1>1. CASE Next
  <2>1. PxiTypeOK' /\ NoReady' /\ NestOK'
    BY <1>1, TypeStep, NoReadyStep, NestStep
  <2>2. CASE cut'
    BY <1>1, <2>1, <2>2, CutStep DEF PxiIInv
  <2>3. CASE ~cut'
    <3>1. PxiPlain /\ PlainNext
      BY <1>1, <2>3, PlainSteps
    <3>2. PxiPlain'
      BY <2>1, <2>3, <3>1, HandshakeStep, CountStep, CallsStep, PanicsStep, RepliesStep,
         LaunchStep DEF PxiPlain
    <3> QED
      BY <2>1, <2>3, <3>2 DEF PxiIInv, PxiPlain, CutOK, HandshakeOK
  <2> QED
    BY <2>2, <2>3
<1>2. CASE UNCHANGED vars
  <2>1. PxiTypeOK' /\ NoReady' /\ NestOK' /\ CutOK' /\ LinkPcs'
    BY <1>2 DEF PxiIInv, PxiTypeOK, NoReady, NestOK, CutOK, LinkPcs, vars, fifos, arm11,
       arm9, nest, flags
  <2>2. ASSUME PxiPlain PROVE PxiPlain'
    <3>2. HandshakeOK'
      BY <1>2, <2>2 DEF PxiPlain, HandshakeOK, LinkPcs, LinkWords11, LinkWords9, vars,
           fifos,
         arm11, arm9, flags
    <3>3. CountOK' /\ ~cut'
      BY <1>2, <2>2 DEF PxiPlain, CountOK, vars, fifos, arm11, arm9, flags
    <3>4. CallsOK'
      BY <1>2, <2>2 DEF PxiPlain, CallsOK, CmdWord, Dead, Off, SentArgs, vars, fifos, arm11,
         arm9, flags
    <3>5. PanicsOK'
      BY <1>2, <2>2 DEF PxiPlain, PanicsOK, CmdWord, Dead, Off, vars, fifos, arm11, arm9,
         flags
    <3>6. RepliesOK'
      BY <1>2, <2>2 DEF PxiPlain, RepliesOK, RespWord, ResultWord, Dead, Extra, Quiet11,
         NoReply, Coming11, HalfRead, Read11, Behind, vars, fifos, arm11, arm9, flags
    <3>7. LaunchOK'
      BY <1>2, <2>2 DEF PxiPlain, LaunchOK, Dead, vars, arm11, arm9, flags
    <3> QED
      BY <2>1, <3>2, <3>3, <3>4, <3>5, <3>6, <3>7 DEF PxiPlain
  <2>3. cut' = cut
    BY <1>2 DEF vars, arm9, flags
  <2> QED
    BY <2>1, <2>2, <2>3 DEF PxiIInv
<1> QED
  BY <1>1, <1>2

LEMMA PxiCorrect == Spec => []PxiIInv
  BY PxiInit, PxiStep, PTL DEF Spec

-----------------------------------------------------------------------------
(* What follows from it.                                                   *)

\* Commands arrive whole and no handler is suspended, until the ARM11 panics
\* inside a call; the response a call takes is its own.
THEOREM PxiInvHolds == Spec => []PxiInv
<1>1. PxiIInv => PxiInv
  <2> SUFFICES ASSUME PxiIInv PROVE PxiInv
    OBVIOUS
  <2>1. ASSUME PxiPlain
        PROVE  h9 \in {"args", "exec", "resp", "result"} => in9[1] \in {CmdWord, PanicWord}
    BY <2>1 DEF PxiPlain, CallsOK, PanicsOK, Dead, Panic9
  <2>2. ASSUME PxiPlain, h9 = "exec", Code9 \in Cmds
        PROVE  /\ in9 = <<<<"cmd", cmd, call>>, Args[cmd]>>
               /\ to9 = <<>> /\ pc11 \in {"args"} \cup Waiting11
    <3>1. in9[1] # PanicWord
      BY <2>2, Numbers DEF Code9, PanicWord
    <3>2. in9[1] = CmdWord /\ in9[2] = Args[cmd] /\ pc11 \in Body /\ Len(to9) = 0
      BY <2>2, <3>1, Executing
    <3>3. in9 = <<in9[1], in9[2]>>
      BY TypeParts DEF PxiIInv, Data
    <3>4. Len(to9) = 0 => to9 = <<>>
      BY EmptySeq, TypeParts DEF PxiIInv, Queues
    <3> QED
      BY <3>2, <3>3, <3>4 DEF CmdWord, Body
  <2>3. OwnResult
    <3>1. pc11 = "take" => ~cut
      BY DEF PxiIInv, NestOK
    <3> QED
      BY <3>1 DEF PxiIInv, PxiPlain, RepliesOK, Read11, OwnResult
  <2>4. ~cut => PxiPlain /\ outer = <<>> /\ h9 # "skip"
    BY DEF PxiIInv, NestOK
  <2>5. CommandWhole
    BY <2>1, <2>2, <2>4 DEF CommandWhole, CmdWord, PanicWord
  <2> QED
    BY <2>3, <2>5 DEF PxiIInv, PxiInv
<1> QED
  BY <1>1, PxiCorrect, PTL

\* The ARM9 copies only while the ARM11 waits in its stub, and is gone last.
THEOREM LaunchOrderHolds == Spec => []LaunchOrder
<1>1. PxiIInv => LaunchOrder
  BY DEF PxiIInv, CutOK, PxiPlain, LaunchOK, LaunchOrder
<1> QED
  BY <1>1, PxiCorrect, PTL

-----------------------------------------------------------------------------
(* The link implements Rpc.                                                *)

\* A step that leaves the call, its service and the panics alone stutters in
\* the abstract specification.
LEMMA PhaseStutters ==
  ASSUME UNCHANGED <<call, served, cut, Dead>>,
         pc11 \in Calling11 <=> pc11' \in Calling11
  PROVE  UNCHANGED Calls!rpcVars
<1>1. UNCHANGED Phase
  BY DEF Phase, Calling11, Waiting11
<1> QED
  BY <1>1 DEF Calls!rpcVars, Dead

\* Until a panic inside a call, every step of the link is a step of a call, a
\* panic, or none.
LEMMA PlainRpcStep ==
  ASSUME PxiPlain, PlainNext, ~cut'
  PROVE  [Calls!Next]_(Calls!rpcVars)
<1>0. ~cut
  BY DEF PxiPlain
<1>1. CASE Link11
  BY <1>1, PhaseStutters DEF Link11, Flush11, Hello11, Answer11, Register11, Dead,
     arm9, flags, Calling11, Waiting11
<1>2. CASE \E c \in Cmds : Call(c)
  <2>1. /\ pc11 = "ready" /\ call < MaxCalls /\ call' = call + 1
        /\ pc11' = "send" /\ UNCHANGED <<served, cut, h9>>
    BY <1>2 DEF Call, arm9, flags
  <2>2. Phase = "ready" /\ Phase' = "called"
    <3>1. served = call
      BY <2>1 DEF PxiPlain, CountOK, Calling11, Waiting11
    <3> QED
      BY <1>0, <2>1, <3>1, Numbers DEF Phase, Calling11, Waiting11
  <2> QED
    BY <2>1, <2>2 DEF Calls!Next, Calls!Call
<1>3. CASE Sending11 \/ Awaiting11
  BY <1>3, PhaseStutters DEF Sending11, SendCmd, SyncCmd, SendArg, AllSent, Awaiting11,
     CheckResp, Wfi11, OtherIrq11, GfxSwitch, Dead, arm9, flags, Calling11, Waiting11
<1>4. CASE TakeResp
  <2>1. /\ pc11 = "take" /\ served = call
    BY <1>4 DEF TakeResp, PxiPlain, RepliesOK, Calling11
  <2>2. pc11' \notin Calling11 /\ UNCHANGED <<call, served, cut, h9>>
    BY <1>4 DEF TakeResp, Calling11, Waiting11, arm9, flags
  <2> QED
    BY <1>0, <2>1, <2>2 DEF Phase, Calling11, Waiting11, Calls!Next, Calls!Return
<1>5. CASE Reply11 \/ AnswerPanic11
  BY <1>5, PhaseStutters DEF Reply11, Enter11, RespCode, RespResult, AnswerPanic11,
     PanicCode, PanicResp11, PanicResult11, PanicSync11, Woken, Dead, arm9, flags,
     Calling11, Waiting11
<1>6. CASE Launching11
  BY <1>6, PhaseStutters DEF Launching11, StubReady, StubEntry, StubGot, Dead, arm9,
     flags, Calling11, Waiting11
<1>7. CASE PlainPanic11
  <2>1. pc11 = "ready" /\ pc11' = "panic" /\ UNCHANGED <<call, served, cut, h9>>
    BY <1>0, <1>7, TypeParts DEF PlainPanic11, Panic11, PxiPlain, Flags
  <2> QED
    BY <2>1, PhaseStutters DEF Dead, Calling11, Waiting11
<1>8. CASE Assert11 \/ PanicSend11 \/ PanicSyncReq11 \/ PanicDrain11
  BY <1>8, PhaseStutters DEF Assert11, PanicSend11, PanicSyncReq11, PanicDrain11, Dead,
     arm9, flags, Calling11, Waiting11
<1>9. CASE Link9 \/ Command9 \/ Reply9 \/ Loop9 \/ Launching9
  BY <1>9, PhaseStutters DEF Link9, Flush9, Hello9, Answer9, Register9, Command9,
     PlainEnter9, Enter9, PlainRecvCode, RecvCode, RecvArgs, Reply9, SendResp, SendResult,
     PlainSyncResp, SyncResp, Return9, Loop9, CheckLaunch, Wfi9, OtherIrq9, Launching9,
     AwaitReady, CopySections, SendEntry, AwaitGot, Dead, Panic9, Thread9, arm11, flags
<1>10. CASE PlainExecute
  <2>1. /\ h9 = "exec" /\ h9' = "resp"
        /\ served' = IF Code9 = Panic THEN served ELSE in9[1][3]
        /\ UNCHANGED <<pc11, call, cut>>
    BY <1>10 DEF PlainExecute, Execute, arm11
  <2>2. h9 \notin Panic9 /\ h9' \notin Panic9
    BY <2>1 DEF Panic9
  <2>3. CASE served = call
    <3>1. served' = served
      BY <2>1, <2>3, Executing DEF Code9, PanicWord
    <3> QED
      BY <2>1, <2>2, <3>1, PhaseStutters DEF Dead
  <2>4. CASE served # call
    <3>1. in9[1] = CmdWord /\ cmd \in Cmds /\ pc11 \in Body
      BY <2>1, <2>4, Executing
    <3>2. served' = call
      BY <2>1, <3>1, Numbers DEF Code9, CmdWord
    <3>3. Phase = "called" /\ Phase' = "served"
      BY <1>0, <2>1, <2>4, <3>1, <3>2 DEF Phase, Body, Calling11
    <3> QED
      BY <2>1, <2>2, <3>3 DEF Calls!Next, Calls!Serve
  <2> QED
    BY <2>3, <2>4
<1>11. CASE PanicStart9 \/ Assert9
  <2>1. /\ ~(h9 \in Panic9) /\ (h9 \in Panic9)' /\ UNCHANGED <<pc11, call, served, cut>>
    BY <1>11 DEF PanicStart9, PanicIn9, Assert9, Panic9, arm11, flags
  <2>2. UNCHANGED Phase
    BY <2>1 DEF Phase
  <2>3. (h9 \in Panic9)' = TRUE
    BY <2>1
  <2> QED
    BY <2>1, <2>2, <2>3 DEF Calls!Next, Calls!Die
<1>12. CASE PanicSend9 \/ PanicSync9 \/ PanicDrain9
  BY <1>12, PhaseStutters DEF PanicSend9, PanicSync9, PanicDrain9, Dead, Panic9, arm11,
       flags
<1> QED
  BY <1>1, <1>2, <1>3, <1>4, <1>5, <1>6, <1>7, <1>8, <1>9, <1>10, <1>11, <1>12
     DEF PlainNext, Dying11, Dying9

\* The panic abandons the call, and after it the only event left is a panic of
\* the ARM9.
LEMMA RpcStep == ASSUME PxiIInv, Next PROVE [Calls!Next]_(Calls!rpcVars)
<1>1. CASE ~cut'
  BY <1>1, PlainSteps, PlainRpcStep
<1>2. CASE ~cut /\ cut'
  <2>1. /\ pc11 \in Calling11 /\ UNCHANGED <<call, served, h9>>
    BY <1>2, CutSteps, TypeParts DEF Panic11, PxiIInv, Places
  <2>2. Phase \in {"called", "served"} /\ Phase' = "lost"
    BY <1>2, <2>1 DEF Phase
  <2> QED
    BY <2>1, <2>2 DEF Calls!Next, Calls!Abandon
<1>3. CASE cut
  <2>1. cut' /\ pc11 # "ready"
    BY <1>3, CutSteps DEF PxiIInv, NestOK
  <2>2. Phase = "lost" /\ Phase' = "lost"
    BY <1>3, <2>1 DEF Phase
  <2>3. call' = call
    BY <2>1 DEF Next, Step11, Flush11, Hello11, Answer11, Register11,
       SendCmd, SyncCmd, SendArg, AllSent, CheckResp, Wfi11, TakeResp, Enter11, RespCode,
       RespResult, PanicCode, PanicResp11, PanicResult11, PanicSync11, StubReady,
       StubEntry, StubGot, PanicSend11, PanicSyncReq11, PanicDrain11, Step9, Flush9,
       Hello9, Answer9, Register9, Enter9, RecvCode, RecvArgs, SkipResult, Execute,
       ExecuteUnknown, SendResp, SendResult, SyncResp, CheckLaunch, Wfi9, AwaitReady,
       CopySections, SendEntry, AwaitGot, PanicSend9, PanicSync9, PanicDrain9, Call,
       OtherIrq11, OtherIrq9, GfxSwitch, RecvEmpty, Panic11, Assert11, PanicStart9,
       PanicIn9,
       Assert9, arm11
  <2>4. h9 \in Panic9 => h9' \in Panic9
    <3>1. CASE Step9
      BY <3>1 DEF Step9, Flush9, Hello9, Answer9, Register9, Enter9, RecvCode, RecvArgs,
         SkipResult, Execute, ExecuteUnknown, PanicIn9, SendResp, SendResult, SyncResp,
         CheckLaunch, Wfi9, AwaitReady, CopySections, SendEntry, AwaitGot, PanicSend9,
         PanicSync9, PanicDrain9, Panic9
    <3>2. CASE ~Step9
      BY <3>2 DEF Next, Step11, Flush11, Hello11, Answer11, Register11,
         SendCmd, SyncCmd, SendArg, AllSent, CheckResp, Wfi11, TakeResp, Enter11, RespCode,
         RespResult, PanicCode, PanicResp11, PanicResult11, PanicSync11, StubReady,
         StubEntry, StubGot, PanicSend11, PanicSyncReq11, PanicDrain11, Call, OtherIrq11,
         OtherIrq9, GfxSwitch, RecvEmpty, PanicIn9, Panic11, Assert11, PanicStart9,
         Assert9, Panic9, arm9
    <3> QED
      BY <3>1, <3>2
  <2>5. CASE h9' \in Panic9 <=> h9 \in Panic9
    <3>1. (h9 \in Panic9)' = (h9 \in Panic9)
      BY <2>5 DEF Panic9
    <3> QED
      BY <2>2, <2>3, <3>1 DEF Calls!rpcVars
  <2>6. CASE h9 \notin Panic9 /\ h9' \in Panic9
    <3>1. (h9 \in Panic9)' = TRUE
      BY <2>6 DEF Panic9
    <3> QED
      BY <2>2, <2>3, <2>6, <3>1 DEF Calls!Next, Calls!Die
  <2> QED
    BY <2>4, <2>5, <2>6
<1> QED
  BY <1>1, <1>2, <1>3

\* A call is executed once, with its own arguments, before it returns: the
\* link implements Rpc.
THEOREM ImplementsRpcHolds == Spec => ImplementsRpc
<1>1. Init => Calls!Init
  BY DEF Init, Calls!Init, Phase, Calling11, Waiting11, Panic9
<1>2. PxiIInv /\ [Next]_vars => [Calls!Next]_(Calls!rpcVars)
  <2>1. CASE UNCHANGED vars
    BY <2>1 DEF vars, fifos, arm11, arm9, flags, Calls!rpcVars, Phase
  <2> QED
    BY <2>1, RpcStep
<1> QED
  BY <1>1, <1>2, PxiCorrect, PTL DEF Spec, ImplementsRpc, Calls!Spec

=============================================================================
