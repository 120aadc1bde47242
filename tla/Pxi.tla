--------------------------------- MODULE Pxi ---------------------------------
(***************************************************************************)
(* The link between the two CPUs (pxi.c, the IPC handlers of both CPUs):   *)
(* the handshake, commands, panics and assertions, and the launch of a     *)
(* firmware, where the ARM9 main loop and both stubs take over the FIFOs.  *)
(*                                                                         *)
(* Each CPU has a thread and the handler of the PXI sync interrupt, which  *)
(* preempts the thread.  The ARM9 acknowledges an interrupt and enables    *)
(* interrupts before it runs the handler, so a second sync interrupt       *)
(* suspends the handler of the first; the ARM11 does not nest.             *)
(* A word is a tuple <<kind, command, i>>; i numbers the calls and the     *)
(* arguments of a call.                                                    *)
(***************************************************************************)
EXTENDS Integers, Sequences

CONSTANTS
  Cmds,        \* commands of the ARM11, IPC_CMD9_*
  Launch,      \* the one that starts the firmware, IPC_CMD9_FIRM_LAUNCH
  Args,        \* argument words of each command
  MaxParams,   \* most words of a command, IPC_MAX_PARAMS
  FifoWords,   \* depth of a FIFO
  MaxCalls,    \* bound: calls the ARM11 makes
  Panics       \* may a CPU panic?

NoCmd == "none"
Panic == "panic"   \* IPC_CMD9_PANIC and IPC_CMD11_PANIC

ASSUME CmdAssumption == Launch \in Cmds /\ Cmds \cap {NoCmd, Panic} = {}
ASSUME ArgAssumption == Args \in [Cmds -> Nat] /\ Args[Launch] = 0 /\ MaxParams \in Nat
ASSUME FifoAssumption == FifoWords \in Nat \ {0} /\ MaxCalls \in Nat
ASSUME PanicAssumption == Panics \in BOOLEAN

VARIABLES
  to9, to11,       \* the words in the FIFOs
  sync9, sync11,   \* a sync interrupt is pending
  pc11, cmd, call, sent,  \* the ARM11 thread: command, its number, words sent
  resp,            \* g_lastResp: <<command code, result>>
  screens,         \* the screens are on: PDC0 interrupts the ARM11 at 60 Hz
  h11,             \* handler of the ARM11; thread and handler of the ARM9
  pc9, h9, in9,    \* in9: the command word read, and how many words after it
  outer,           \* ARM9 handlers suspended by the running one: <<h9, in9>>
  resumed,         \* the running ARM9 handler was suspended before
  g_startFirmLaunch,
  deinit,          \* fsDeinit was run
  served,          \* history: the last call whose command was executed
  cut,             \* history: the ARM11 panicked inside a call
  eaten            \* history: the ARM9 took the panic word for an argument

fifos == <<to9, to11, sync9, sync11>>
arm11 == <<pc11, cmd, call, sent, resp, screens, h11>>
flags == <<g_startFirmLaunch, deinit, served, cut, eaten>>
nest == <<outer, resumed>>
arm9 == <<pc9, h9, in9, nest, flags>>
vars == <<fifos, arm11, arm9>>

-----------------------------------------------------------------------------
(* Words and interrupts.                                                   *)

\* pxiSendWord spins while the FIFO is full, pxiRecvWord while it is empty.
Send9(w) == Len(to9) < FifoWords /\ to9' = Append(to9, w) /\ UNCHANGED to11
Send11(w) == Len(to11) < FifoWords /\ to11' = Append(to11, w) /\ UNCHANGED to9
Recv9 == to9 # <<>> /\ to9' = Tail(to9) /\ UNCHANGED to11
Recv11 == to11 # <<>> /\ to11' = Tail(to11) /\ UNCHANGED to9

Thread11 == h11 = "none"       \* the handler preempts the thread
Thread9 == h9 = "none"

\* The sync interrupt is off before its handler is registered, during a panic
\* or a failed assertion, and in a launch stub.
Init11 == {"init", "hello", "answer", "register"}
Init9 == {"init", "hello", "answer", "register"}
Panic11s == {"panic", "panicSync", "panicWait", "halted", "assert", "assertSync", "asserted"}
Panic9 == {"panic", "panicSync", "panicWait", "dead", "assert", "assertSync", "asserted"}
Masked11 == Init11 \cup Panic11s \cup {"stub", "entry", "got", "gone"}
Masked9 == Init9 \cup {"stub", "copy", "entry", "confirm", "gone"}

\* Registers an interrupt wakes: a CPU that is in WFI leaves it.
Woken(pc) == IF pc = "asleep" THEN "check" ELSE pc

-----------------------------------------------------------------------------
(* PXI_init: 0x99 and 0x11.                                                *)

\* Both flush the FIFO they send to.
Flush9 ==
  /\ pc9 = "init" /\ to11' = <<>> /\ pc9' = "hello"
  /\ UNCHANGED <<to9, sync9, sync11, arm11, h9, in9, nest, flags>>
Hello9 ==
  /\ pc9 = "hello" /\ Send11(<<"99", NoCmd, 0>>) /\ pc9' = "answer"
  /\ UNCHANGED <<sync9, sync11, arm11, h9, in9, nest, flags>>
Answer9 ==
  /\ pc9 = "answer" /\ Recv9
  /\ pc9' = IF Head(to9)[1] = "11" THEN "register" ELSE pc9
  /\ UNCHANGED <<sync9, sync11, arm11, h9, in9, nest, flags>>
Register9 ==
  /\ pc9 = "register" /\ pc9' = "check"
  /\ UNCHANGED <<fifos, arm11, h9, in9, nest, flags>>
Flush11 ==
  /\ pc11 = "init" /\ to9' = <<>> /\ pc11' = "hello"
  /\ UNCHANGED <<to11, sync9, sync11, cmd, call, sent, resp, screens, h11, arm9>>
Hello11 ==
  /\ pc11 = "hello" /\ Recv11
  /\ pc11' = IF Head(to11)[1] = "99" THEN "answer" ELSE pc11
  /\ UNCHANGED <<sync9, sync11, cmd, call, sent, resp, screens, h11, arm9>>
Answer11 ==
  /\ pc11 = "answer" /\ Send9(<<"11", NoCmd, 0>>) /\ pc11' = "register"
  /\ UNCHANGED <<sync9, sync11, cmd, call, sent, resp, screens, h11, arm9>>
Register11 ==
  /\ pc11 = "register" /\ pc11' = "ready"
  /\ UNCHANGED <<fifos, cmd, call, sent, resp, screens, h11, arm9>>

-----------------------------------------------------------------------------
(* PXI_sendCmd on the ARM11.                                               *)

Waiting11 == {"check", "wfi", "asleep"}
Calling11 == Waiting11 \cup {"send", "sync", "args", "take"}

Call(c) ==
  /\ Thread11 /\ pc11 = "ready" /\ call < MaxCalls
  /\ cmd' = c /\ call' = call + 1 /\ pc11' = "send"
  /\ UNCHANGED <<fifos, sent, resp, screens, h11, arm9>>

SendCmd ==
  /\ Thread11 /\ pc11 = "send"
  /\ Send9(<<"cmd", cmd, call>>)
  /\ pc11' = "sync"
  /\ UNCHANGED <<sync9, sync11, cmd, call, sent, resp, screens, h11, arm9>>

SyncCmd ==
  /\ Thread11 /\ pc11 = "sync"
  /\ sync9' = TRUE /\ pc11' = "args" /\ sent' = 0
  /\ UNCHANGED <<to9, to11, sync11, cmd, call, resp, screens, h11, arm9>>

SendArg ==
  /\ Thread11 /\ pc11 = "args" /\ sent < Args[cmd]
  /\ Send9(<<"arg", cmd, sent>>)
  /\ sent' = sent + 1
  /\ UNCHANGED <<sync9, sync11, pc11, cmd, call, resp, screens, h11, arm9>>

AllSent ==
  /\ Thread11 /\ pc11 = "args" /\ sent = Args[cmd]
  /\ pc11' = "check"
  /\ UNCHANGED <<fifos, cmd, call, sent, resp, screens, h11, arm9>>

\* Mutant: the call does not wait.
CheckRespOnce ==
  /\ Thread11 /\ pc11 = "check"
  /\ pc11' = "take"
  /\ UNCHANGED <<fifos, cmd, call, sent, resp, screens, h11, arm9>>
\* The response is recognised by its command code.  Between the test and WFI
\* an interrupt may deliver it.
CheckResp ==
  /\ Thread11 /\ pc11 = "check"
  /\ pc11' = IF resp[1] = cmd THEN "take" ELSE "wfi"
  /\ UNCHANGED <<fifos, cmd, call, sent, resp, screens, h11, arm9>>

Wfi11 ==
  /\ Thread11 /\ pc11 = "wfi"
  /\ pc11' = "asleep"
  /\ UNCHANGED <<fifos, cmd, call, sent, resp, screens, h11, arm9>>

\* GFX_init and GFX_deinit register and unregister gfxIrqHandler, between calls.
GfxSwitch ==
  /\ Thread11 /\ pc11 = "ready"
  /\ screens' = ~screens
  /\ UNCHANGED <<fifos, pc11, cmd, call, sent, resp, h11, arm9>>

\* gfxIrqHandler, once per frame.
OtherIrq11 ==
  /\ screens /\ pc11 = "asleep" /\ pc11' = "check"
  /\ UNCHANGED <<fifos, cmd, call, sent, resp, screens, h11, arm9>>

\* The call returns g_lastResp[1].  firmLaunch goes on to the stub.
TakeResp ==
  /\ Thread11 /\ pc11 = "take"
  /\ resp' = <<NoCmd, resp[2]>>
  /\ pc11' = IF cmd = Launch THEN "stub" ELSE "ready"
  /\ UNCHANGED <<fifos, cmd, call, sent, screens, h11, arm9>>

-----------------------------------------------------------------------------
(* pxiIrqHandler on the ARM11.                                             *)

Enter11 ==
  /\ sync11 /\ Thread11 /\ pc11 \notin Masked11
  /\ sync11' = FALSE /\ h11' = "code" /\ pc11' = Woken(pc11)
  /\ UNCHANGED <<to9, to11, sync9, cmd, call, sent, resp, screens, arm9>>

RespCode ==
  /\ h11 = "code" /\ to11 # <<>> /\ Head(to11)[1] = "resp"
  /\ Recv11
  /\ resp' = <<Head(to11)[2], resp[2]>> /\ h11' = "result"
  /\ UNCHANGED <<sync9, sync11, pc11, cmd, call, sent, screens, arm9>>

RespResult ==
  /\ h11 = "result" /\ Recv11
  /\ resp' = <<resp[1], Head(to11)[3]>> /\ h11' = "none"
  /\ UNCHANGED <<sync9, sync11, pc11, cmd, call, sent, screens, arm9>>

\* A panic of the ARM9: IPC_handleCmd does nothing, the response is sent.
PanicCode ==
  /\ h11 = "code" /\ to11 # <<>> /\ Head(to11)[1] = "cmd"
  /\ Recv11
  /\ h11' = "panicResp"
  /\ UNCHANGED <<sync9, sync11, pc11, cmd, call, sent, resp, screens, arm9>>
PanicResp11 ==
  /\ h11 = "panicResp" /\ Send9(<<"resp", Panic, 0>>) /\ h11' = "panicResult"
  /\ UNCHANGED <<sync9, sync11, pc11, cmd, call, sent, resp, screens, arm9>>
PanicResult11 ==
  /\ h11 = "panicResult" /\ Send9(<<"result", Panic, 0>>) /\ h11' = "panicDone"
  /\ UNCHANGED <<sync9, sync11, pc11, cmd, call, sent, resp, screens, arm9>>
PanicSync11 ==
  /\ h11 = "panicDone" /\ sync9' = TRUE /\ h11' = "none"
  /\ UNCHANGED <<to9, to11, sync11, pc11, cmd, call, sent, resp, screens, arm9>>

-----------------------------------------------------------------------------
(* pxiIrqHandler and IPC_handleCmd on the ARM9.                            *)

\* irqHandler: the handler of an earlier interrupt is suspended.
Enter9 ==
  /\ sync9 /\ pc9 \notin Masked9 /\ h9 \notin Panic9
  /\ sync9' = FALSE /\ h9' = "code" /\ pc9' = Woken(pc9)
  /\ outer' = IF Thread9 THEN outer ELSE <<<<h9, in9>>>> \o outer
  /\ resumed' = FALSE
  /\ UNCHANGED <<to9, to11, sync11, arm11, in9, flags>>

\* The handler returns, to the one it suspended if there is one.
Return9 ==
  \/ /\ outer = <<>> /\ h9' = "none" /\ resumed' = FALSE
     /\ UNCHANGED <<in9, outer>>
  \/ /\ outer # <<>> /\ h9' = Head(outer)[1] /\ in9' = Head(outer)[2]
     /\ outer' = Tail(outer) /\ resumed' = TRUE

\* panic() inside a handler.
PanicIn9 == h9' = "panic" /\ deinit' = TRUE
\* An argument that is read as a command may be any word: a response, one with
\* too many words, or any command with any number of them.
Misread ==
  \/ h9' = "skip" /\ UNCHANGED <<in9, deinit>>
  \/ PanicIn9 /\ UNCHANGED in9
  \/ \E id \in Cmds \cup {Panic, NoCmd}, n \in 0 .. MaxParams :
       in9' = <<<<"arg", id, n>>, 0>> /\ h9' = "args" /\ UNCHANGED deinit

RecvCode ==
  /\ h9 = "code" /\ Recv9
  /\ \/ /\ Head(to9)[1] = "cmd"
        /\ in9' = <<Head(to9), 0>> /\ h9' = "args" /\ UNCHANGED deinit
     \/ Head(to9)[1] # "cmd" /\ Misread
  /\ UNCHANGED <<sync9, sync11, arm11, pc9, nest, g_startFirmLaunch, served, cut, eaten>>

Code9 == in9[1][2]
Words9 ==
  IF in9[1][1] # "cmd" THEN in9[1][3]
  ELSE IF Code9 \in Cmds THEN Args[Code9] ELSE 0
PanicWord == <<"cmd", Panic, 0>>
Eat == eaten' = (eaten \/ Head(to9) = PanicWord)

\* Mutant: the last argument is left in the FIFO.
RecvArgsShort ==
  /\ h9 = "args"
  /\ \/ /\ in9[2] + 1 < Words9 /\ Recv9 /\ Eat
        /\ in9' = <<in9[1], in9[2] + 1>> /\ h9' = h9
     \/ /\ in9[2] + 1 >= Words9 /\ UNCHANGED <<to9, to11, eaten>>
        /\ in9' = in9 /\ h9' = "exec"
  /\ UNCHANGED <<sync9, sync11, arm11, pc9, nest, g_startFirmLaunch, deinit, served, cut>>
RecvArgs ==
  /\ h9 = "args"
  /\ \/ /\ in9[2] < Words9 /\ Recv9 /\ Eat
        /\ in9' = <<in9[1], in9[2] + 1>> /\ h9' = h9
     \/ /\ in9[2] = Words9 /\ UNCHANGED <<to9, to11, eaten>>
        /\ in9' = in9 /\ h9' = "exec"
  /\ UNCHANGED <<sync9, sync11, arm11, pc9, nest, g_startFirmLaunch, deinit, served, cut>>

\* The second word of a response, which nobody on the ARM9 waits for.
SkipResult ==
  /\ h9 = "skip" /\ Recv9 /\ Eat
  /\ Return9
  /\ UNCHANGED <<sync9, sync11, arm11, pc9, g_startFirmLaunch, deinit, served, cut>>

\* A handler that was suspended after it found a word in the FIFO, and before it
\* read it, reads an empty FIFO if the other took the word.  It panics where
\* the error flag is tested, after its last word.
RecvEmpty ==
  /\ resumed /\ to9 = <<>>
  /\ h9 = "code" \/ (h9 = "args" /\ in9[2] + 1 = Words9)
  /\ PanicIn9
  /\ UNCHANGED <<fifos, arm11, pc9, in9, nest, g_startFirmLaunch, served, cut, eaten>>

\* Mutant: the launch command sets no flag.
ExecuteNoLaunch ==
  /\ h9 = "exec" /\ Code9 # NoCmd
  /\ deinit' = (deinit \/ Code9 = Panic)
  /\ served' = IF Code9 = Panic \/ in9[1][1] # "cmd" THEN served ELSE in9[1][3]
  /\ h9' = "resp"
  /\ UNCHANGED <<fifos, arm11, pc9, in9, nest, g_startFirmLaunch, cut, eaten>>
\* A panic of the ARM11 is answered with fsDeinit, a launch sets its flag.
Execute ==
  /\ h9 = "exec" /\ Code9 # NoCmd
  /\ g_startFirmLaunch' = (g_startFirmLaunch \/ Code9 = Launch)
  /\ deinit' = (deinit \/ Code9 = Panic)
  /\ served' = IF Code9 = Panic \/ in9[1][1] # "cmd" THEN served ELSE in9[1][3]
  /\ h9' = "resp"
  /\ UNCHANGED <<fifos, arm11, pc9, in9, nest, cut, eaten>>
\* The default case of IPC_handleCmd.
ExecuteUnknown ==
  /\ h9 = "exec" /\ Code9 = NoCmd /\ PanicIn9
  /\ UNCHANGED <<fifos, arm11, pc9, in9, nest, g_startFirmLaunch, served, cut, eaten>>

SendResp ==
  /\ h9 = "resp" /\ Send11(<<"resp", Code9, in9[1][3]>>) /\ h9' = "result"
  /\ UNCHANGED <<sync9, sync11, arm11, pc9, in9, nest, flags>>
SendResult ==
  /\ h9 = "result" /\ Send11(<<"result", Code9, in9[1][3]>>) /\ h9' = "done"
  /\ UNCHANGED <<sync9, sync11, arm11, pc9, in9, nest, flags>>
\* Mutant: the handler does not raise the interrupt of the ARM11.
SyncRespMissing ==
  /\ h9 = "done" /\ Return9
  /\ UNCHANGED <<fifos, arm11, pc9, flags>>
SyncResp ==
  /\ h9 = "done" /\ sync11' = TRUE /\ Return9
  /\ UNCHANGED <<to9, to11, sync9, arm11, pc9, flags>>

-----------------------------------------------------------------------------
(* The ARM9 main loop: while(!g_startFirmLaunch) __wfi();                  *)

CheckLaunch ==
  /\ Thread9 /\ pc9 = "check"
  /\ pc9' = IF g_startFirmLaunch THEN "stub" ELSE "wfi"
  /\ UNCHANGED <<fifos, arm11, h9, in9, nest, flags>>
Wfi9 ==
  /\ Thread9 /\ pc9 = "wfi" /\ pc9' = "asleep"
  /\ UNCHANGED <<fifos, arm11, h9, in9, nest, flags>>
\* The SDIO interrupt of a card, if there is one.
OtherIrq9 ==
  /\ Thread9 /\ pc9 = "asleep" /\ pc9' = "check"
  /\ UNCHANGED <<fifos, arm11, h9, in9, nest, flags>>

-----------------------------------------------------------------------------
(* Firmware launch: firmLaunchStub of both CPUs.                           *)

\* The ARM11: 0xA8E4, then the entry point, then 0x94C6.
StubReady ==
  /\ pc11 = "stub" /\ Send9(<<"ready", Launch, 0>>) /\ pc11' = "entry"
  /\ UNCHANGED <<sync9, sync11, cmd, call, sent, resp, screens, h11, arm9>>
StubEntry ==
  /\ pc11 = "entry" /\ Recv11 /\ pc11' = "got"
  /\ UNCHANGED <<sync9, sync11, cmd, call, sent, resp, screens, h11, arm9>>
StubGot ==
  /\ pc11 = "got" /\ Send9(<<"got", Launch, 0>>) /\ pc11' = "gone"
  /\ UNCHANGED <<sync9, sync11, cmd, call, sent, resp, screens, h11, arm9>>

\* Mutant: any word is taken for 0xA8E4, and none is waited for.
AwaitReadyAny ==
  /\ pc9 = "stub" /\ pc9' = "copy"
  /\ to9' = <<>> /\ UNCHANGED to11
  /\ UNCHANGED <<sync9, sync11, arm11, h9, in9, nest, flags>>
\* The ARM9 drops every word before 0xA8E4, and before 0x94C6.
AwaitReady ==
  /\ pc9 = "stub" /\ Recv9
  /\ pc9' = IF Head(to9)[1] = "ready" THEN "copy" ELSE "stub"
  /\ UNCHANGED <<sync9, sync11, arm11, h9, in9, nest, flags>>
CopySections ==
  /\ pc9 = "copy" /\ pc9' = "entry"
  /\ UNCHANGED <<fifos, arm11, h9, in9, nest, flags>>
SendEntry ==
  /\ pc9 = "entry" /\ Send11(<<"entry", Launch, 0>>) /\ pc9' = "confirm"
  /\ UNCHANGED <<sync9, sync11, arm11, h9, in9, nest, flags>>
AwaitGot ==
  /\ pc9 = "confirm" /\ Recv9
  /\ pc9' = IF Head(to9)[1] = "got" THEN "gone" ELSE "confirm"
  /\ UNCHANGED <<sync9, sync11, arm11, h9, in9, nest, flags>>

-----------------------------------------------------------------------------
(* Panics (PXI_sendPanicCmd) and assertions (PXI_sendCmd).                 *)

\* The ARM11 panics or takes an exception anywhere, in a handler as well; a
\* handler it leaves is never resumed.
Panic11 ==
  /\ Panics /\ pc11 \notin Masked11
  /\ pc11' = "panic" /\ h11' = "none" /\ cut' = (pc11 # "ready")
  /\ UNCHANGED <<fifos, cmd, call, sent, resp, screens,
                 pc9, h9, in9, nest, g_startFirmLaunch, deinit, served, eaten>>
\* Assertions are tested between calls.
Assert11 ==
  /\ Panics /\ Thread11 /\ pc11 = "ready"
  /\ pc11' = "assert"
  /\ UNCHANGED <<fifos, cmd, call, sent, resp, screens, h11, arm9>>
PanicSend11 ==
  /\ pc11 \in {"panic", "assert"} /\ Send9(<<"cmd", Panic, 0>>)
  /\ pc11' = IF pc11 = "panic" THEN "panicSync" ELSE "assertSync"
  /\ UNCHANGED <<sync9, sync11, cmd, call, sent, resp, screens, h11, arm9>>
\* Mutant: the panic command is sent without an interrupt.
PanicSyncMissing ==
  /\ pc11 \in {"panicSync", "assertSync"}
  /\ pc11' = IF pc11 = "panicSync" THEN "panicWait" ELSE "asserted"
  /\ UNCHANGED <<fifos, cmd, call, sent, resp, screens, h11, arm9>>
\* After an assertion PXI_sendCmd waits for a handler that cannot run.
PanicSyncReq11 ==
  /\ pc11 \in {"panicSync", "assertSync"} /\ sync9' = TRUE
  /\ pc11' = IF pc11 = "panicSync" THEN "panicWait" ELSE "asserted"
  /\ UNCHANGED <<to9, to11, sync11, cmd, call, sent, resp, screens, h11, arm9>>
\* Words are dropped until the response to the panic command.
PanicDrain11 ==
  /\ pc11 = "panicWait" /\ Recv11
  /\ pc11' = IF Head(to11) = <<"resp", Panic, 0>> THEN "halted" ELSE pc11
  /\ UNCHANGED <<sync9, sync11, cmd, call, sent, resp, screens, h11, arm9>>

\* The ARM9 panics while it executes a command (panic, an exception) or in an
\* interrupt that preempts its main loop.
PanicStart9 ==
  /\ Panics /\ pc9 \notin Masked9
  /\ h9 \in {"none", "exec"}
  /\ PanicIn9
  /\ UNCHANGED <<fifos, arm11, pc9, in9, nest, g_startFirmLaunch, served, cut, eaten>>
\* A failed assertion closes no file.
Assert9 ==
  /\ Panics /\ pc9 \notin Masked9
  /\ h9 \in {"none", "exec"}
  /\ h9' = "assert"
  /\ UNCHANGED <<fifos, arm11, pc9, in9, nest, flags>>
PanicSend9 ==
  /\ h9 \in {"panic", "assert"} /\ Send11(<<"cmd", Panic, 0>>)
  /\ h9' = IF h9 = "panic" THEN "panicSync" ELSE "assertSync"
  /\ UNCHANGED <<sync9, sync11, arm11, pc9, in9, nest, flags>>
PanicSync9 ==
  /\ h9 \in {"panicSync", "assertSync"} /\ sync11' = TRUE
  /\ h9' = IF h9 = "panicSync" THEN "panicWait" ELSE "asserted"
  /\ UNCHANGED <<to9, to11, sync9, arm11, pc9, in9, nest, flags>>
PanicDrain9 ==
  /\ h9 = "panicWait" /\ Recv9
  /\ h9' = IF Head(to9) = <<"resp", Panic, 0>> THEN "dead" ELSE h9
  /\ UNCHANGED <<sync9, sync11, arm11, pc9, in9, nest, flags>>

-----------------------------------------------------------------------------

\* What the program before this one left in a FIFO.
Leftover == {<<>>, <<<<"old", NoCmd, 0>>>>}

Init ==
  /\ to9 \in Leftover /\ to11 \in Leftover
  /\ sync9 = FALSE /\ sync11 = FALSE
  /\ pc11 = "init" /\ cmd = NoCmd /\ call = 0 /\ sent = 0
  /\ resp = <<NoCmd, 0>> /\ screens = FALSE /\ h11 = "none"
  /\ pc9 = "init" /\ h9 = "none" /\ in9 = <<<<"cmd", NoCmd, 0>>, 0>>
  /\ g_startFirmLaunch = FALSE /\ deinit = FALSE /\ served = 0
  /\ outer = <<>> /\ resumed = FALSE /\ cut = FALSE /\ eaten = FALSE

Step11 ==
  \/ Flush11 \/ Hello11 \/ Answer11 \/ Register11
  \/ SendCmd \/ SyncCmd \/ SendArg \/ AllSent \/ CheckResp \/ Wfi11 \/ TakeResp
  \/ Enter11 \/ RespCode \/ RespResult
  \/ PanicCode \/ PanicResp11 \/ PanicResult11 \/ PanicSync11
  \/ StubReady \/ StubEntry \/ StubGot
  \/ PanicSend11 \/ PanicSyncReq11 \/ PanicDrain11
Step9 ==
  \/ Flush9 \/ Hello9 \/ Answer9 \/ Register9
  \/ Enter9 \/ RecvCode \/ RecvArgs \/ SkipResult \/ Execute \/ ExecuteUnknown
  \/ SendResp \/ SendResult \/ SyncResp
  \/ CheckLaunch \/ Wfi9
  \/ AwaitReady \/ CopySections \/ SendEntry \/ AwaitGot
  \/ PanicSend9 \/ PanicSync9 \/ PanicDrain9

Next ==
  \/ \E c \in Cmds : Call(c)
  \/ Step11 \/ Step9 \/ OtherIrq11 \/ OtherIrq9
  \/ RecvEmpty \/ GfxSwitch \/ Panic11 \/ Assert11 \/ PanicStart9 \/ Assert9

\* Both CPUs run and take a pending interrupt; frames keep coming.  Nothing
\* forces a user to touch the SD card, so OtherIrq9 may never happen.
Fairness == WF_vars(Step11) /\ WF_vars(Step9) /\ WF_vars(Enter11) /\ WF_vars(Enter9)
              /\ WF_vars(OtherIrq11)
Spec == Init /\ [][Next]_vars /\ Fairness

-----------------------------------------------------------------------------
(* Properties.                                                             *)

Word == {"old", "99", "11", "cmd", "arg", "resp", "result", "ready", "entry", "got"}
          \X (Cmds \cup {NoCmd, Panic}) \X Nat

Handling9 == {"code", "args", "skip", "exec", "resp", "result", "done"}

PxiTypeOK ==
  /\ to9 \in Seq(Word) /\ Len(to9) <= FifoWords
  /\ to11 \in Seq(Word) /\ Len(to11) <= FifoWords
  /\ {sync9, sync11, screens, g_startFirmLaunch, deinit, cut} \subseteq BOOLEAN
  /\ {resumed, eaten} \subseteq BOOLEAN
  /\ served \in Nat
  /\ pc11 \in {"ready"} \cup Calling11 \cup Masked11
  /\ cmd \in Cmds \cup {NoCmd} /\ call \in 0 .. MaxCalls /\ sent \in Nat
  /\ resp \in (Cmds \cup {NoCmd}) \X (0 .. MaxCalls)
  /\ h11 \in {"none", "code", "result", "panicResp", "panicResult", "panicDone"}
  /\ pc9 \in {"check", "wfi", "asleep"} \cup Masked9
  /\ h9 \in {"none"} \cup Handling9 \cup Panic9
  /\ in9 \in Word \X Nat
  /\ outer \in Seq(Handling9 \X (Word \X Nat)) /\ Len(outer) <= 1

\* Unless the ARM11 panics inside a call, no ARM9 handler is suspended by another
\* and no other word is taken for a command.  When the ARM9 executes one it holds
\* the command word the ARM11 sent last and all of its arguments, the ARM11
\* waits for the answer, and no word of the command is left in the FIFO to be
\* taken for the next one.
CommandWhole ==
  ~cut =>
    /\ outer = <<>> /\ h9 # "skip"
    /\ h9 \in {"args", "exec", "resp", "result"} => in9[1][1] = "cmd"
    /\ h9 = "exec" /\ Code9 \in Cmds =>
         /\ in9 = <<<<"cmd", cmd, call>>, Args[cmd]>>
         /\ to9 = <<>> /\ pc11 \in {"args"} \cup Waiting11

\* What a call returns is the result of its own execution, and a command is
\* executed once: the calls implement Rpc.  A call that is cut by a panic of the
\* ARM11 is lost: it never returns, and what is executed for it is open.
Phase ==
  IF cut THEN "lost"
  ELSE IF pc11 \notin Calling11 THEN "ready"
  ELSE IF served = call THEN "served" ELSE "called"
Calls == INSTANCE Rpc WITH calls <- call, phase <- Phase, dead <- h9 \in Panic9
ImplementsRpc == Calls!Spec
OwnResult == pc11 = "take" => resp = <<cmd, call>>

\* The ARM9 overwrites memory with the sections of the new firmware only when
\* the ARM11 runs in its stub, and nobody jumps before both are done.
LaunchOrder ==
  /\ pc9 \in {"copy", "entry"} => pc11 = "entry"
  /\ pc9 = "gone" => pc11 = "gone"

\* The handshake ends on both CPUs, whoever starts first and whatever is left in
\* the FIFOs, and every call returns unless a CPU panics.  While the screens are off,
\* before GFX_init and after GFX_deinit, a call may also miss the interrupt of
\* its response between the test of g_lastResp and WFI.  That is the only way
\* it can stay out: the response is there.
CallEnds ==
  /\ <>(pc11 = "ready") /\ <>(pc9 = "check")
  /\ pc11 = "send" ~> \/ pc11 \in {"ready", "stub"} \cup Panic11s
                      \/ h9 \in Panic9
                      \/ ~screens /\ pc11 = "asleep" /\ resp[1] = cmd

\* A panic inside a call can be lost in three ways: a handler takes its word for
\* an argument, or for the result of what it takes for a response; its interrupt
\* merges with that of the call and nobody looks for the word; the call was the
\* launch and the stub drops it.
PanicLost ==
  /\ cut /\ pc11 = "panicWait"
  /\ \/ eaten
     \/ h9 = "none" /\ ~sync9 /\ to9 # <<>>
     \/ pc9 = "stub"

\* A panic or a failed assertion of the ARM11 has the file systems closed by the
\* ARM9, whatever the ARM9 was doing, unless an assertion stopped it or the
\* panic is lost in a call.
PanicClosesFiles ==
  pc11 \in {"panic", "assert"} ~> deinit \/ h9 = "asserted" \/ PanicLost

\* A launch that does not complete, although the ARM9 does not panic, has lost
\* one race: g_startFirmLaunch was set
\* between the test of the ARM9 main loop and its WFI.  In particular the stubs
\* never wait for each other.
LaunchEndsOrSleeps ==
  pc11 = "stub" ~> \/ pc11 = "gone" /\ pc9 = "gone"
                   \/ pc9 = "asleep" /\ g_startFirmLaunch
                   \/ h9 \in Panic9

\* Commands arrive whole, results at the call they belong to, and nothing
\* overruns a FIFO.
PxiInv == PxiTypeOK /\ CommandWhole /\ OwnResult

=============================================================================
