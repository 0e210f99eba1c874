--------------------------- MODULE DevicesProofs ---------------------------
(***************************************************************************)
(* What is proved of the devices: of the stub of the remote debugger for   *)
(* every set of commands, every number of them and every number of damaged *)
(* characters; of the screen for every size and every text; of the         *)
(* keyboard for every set of keys and every number of lost codes.          *)
(***************************************************************************)
EXTENDS GdbStub, Console, Keyboard, FiniteSetTheorems, WellFoundedInduction, TLAPS

\* do_debug is what lets a conversation begin, and a conversation that is
\* detached goes no further than the + of its last answer: retval tells this
\* between the D packet and the return to debugger().
DebugInv ==
  /\ connected \in BOOLEAN /\ do_debug \in BOOLEAN
  /\ connected => do_debug
  /\ pc \in {"start", "data", "acked"} => do_debug
  /\ pc \in {"start", "data"} => retval = "MORE"
  /\ pc = "acked" /\ retval = "DETACH" => ~ connected

LEMMA InitDebug == StubInit => DebugInv
BY DEF StubInit, DebugInv

\* A command leaves the conversation, or goes on with the debugger enabled.
LEMMA ExecuteDebug ==
  ASSUME NEW n, DebugInv, pc = "data", Execute(n)
  PROVE  DebugInv'
<1> DEFINE command == issued[n]
<1>1. connected' = StaysConnected(command) /\ connected' \in BOOLEAN
  BY DEF Execute, StaysConnected
<1>2. do_debug /\ retval = "MORE"
  BY DEF DebugInv
<1>3. do_debug' = do_debug
  BY DEF Execute, Answer, Resume, putpacket
<1>4. pc' \in {"acked", "running", "rebooted"}
  BY DEF Execute, Answer, Resume, putpacket
<1>5. pc' = "acked" /\ retval' = "DETACH" => ~ connected'
  <2>1. SUFFICES ASSUME pc' = "acked", retval' = "DETACH" PROVE command = "D"
    BY <1>1 DEF StaysConnected
  <2>2. retval' # retval
    BY <1>2, <2>1
  <2>. QED
    BY <2>1, <2>2 DEF Execute, Resume
<1>. QED
  BY <1>1, <1>2, <1>3, <1>4, <1>5 DEF DebugInv

LEMMA ReceiveDebug ==
  ASSUME DebugInv, StubRecv
  PROVE  DebugInv'
<1> DEFINE c == Head(toStub)
           tail == Tail(toStub)
<1>1. CASE pc = "start" /\ GetStart(c, tail)
  BY <1>1 DEF GetStart, DebugInv
<1>2. CASE pc = "data" /\ GetData(c, tail)
  <2>1. CASE c[1] = "#" /\ Good(inbuf, c)
    BY <1>2, <2>1, ExecuteDebug DEF GetData
  <2>2. CASE ~ (c[1] = "#" /\ Good(inbuf, c))
    <3>1. pc' \in {"start", "data"}
      BY <1>2, <2>2 DEF GetData, FailedChecksum
    <3>2. UNCHANGED <<retval, connected, do_debug>>
      BY <1>2, <2>2 DEF GetData
    <3>. QED
      BY <1>2, <3>1, <3>2 DEF DebugInv
  <2>. QED
    BY <2>1, <2>2
<1>3. CASE pc = "acked" /\ putfrags(c, tail)
  <2>1. UNCHANGED retval /\ connected' \in {connected, FALSE}
    BY <1>3 DEF putfrags
  <2>2. CASE c # Ack
    BY <1>3, <2>1, <2>2 DEF putfrags, DebugInv
  <2>3. CASE c = Ack
    <3>1. CASE retval = "MORE"
      BY <1>3, <2>1, <2>3, <3>1 DEF putfrags, DebugInv
    <3>2. CASE retval = "EXIT"
      BY <1>3, <2>1, <2>3, <3>2 DEF putfrags, DebugInv
    <3>3. CASE retval \notin {"MORE", "EXIT"}
      <4>1. /\ pc' = "running" /\ UNCHANGED connected
            /\ do_debug' = (do_debug /\ retval # "DETACH")
        BY <1>3, <2>3, <3>3 DEF putfrags
      <4>. QED
        BY <1>3, <2>1, <4>1 DEF DebugInv
    <3>. QED
      BY <3>1, <3>2, <3>3
  <2>. QED
    BY <2>2, <2>3
<1>. QED
  BY <1>1, <1>2, <1>3 DEF StubRecv

LEMMA NextDebug == DebugInv /\ [StubNext]_gdbVars => DebugInv'
<1> SUFFICES ASSUME DebugInv, [StubNext]_gdbVars PROVE DebugInv'
  OBVIOUS
<1>1. CASE StubRecv
  BY <1>1, ReceiveDebug
<1>2. CASE trap_handler
  BY <1>2 DEF trap_handler, debugger, putpacket, DebugInv
<1>3. CASE DumpKey
  BY <1>3 DEF DumpKey, DumpToDebugger, debugger, putpacket, DebugInv
<1>4. CASE gdb_serial_exit
  BY <1>4 DEF gdb_serial_exit, putpacket, DebugInv
<1>5. CASE GdbCommand \/ GdbRecv \/ GdbTimeout \/ LineFault \/ UNCHANGED gdbVars
  <2>1. UNCHANGED <<pc, retval, connected, do_debug>>
    BY <1>5 DEF GdbCommand, GdbRecv, GdbTimeout, LineFault, gdbVars, stubVars
  <2>. QED
    BY <2>1 DEF DebugInv
<1>. QED
  BY <1>1, <1>2, <1>3, <1>4, <1>5 DEF StubNext

\* The report of the end of the program is sent only to a debugger that is
\* enabled, so that reboot() is not held up by one that has gone: connected and
\* do_debug, which are set and reset in different functions, never disagree
\* (gdb_serial.c:252, 563 and 632; debugger.c:73).
THEOREM ConnectedOnlyWhileDebugging == StubSpec => []ConnectedWhileDebugging
<1>1. DebugInv => ConnectedWhileDebugging
  BY DEF DebugInv, ConnectedWhileDebugging
<1>. QED
  BY <1>1, InitDebug, NextDebug, PTL DEF StubSpec

-----------------------------------------------------------------------------

LEMMA NextScreen ==
  ProgramFindsItsScreen /\ [StubNext]_gdbVars => ProgramFindsItsScreen'
<1> SUFFICES ASSUME ProgramFindsItsScreen, [StubNext]_gdbVars
             PROVE  ProgramFindsItsScreen'
  OBVIOUS
<1>1. CASE StubRecv
  <2>1. pc \in {"start", "data", "acked"} /\ shown = "program"
    BY <1>1 DEF StubRecv, ProgramFindsItsScreen
  <2>2. shown' = shown
    BY <1>1 DEF StubRecv, GetStart, GetData, putfrags, Execute, Answer, Resume
  <2>. QED
    BY <2>1, <2>2 DEF ProgramFindsItsScreen
<1>2. CASE trap_handler
  BY <1>2 DEF trap_handler, ProgramFindsItsScreen
<1>3. CASE DumpKey
  BY <1>3 DEF DumpKey, DumpToDebugger, ProgramFindsItsScreen
<1>4. CASE gdb_serial_exit
  BY <1>4 DEF gdb_serial_exit, ProgramFindsItsScreen
<1>5. CASE GdbCommand \/ GdbRecv \/ GdbTimeout \/ LineFault \/ UNCHANGED gdbVars
  <2>1. UNCHANGED <<pc, shown>>
    BY <1>5 DEF GdbCommand, GdbRecv, GdbTimeout, LineFault, gdbVars, stubVars
  <2>. QED
    BY <2>1 DEF ProgramFindsItsScreen
<1>. QED
  BY <1>1, <1>2, <1>3, <1>4, <1>5 DEF StubNext

\* Whatever keys end the dump of the registers, and whatever the debugger does
\* then, the dump is not on the screen when the program or the stub has the
\* processor (debugger.c:217-240).
THEOREM ScreenIsGivenBack == StubSpec => []ProgramFindsItsScreen
<1>1. StubInit => ProgramFindsItsScreen
  BY DEF StubInit, ProgramFindsItsScreen
<1>. QED
  BY <1>1, NextScreen, PTL DEF StubSpec

-----------------------------------------------------------------------------
\* The registers.  The stub and the program have the same ones when the program
\* runs; a command is executed under a number that gdb has given, because no
\* end of a packet on the line names another.
Registers == [low : {"old", "new"}, high : {"old", "new"}, trace : BOOLEAN]

StubChars(n) ==
  {<<"$">>, Ack, Nack, Noise} \cup {<<"data", k>> : k \in 1 .. n}
                              \cup {<<"#", k>> : k \in 1 .. n}

RegistersAgree ==
  /\ regs.low = IF Written("G") \/ Written("G wrong") THEN "new" ELSE "old"
  /\ regs.high = IF Written("G") THEN "new" ELSE "old"

LineInv ==
  /\ issued \in Seq(Commands)
  /\ executed \in Seq(1 .. Len(issued))
  /\ toStub \in Seq(StubChars(Len(issued)))
  /\ gdb = [pc |-> gdb.pc, frame |-> gdb.frame, answer |-> gdb.answer]
  /\ gdb.pc = "sent" => Len(issued) # 0

RegsInv ==
  /\ LineInv
  /\ pc \in {"running", "dumping", "start", "data", "acked", "rebooted"}
  /\ regs \in Registers
  /\ pc \in {"running", "dumping"} => tss = regs
  /\ pc # "rebooted" => RegistersAgree

\* A packet of a number that gdb has given is made of characters of the line.
LEMMA PacketChars ==
  ASSUME NEW n \in Nat, NEW k \in 1 .. n
  PROVE  Packet(k) \in Seq(StubChars(n))
<1>1. {<<"$">>, <<"data", k>>, <<"#", k>>} \subseteq StubChars(n)
  BY DEF StubChars
<1> HIDE DEF StubChars
<1>. QED
  BY <1>1 DEF Packet

\* An end of a packet names a number that gdb has given.
LEMMA EndNames ==
  ASSUME NEW n \in Nat, NEW c \in StubChars(n), c[1] = "#"
  PROVE  c[2] \in 1 .. n
BY DEF StubChars, Ack, Nack, Noise

\* Characters that are put on the line before or behind those that are there.
LEMMA Lengthened ==
  ASSUME NEW S, NEW s \in Seq(S)
  PROVE  /\ \A c \in S : Append(s, c) \in Seq(S) /\ <<c>> \in Seq(S)
                        /\ <<c>> \o s \in Seq(S)
         /\ \A r \in Seq(S) : s \o r \in Seq(S)
OBVIOUS

\* gdb and the line keep their side of the conversation.
LEMMA LineKeeps ==
  ASSUME LineInv, GdbCommand \/ GdbRecv \/ GdbTimeout \/ LineFault
  PROVE  LineInv'
<1> DEFINE n == Len(issued)
<1>1. /\ issued \in Seq(Commands) /\ n \in Nat
      /\ executed \in Seq(1 .. n) /\ toStub \in Seq(StubChars(n))
      /\ gdb = [pc |-> gdb.pc, frame |-> gdb.frame, answer |-> gdb.answer]
      /\ gdb.pc = "sent" => n # 0
  BY DEF LineInv
<1>2. /\ Ack \in StubChars(n) /\ Nack \in StubChars(n) /\ Noise \in StubChars(n)
  BY DEF StubChars
<1>3. ASSUME gdb.pc = "sent" PROVE Packet(n) \in Seq(StubChars(n))
  <2>1. n \in 1 .. n
    BY <1>1, <1>3
  <2>. QED
    BY <1>1, <2>1, PacketChars
<1>4. CASE GdbCommand
  <2>1. PICK command \in Commands : issued' = Append(issued, command)
    BY <1>4 DEF GdbCommand
  <2>2. issued' \in Seq(Commands) /\ Len(issued') = n + 1
    BY <1>1, <2>1
  <2>3. Packet(n + 1) \in Seq(StubChars(n + 1))
    <3>1. n + 1 \in Nat /\ n + 1 \in 1 .. n + 1
      BY <1>1
    <3>. QED
      BY <3>1, PacketChars
  <2>4. StubChars(n) \subseteq StubChars(n + 1)
    BY <1>1 DEF StubChars
  <2>5. toStub' = toStub \o Packet(n + 1)
    BY <1>4, <2>2 DEF GdbCommand, GdbSends
  <2>6. toStub' \in Seq(StubChars(n + 1))
    <3>1. toStub \in Seq(StubChars(n + 1))
      BY <1>1, <2>4
    <3>. QED
      BY <2>3, <2>5, <3>1
  <2>7. executed' \in Seq(1 .. n + 1)
    <3>1. 1 .. n \subseteq 1 .. n + 1
      BY <1>1
    <3>2. executed' = executed
      BY <1>4 DEF GdbCommand
    <3>. QED
      BY <1>1, <3>1, <3>2
  <2>8. gdb' = [pc |-> gdb'.pc, frame |-> gdb'.frame, answer |-> gdb'.answer]
    BY <1>1, <1>4 DEF GdbCommand
  <2>. QED
    BY <1>1, <2>2, <2>6, <2>7, <2>8 DEF LineInv
<1>5. CASE GdbRecv \/ GdbTimeout \/ LineFault
  <2>1. UNCHANGED <<issued, executed>>
    BY <1>5 DEF GdbRecv, GdbTimeout, LineFault
  <2>2. toStub' \in Seq(StubChars(n))
    <3>1. CASE GdbRecv
      <4>1. \/ toStub' = toStub
            \/ toStub' = Append(toStub, Ack) \/ toStub' = Append(toStub, Nack)
            \/ gdb.pc = "sent" /\ toStub' = toStub \o Packet(n)
        BY <3>1 DEF GdbRecv, GdbFrame, GdbSends
      <4>. QED
        BY <1>1, <1>2, <1>3, <4>1, Lengthened
    <3>2. CASE GdbTimeout
      <4>1. \/ toStub' = toStub \/ toStub' = <<Nack>>
            \/ gdb.pc = "sent" /\ toStub' = toStub \o Packet(n)
        BY <3>2 DEF GdbTimeout, GdbSends
      <4>. QED
        BY <1>1, <1>2, <1>3, <4>1, Lengthened
    <3>3. CASE LineFault
      <4>1. \/ toStub' = toStub
            \/ toStub # <<>> /\ toStub' = Tail(toStub)
            \/ toStub # <<>> /\ toStub' = <<Noise>> \o Tail(toStub)
        BY <3>3 DEF LineFault, Damaged
      <4>2. toStub # <<>> => Tail(toStub) \in Seq(StubChars(n))
        BY <1>1
      <4>. QED
        BY <1>1, <1>2, <4>1, <4>2, Lengthened
    <3>. QED
      BY <1>5, <3>1, <3>2, <3>3
  <2>3. /\ gdb' = [pc |-> gdb'.pc, frame |-> gdb'.frame, answer |-> gdb'.answer]
        /\ gdb'.pc = "sent" => gdb.pc = "sent"
    <3>1. CASE GdbRecv
      <4>1. \/ gdb' = gdb
            \/ \E f : gdb' = [gdb EXCEPT !.frame = f]
            \/ \E p \in {"gone", "ready"} : \E a :
                 gdb' = [pc |-> p, frame |-> NotReading, answer |-> a]
            \/ \E p \in {"stopped", "gone", "wait"} : gdb' = [gdb EXCEPT !.pc = p]
        BY <3>1 DEF GdbRecv, GdbFrame
      <4>. QED
        BY <1>1, <4>1
    <3>2. CASE GdbTimeout
      BY <1>1, <3>2 DEF GdbTimeout
    <3>3. CASE LineFault
      BY <1>1, <3>3 DEF LineFault
    <3>. QED
      BY <1>5, <3>1, <3>2, <3>3
  <2>. QED
    BY <1>1, <2>1, <2>2, <2>3 DEF LineInv
<1>. QED
  BY <1>4, <1>5

\* What was written stays written when gdb gives another command.
LEMMA WrittenStays ==
  ASSUME LineInv, GdbCommand, NEW command
  PROVE  Written(command)' = Written(command)
<1>1. executed' = executed /\ executed \in Seq(1 .. Len(issued)) /\ issued \in Seq(Commands)
  BY DEF GdbCommand, LineInv
<1>2. PICK c \in Commands : issued' = Append(issued, c)
  BY DEF GdbCommand
<1>3. \A i \in DOMAIN executed : issued'[executed[i]] = issued[executed[i]]
  BY <1>1, <1>2
<1>. QED
  BY <1>1, <1>3 DEF Written

\* A command keeps the registers, or writes them.
LEMMA ExecuteRegs ==
  ASSUME RegsInv, pc = "data", NEW n \in 1 .. Len(issued), Execute(n),
         UNCHANGED issued
  PROVE  /\ executed' \in Seq(1 .. Len(issued))
         /\ pc' \in {"running", "acked", "rebooted"} /\ regs' \in Registers
         /\ pc' \in {"running", "dumping"} => tss' = regs'
         /\ pc' # "rebooted" => RegistersAgree'
<1> DEFINE command == issued[n]
<1>1. /\ executed \in Seq(1 .. Len(issued)) /\ regs \in Registers /\ RegistersAgree
      /\ executed' = Append(executed, n)
  BY DEF RegsInv, LineInv, Execute
<1>2. \A c : Written(c)' <=> (Written(c) \/ c = command)
  <2> TAKE c
  <2>1. /\ Len(executed) \in Nat /\ executed' \in Seq(1 .. Len(issued))
        /\ Len(executed') = Len(executed) + 1
        /\ executed'[Len(executed) + 1] = n
        /\ \A i \in 1 .. Len(executed) : executed'[i] = executed[i]
    BY <1>1
  <2>2. DOMAIN executed = 1 .. Len(executed) /\ DOMAIN executed' = 1 .. Len(executed) + 1
    BY <1>1, <2>1
  <2>3. ASSUME NEW i \in DOMAIN executed', issued[executed'[i]] = c
        PROVE  Written(c) \/ c = command
    <3>1. CASE i = Len(executed) + 1
      BY <2>1, <2>3, <3>1
    <3>2. CASE i # Len(executed) + 1
      <4>1. i \in DOMAIN executed /\ executed'[i] = executed[i]
        BY <2>1, <2>2, <3>2
      <4>. QED
        BY <2>3, <4>1 DEF Written
    <3>. QED
      BY <3>1, <3>2
  <2>4. ASSUME Written(c) PROVE Written(c)'
    <3>1. PICK i \in DOMAIN executed : issued[executed[i]] = c
      BY <2>4 DEF Written
    <3>2. i \in DOMAIN executed' /\ executed'[i] = executed[i]
      BY <2>1, <2>2
    <3>. QED
      BY <3>1, <3>2 DEF Written
  <2>5. ASSUME c = command PROVE Written(c)'
    <3>1. Len(executed) + 1 \in DOMAIN executed'
      BY <2>1, <2>2
    <3>. QED
      BY <2>1, <2>5, <3>1 DEF Written
  <2>. QED
    BY <2>3, <2>4, <2>5 DEF Written
<1>3. executed' \in Seq(1 .. Len(issued))
  BY <1>1
<1>4. CASE command \in {"G", "G wrong"}
  <2>1. /\ regs' = IF command = "G wrong" THEN [regs EXCEPT !.low = "new"]
                   ELSE [regs EXCEPT !.low = "new", !.high = "new"]
        /\ pc' = "acked"
    BY <1>4 DEF Execute, Answer, putpacket, hex2bin
  <2>2. regs' \in Registers /\ regs'.low = "new"
        /\ regs'.high = IF command = "G" THEN "new" ELSE regs.high
    BY <1>1, <1>4, <2>1 DEF Registers
  <2>3. RegistersAgree'
    <3>1. Written("G")' <=> (Written("G") \/ command = "G")
      BY <1>2
    <3>2. Written("G wrong")' <=> (Written("G wrong") \/ command = "G wrong")
      BY <1>2
    <3>. QED
      BY <1>1, <1>4, <2>2, <3>1, <3>2 DEF RegistersAgree
  <2>. QED
    BY <1>3, <2>1, <2>2, <2>3
<1>5. CASE command \notin {"G", "G wrong"}
  <2>1. /\ pc' \in {"running", "acked", "rebooted"}
        /\ pc' = "running" => tss' = regs'
        /\ regs' = regs \/ \E b \in BOOLEAN : regs' = [regs EXCEPT !.trace = b]
    BY <1>5 DEF Execute, Answer, Resume, putpacket, gdb_set_trace_flag
  <2>2. regs' \in Registers /\ regs'.low = regs.low /\ regs'.high = regs.high
    BY <1>1, <2>1 DEF Registers
  <2>3. Written("G")' <=> Written("G")
    BY <1>2, <1>5
  <2>4. Written("G wrong")' <=> Written("G wrong")
    BY <1>2, <1>5
  <2>. QED
    BY <1>1, <1>3, <2>1, <2>2, <2>3, <2>4 DEF RegistersAgree
<1>. QED
  BY <1>4, <1>5

LEMMA ReceiveRegs ==
  ASSUME RegsInv, StubRecv
  PROVE  RegsInv'
<1> DEFINE c == Head(toStub)
           tail == Tail(toStub)
<1>1. /\ c \in StubChars(Len(issued)) /\ tail \in Seq(StubChars(Len(issued)))
      /\ Len(issued) \in Nat
  BY DEF RegsInv, LineInv, StubRecv
<1>2. UNCHANGED <<issued, gdb>> /\ toStub' = tail
  BY DEF StubRecv, GetStart, GetData, putfrags
<1>3. ASSUME executed' \in Seq(1 .. Len(issued)) PROVE LineInv'
  BY <1>1, <1>2, <1>3 DEF RegsInv, LineInv
<1>4. executed \in Seq(1 .. Len(issued))
  BY DEF RegsInv, LineInv
<1>5. ASSUME UNCHANGED <<regs, executed>>,
             \/ pc \in {"start", "data"} /\ pc' \in {"start", "data"}
             \/ pc = "acked" /\ pc' \in {"acked", "start", "rebooted"}
             \/ pc = "acked" /\ pc' = "running" /\ tss' = regs
      PROVE  RegsInv'
  <2>1. LineInv'
    BY <1>3, <1>4, <1>5
  <2>2. \A command : Written(command)' = Written(command)
    BY <1>2, <1>5 DEF Written
  <2>3. RegistersAgree'
    BY <1>5, <2>2 DEF RegsInv, RegistersAgree
  <2>. QED
    BY <1>5, <2>1, <2>3 DEF RegsInv
<1>6. CASE pc = "start" /\ GetStart(c, tail)
  BY <1>5, <1>6 DEF GetStart
<1>7. CASE pc = "data" /\ GetData(c, tail)
  <2>1. CASE c[1] = "#" /\ Good(inbuf, c)
    <3>1. c[2] \in 1 .. Len(issued)
      BY <1>1, <2>1, EndNames
    <3>2. Execute(c[2])
      BY <1>7, <2>1 DEF GetData
    <3>3. /\ executed' \in Seq(1 .. Len(issued))
          /\ pc' \in {"running", "acked", "rebooted"} /\ regs' \in Registers
          /\ pc' \in {"running", "dumping"} => tss' = regs'
          /\ pc' # "rebooted" => RegistersAgree'
      BY <1>2, <1>7, <3>1, <3>2, ExecuteRegs
    <3>. QED
      BY <1>3, <3>3 DEF RegsInv
  <2>2. CASE ~ (c[1] = "#" /\ Good(inbuf, c))
    BY <1>5, <1>7, <2>2 DEF GetData, FailedChecksum
  <2>. QED
    BY <2>1, <2>2
<1>8. CASE pc = "acked" /\ putfrags(c, tail)
  <2>1. UNCHANGED <<regs, executed>>
    BY <1>8 DEF putfrags
  <2>2. \/ pc' \in {"acked", "start", "rebooted"}
        \/ pc' = "running" /\ tss' = regs
    <3>1. CASE c # Ack
      BY <1>8, <3>1 DEF putfrags
    <3>2. CASE c = Ack
      <4>1. CASE retval = "MORE"
        BY <1>8, <3>2, <4>1 DEF putfrags
      <4>2. CASE retval = "EXIT"
        BY <1>8, <3>2, <4>2 DEF putfrags
      <4>3. CASE retval \notin {"MORE", "EXIT"}
        BY <1>8, <3>2, <4>3 DEF putfrags
      <4>. QED
        BY <4>1, <4>2, <4>3
    <3>. QED
      BY <3>1, <3>2
  <2>. QED
    BY <1>5, <1>8, <2>1, <2>2
<1>. QED
  BY <1>6, <1>7, <1>8 DEF StubRecv

LEMMA NextRegs == RegsInv /\ [StubNext]_gdbVars => RegsInv'
<1> SUFFICES ASSUME RegsInv, [StubNext]_gdbVars PROVE RegsInv'
  OBVIOUS
<1>1. CASE StubRecv
  BY <1>1, ReceiveRegs
<1>2. ASSUME UNCHANGED <<issued, executed, gdb, toStub, tss>>,
             pc = "running" \/ pc = "dumping",
             pc' \in {"running", "dumping", "acked", "rebooted"},
             regs' = regs \/ regs' = tss
      PROVE  RegsInv'
  <2>1. LineInv'
    BY <1>2 DEF RegsInv, LineInv
  <2>2. \A command : Written(command)' = Written(command)
    BY <1>2 DEF Written
  <2>3. regs' = regs /\ tss' = regs'
    BY <1>2 DEF RegsInv
  <2>4. RegistersAgree'
    BY <1>2, <2>2, <2>3 DEF RegsInv, RegistersAgree
  <2>. QED
    BY <1>2, <2>1, <2>3, <2>4 DEF RegsInv
<1>3. CASE trap_handler
  BY <1>2, <1>3 DEF trap_handler, debugger, putpacket
<1>4. CASE DumpKey
  BY <1>2, <1>4 DEF DumpKey, DumpToDebugger, debugger, putpacket
<1>5. CASE gdb_serial_exit
  BY <1>2, <1>5 DEF gdb_serial_exit, putpacket
<1>6. CASE GdbCommand \/ GdbRecv \/ GdbTimeout \/ LineFault
  <2>1. UNCHANGED <<pc, regs, tss>>
    BY <1>6 DEF GdbCommand, GdbRecv, GdbTimeout, LineFault, stubVars
  <2>2. LineInv'
    BY <1>6, LineKeeps DEF RegsInv
  <2>3. \A command : Written(command)' = Written(command)
    <3>1. CASE GdbCommand
      BY <3>1, WrittenStays DEF RegsInv
    <3>2. CASE GdbRecv \/ GdbTimeout \/ LineFault
      BY <3>2 DEF GdbRecv, GdbTimeout, LineFault, Written
    <3>. QED
      BY <1>6, <3>1, <3>2
  <2>. QED
    BY <2>1, <2>2, <2>3 DEF RegsInv, RegistersAgree
<1>7. CASE UNCHANGED gdbVars
  BY <1>7 DEF gdbVars, stubVars, lineVars, RegsInv, LineInv, RegistersAgree, Written
<1>. QED
  BY <1>1, <1>3, <1>4, <1>5, <1>6, <1>7 DEF StubNext

LEMMA InitRegs == StubInit => RegsInv
<1> SUFFICES ASSUME StubInit PROVE RegsInv
  OBVIOUS
<1>1. regs \in Registers /\ tss = regs /\ pc = "running"
  BY DEF StubInit, Registers
<1>2. LineInv
  BY DEF StubInit, LineInv
<1>3. RegistersAgree
  BY DEF StubInit, RegistersAgree, Written
<1>. QED
  BY <1>1, <1>2, <1>3 DEF RegsInv

\* What gdb was told is written is in the registers of the stub until the
\* program goes on, and then in those of the program until it stops again,
\* however the packets that say so are repeated, and nothing else writes them
\* (gdb_serial.c:319-321, debugger.c:47-62 and 85-100).
THEOREM WrittenRegistersStay == StubSpec => []WrittenRegistersAreKept
<1>1. RegsInv => WrittenRegistersAreKept
  BY DEF RegsInv, WrittenRegistersAreKept, RegistersAgree
<1>. QED
  BY <1>1, InitRegs, NextRegs, PTL DEF StubSpec

-----------------------------------------------------------------------------
(* The conversation of the stub and gdb.  A command and its acknowledgement *)
(* are one token: as long as gdb waits for a + there is at most one end of  *)
(* a packet on its way to the stub or one + or - on its way back, and       *)
(* otherwise there is none.  So a command is never executed after a later   *)
(* one, and a + always is that of the last command.                         *)
Replies == [what : {"none", "S", "W", "OK", "E", "", "contents"}, to : Nat]

GdbChars ==
  {<<"$">>, Ack, Nack, Noise} \cup {<<"data", r>> : r \in Replies}
                              \cup {<<"#", r>> : r \in Replies}

Ends == {<<"#", k>> : k \in Nat}
Acks == {Ack, Nack}

Free(codes, S) == \A i \in DOMAIN codes : codes[i] \notin S

AtMostOne(codes, S) ==
  \A i, j \in DOMAIN codes : codes[i] \in S /\ codes[j] \in S => i = j

OneToken ==
  /\ gdb.pc # "sent" => Free(toStub, Ends) /\ Free(toGdb, Acks)
  /\ gdb.pc = "sent" => \/ Free(toStub, Ends) /\ AtMostOne(toGdb, Acks)
                        \/ AtMostOne(toStub, Ends) /\ Free(toGdb, Acks)

\* The number of the last command that was executed.
LastExecuted == IF executed = <<>> THEN 0 ELSE executed[Len(executed)]

Numbered ==
  /\ Free(toStub, Ends \ {<<"#", Len(issued)>>})
  /\ \/ LastExecuted = Len(issued)
     \/ /\ LastExecuted = Len(issued) - 1 /\ gdb.pc = "sent"
        /\ Free(toGdb, {Ack})

OrderInv ==
  /\ RegsInv
  /\ inbuf \in Seq(StubChars(Len(issued)))
  /\ toGdb \in Seq(GdbChars) /\ reply \in Replies
  /\ StubTypeOK /\ OneToken /\ Numbered /\ ExecutedInOrder

\* What is free of some characters, and holds at most one of them, when a
\* character is taken from it, or characters are added.
LEMMA TailParts ==
  ASSUME NEW S, NEW T, NEW s \in Seq(S), s # <<>>
  PROVE  /\ Head(s) \in S /\ Tail(s) \in Seq(S)
         /\ Free(s, T) => Head(s) \notin T /\ Free(Tail(s), T)
         /\ AtMostOne(s, T) => AtMostOne(Tail(s), T)
         /\ AtMostOne(s, T) /\ Head(s) \in T => Free(Tail(s), T)
BY DEF Free, AtMostOne

LEMMA AppendParts ==
  ASSUME NEW S, NEW T, NEW s \in Seq(S), NEW c \in S
  PROVE  /\ Append(s, c) \in Seq(S)
         /\ Free(s, T) => AtMostOne(s, T) /\ AtMostOne(Append(s, c), T)
         /\ Free(s, T) /\ c \notin T => Free(Append(s, c), T)
         /\ AtMostOne(s, T) /\ c \notin T => AtMostOne(Append(s, c), T)
<1>1. Free(s, T) => AtMostOne(s, T) /\ AtMostOne(Append(s, c), T)
  BY DEF Free, AtMostOne
<1>2. Free(s, T) /\ c \notin T => Free(Append(s, c), T)
  BY DEF Free
<1>3. AtMostOne(s, T) /\ c \notin T => AtMostOne(Append(s, c), T)
  BY DEF AtMostOne
<1>. QED
  BY <1>1, <1>2, <1>3

LEMMA ConcatParts ==
  ASSUME NEW S, NEW T, NEW s \in Seq(S), NEW r \in Seq(S)
  PROVE  /\ s \o r \in Seq(S)
         /\ Free(s, T) /\ Free(r, T) => Free(s \o r, T)
         /\ Free(s, T) /\ AtMostOne(r, T) => AtMostOne(s \o r, T)
         /\ AtMostOne(s, T) /\ Free(r, T) => AtMostOne(s \o r, T)
<1>1. Free(s, T) /\ Free(r, T) => Free(s \o r, T)
  BY DEF Free
<1>2. Free(s, T) /\ AtMostOne(r, T) => AtMostOne(s \o r, T)
  BY DEF Free, AtMostOne
<1>3. AtMostOne(s, T) /\ Free(r, T) => AtMostOne(s \o r, T)
  BY DEF Free, AtMostOne
<1>. QED
  BY <1>1, <1>2, <1>3

\* The characters tell each other apart.
LEMMA CharsDiffer ==
  /\ Ack # Nack /\ Noise \notin Acks /\ <<"$">> \notin Acks
  /\ \A x : <<"data", x>> \notin Acks /\ <<"#", x>> \notin Acks
  /\ {Ack, Nack, Noise, <<"$">>} \cap Ends = {}
  /\ \A x : <<"data", x>> \notin Ends
  /\ \A x \in Nat : <<"#", x>> \in Ends
  /\ \A c \in Ends : c[1] = "#" /\ c[2] \in Nat /\ c = <<"#", c[2]>>
  /\ Ack[1] # "#" /\ Nack[1] # "#" /\ Noise[1] # "#"
  /\ \A c \in GdbChars : c[1] = "#" => c[2] \in Replies /\ c = <<"#", c[2]>>
  /\ {Ack, Nack, Noise, <<"$">>} \subseteq GdbChars
BY DEF Ack, Nack, Noise, Acks, Ends, GdbChars

LEMMA EndIsEnd ==
  ASSUME NEW n \in Nat, NEW c \in StubChars(n)
  PROVE  c[1] = "#" <=> c \in Ends
BY DEF StubChars, Ends, Ack, Nack, Noise

\* A packet for gdb has no + or -, one for the stub has one end.
LEMMA ReplyChars ==
  ASSUME NEW r \in Replies
  PROVE  /\ Packet(r) \in Seq(GdbChars) /\ Free(Packet(r), Acks) /\ Free(Packet(r), {Ack})
<1>1. {<<"$">>, <<"data", r>>, <<"#", r>>} \subseteq GdbChars
  BY DEF GdbChars
<1>2. {<<"$">>, <<"data", r>>, <<"#", r>>} \cap Acks = {}
  BY DEF Acks, Ack, Nack
<1>3. Ack \in Acks
  BY DEF Acks
<1> HIDE DEF GdbChars, Acks
<1>. QED
  BY <1>1, <1>2, <1>3 DEF Packet, Free

LEMMA CommandChars ==
  ASSUME NEW n \in Nat
  PROVE  /\ AtMostOne(Packet(n), Ends)
         /\ Free(Packet(n), Ends \ {<<"#", n>>})
<1>1. <<"$">> \notin Ends /\ <<"data", n>> \notin Ends
  BY CharsDiffer
<1> HIDE DEF Ends
<1>. QED
  BY <1>1 DEF Packet, Free, AtMostOne

\* What a command does to the conversation.
Converses(n) ==
  \/ /\ pc' = "acked" /\ reply' \in Replies /\ reply'.to = n
     /\ reply'.what \notin {"none", "W"}
     /\ toGdb' = toGdb \o <<Ack>> \o Packet(reply')
     /\ issued[n] # "k" /\ ~ Resumes(issued[n])
     /\ retval' = IF issued[n] = "D" THEN "DETACH" ELSE retval
  \/ /\ reply' = NoReply /\ toGdb' = Append(toGdb, Ack)
     /\ \/ pc' = "running" /\ Resumes(issued[n]) /\ retval' \in {"CONT", "RUN"}
        \/ pc' = "rebooted" /\ issued[n] = "k" /\ retval' = "KILL"

LEMMA AnswerConverses ==
  ASSUME NEW what \in {"S", "OK", "E", "", "contents"}, NEW n \in Nat,
         Answer(what, n), issued[n] # "k", ~ Resumes(issued[n]),
         retval' = IF issued[n] = "D" THEN "DETACH" ELSE retval
  PROVE  Converses(n)
<1>1. /\ pc' = "acked" /\ reply' = [what |-> what, to |-> n]
      /\ toGdb' = toGdb \o <<Ack>> \o Packet([what |-> what, to |-> n])
  BY DEF Answer, putpacket
<1>2. reply' \in Replies /\ reply'.to = n /\ reply'.what \notin {"none", "W"}
  BY <1>1 DEF Replies
<1>. QED
  BY <1>1, <1>2 DEF Converses

LEMMA ExecuteConverses ==
  ASSUME NEW n \in Nat, Execute(n)
  PROVE  /\ executed' = Append(executed, n) /\ Converses(n)
         /\ connected' \in BOOLEAN /\ do_debug' = do_debug
         /\ gdb_serial_debug \in BOOLEAN => gdb_serial_debug' \in BOOLEAN
<1> DEFINE command == issued[n]
<1>1. executed' = Append(executed, n) /\ connected' \in BOOLEAN
  BY DEF Execute, StaysConnected
<1>2. do_debug' = do_debug
  BY DEF Execute, Answer, Resume
<1>3. gdb_serial_debug \in BOOLEAN => gdb_serial_debug' \in BOOLEAN
  BY DEF Execute, Resume
<1>4. CASE command \in {"g", "m", "?", "!", "H", "unknown"}
  <2> DEFINE what == CASE command \in {"g", "m"} -> "contents"
                       [] command = "?" -> "S"
                       [] command = "!" -> "OK"
                       [] OTHER -> ""
  <2>1. Answer(what, n) /\ retval' = retval
    BY <1>4 DEF Execute
  <2>2. what \in {"S", "OK", "E", "", "contents"}
    OBVIOUS
  <2> HIDE DEF what
  <2>3. Converses(n)
    BY <1>4, <2>1, <2>2, AnswerConverses DEF Resumes
  <2>. QED
    BY <1>1, <1>2, <1>3, <2>3
<1>5. CASE command \in {"d", "G", "G wrong", "M", "M fault", "D"}
  <2>1. PICK what \in {"OK", "E"} : Answer(what, n)
    BY <1>5 DEF Execute
  <2>2. retval' = IF command = "D" THEN "DETACH" ELSE retval
    BY <1>5 DEF Execute
  <2>3. Converses(n)
    BY <1>5, <2>1, <2>2, AnswerConverses DEF Resumes
  <2>. QED
    BY <1>1, <1>2, <1>3, <2>3
<1>6. CASE command \in {"c", "s", "R"}
  <2>1. PICK action \in {"CONT", "RUN"} : Resume(action)
    BY <1>6 DEF Execute
  <2>2. Converses(n)
    BY <1>6, <2>1 DEF Resume, Converses, Resumes
  <2>. QED
    BY <1>1, <1>2, <1>3, <2>2
<1>7. CASE command = "k"
  <2>1. Converses(n)
    BY <1>7 DEF Execute, Converses
  <2>. QED
    BY <1>1, <1>2, <1>3, <2>1
<1>. QED
  BY <1>4, <1>5, <1>6, <1>7 DEF Execute

\* The stub takes a character that ends no packet, or none, and sends what has
\* no + or - in it.
LEMMA StubSays ==
  ASSUME OrderInv, UNCHANGED <<gdb, issued>>,
         toStub' = toStub \/ (toStub # <<>> /\ toStub' = Tail(toStub)),
         \/ UNCHANGED toGdb
         \/ \E r \in Replies : toGdb' = toGdb \o Packet(r)
  PROVE  /\ OneToken' /\ toGdb' \in Seq(GdbChars)
         /\ Free(toStub', Ends \ {<<"#", Len(issued)>>})
         /\ Free(toGdb, {Ack}) => Free(toGdb', {Ack})
<1> DEFINE S == StubChars(Len(issued))
           old == Ends \ {<<"#", Len(issued)>>}
<1>1. /\ toStub \in Seq(S) /\ toGdb \in Seq(GdbChars)
      /\ OneToken /\ Free(toStub, old)
  BY DEF OrderInv, RegsInv, LineInv, Numbered
<1> HIDE DEF S, old
<1>2. /\ Free(toStub, Ends) => Free(toStub', Ends)
      /\ AtMostOne(toStub, Ends) => AtMostOne(toStub', Ends)
      /\ Free(toStub', old)
  <2>1. CASE toStub' = toStub
    BY <1>1, <2>1
  <2>2. CASE toStub # <<>> /\ toStub' = Tail(toStub)
    <3>1. Free(toStub, Ends) => Free(Tail(toStub), Ends)
      BY <1>1, <2>2, TailParts
    <3>2. AtMostOne(toStub, Ends) => AtMostOne(Tail(toStub), Ends)
      BY <1>1, <2>2, TailParts
    <3>3. Free(Tail(toStub), old)
      BY <1>1, <2>2, TailParts
    <3>. QED
      BY <2>2, <3>1, <3>2, <3>3
  <2>. QED
    BY <2>1, <2>2
<1>3. /\ Free(toGdb, Acks) => Free(toGdb', Acks)
      /\ AtMostOne(toGdb, Acks) => AtMostOne(toGdb', Acks)
      /\ toGdb' \in Seq(GdbChars)
      /\ Free(toGdb, {Ack}) => Free(toGdb', {Ack})
  <2>1. CASE UNCHANGED toGdb
    BY <1>1, <2>1
  <2>2. ASSUME NEW r \in Replies, toGdb' = toGdb \o Packet(r) PROVE <1>3!1 /\ <1>3!2 /\ <1>3!3 /\ <1>3!4
    <3>1. Packet(r) \in Seq(GdbChars) /\ Free(Packet(r), Acks) /\ Free(Packet(r), {Ack})
      BY ReplyChars
    <3> DEFINE p == Packet(r)
    <3> HIDE DEF p
    <3>2. /\ Free(toGdb, Acks) => Free(toGdb \o p, Acks)
          /\ AtMostOne(toGdb, Acks) => AtMostOne(toGdb \o p, Acks)
          /\ toGdb \o p \in Seq(GdbChars)
      BY <1>1, <3>1, ConcatParts DEF p
    <3>3. Free(toGdb, {Ack}) => Free(toGdb \o p, {Ack})
      BY <1>1, <3>1, ConcatParts DEF p
    <3>. QED
      BY <2>2, <3>2, <3>3 DEF p
  <2>. QED
    BY <2>1, <2>2
<1>4. OneToken'
  BY <1>1, <1>2, <1>3 DEF OneToken
<1>. QED
  BY <1>2, <1>3, <1>4 DEF old

\* The stub takes the end of a packet, and answers with one + or -.
LEMMA StubAnswers ==
  ASSUME OrderInv, UNCHANGED <<gdb, issued>>,
         toStub # <<>>, toStub' = Tail(toStub), Head(toStub)[1] = "#",
         NEW a \in Acks,
         \/ toGdb' = Append(toGdb, a)
         \/ \E r \in Replies : toGdb' = toGdb \o <<a>> \o Packet(r)
  PROVE  /\ OneToken' /\ toGdb' \in Seq(GdbChars)
         /\ Free(toStub', Ends \ {<<"#", Len(issued)>>})
         /\ a = Nack /\ Free(toGdb, {Ack}) => Free(toGdb', {Ack})
         /\ gdb.pc = "sent" /\ Head(toStub) = <<"#", Len(issued)>>
<1> DEFINE S == StubChars(Len(issued))
           old == Ends \ {<<"#", Len(issued)>>}
           c == Head(toStub)
<1>1. /\ toStub \in Seq(S) /\ toGdb \in Seq(GdbChars)
      /\ OneToken /\ Free(toStub, old) /\ Len(issued) \in Nat
  BY DEF OrderInv, RegsInv, LineInv, Numbered
<1>2. c \in S /\ c \in Ends
  BY <1>1, EndIsEnd
<1> HIDE DEF S, old
<1>3. c = <<"#", Len(issued)>>
  <2>1. c \notin old
    BY <1>1, TailParts
  <2>. QED
    BY <1>2, <2>1, CharsDiffer DEF old
<1>4. gdb.pc = "sent" /\ AtMostOne(toStub, Ends) /\ Free(toGdb, Acks)
  <2>1. ~ Free(toStub, Ends)
    BY <1>1, <1>2, TailParts
  <2>. QED
    BY <1>1, <2>1 DEF OneToken
<1>5. Free(toStub', Ends) /\ Free(toStub', old)
  <2>1. Free(Tail(toStub), Ends)
    BY <1>1, <1>2, <1>4, TailParts
  <2>2. Free(Tail(toStub), old)
    BY <1>1, TailParts
  <2>. QED
    BY <2>1, <2>2
<1>6. a \in GdbChars
  BY CharsDiffer DEF Acks
<1>7. /\ AtMostOne(toGdb', Acks) /\ toGdb' \in Seq(GdbChars)
      /\ a = Nack /\ Free(toGdb, {Ack}) => Free(toGdb', {Ack})
  <2> DEFINE q == Append(toGdb, a)
  <2>1. /\ q \in Seq(GdbChars) /\ AtMostOne(q, Acks)
        /\ a = Nack /\ Free(toGdb, {Ack}) => Free(q, {Ack})
    <3>1. q \in Seq(GdbChars) /\ AtMostOne(q, Acks)
      BY <1>1, <1>4, <1>6, AppendParts
    <3>2. a \notin {Ack} /\ Free(toGdb, {Ack}) => Free(q, {Ack})
      BY <1>1, <1>6, AppendParts
    <3>. QED
      BY <3>1, <3>2, CharsDiffer
  <2>2. CASE toGdb' = q
    BY <2>1, <2>2
  <2>3. CASE \E r \in Replies : toGdb' = toGdb \o <<a>> \o Packet(r)
    <3>1. PICK r \in Replies : toGdb' = toGdb \o <<a>> \o Packet(r)
      BY <2>3
    <3> DEFINE p == Packet(r)
    <3>2. p \in Seq(GdbChars) /\ Free(p, Acks) /\ Free(p, {Ack})
      BY ReplyChars
    <3> HIDE DEF p
    <3>3. toGdb' = q \o p
      <4>1. toGdb \o <<a>> = q
        BY <1>1, <1>6
      <4>. QED
        BY <3>1, <4>1 DEF p
    <3> HIDE DEF q
    <3>4. AtMostOne(q \o p, Acks) /\ q \o p \in Seq(GdbChars)
      BY <2>1, <3>2, ConcatParts
    <3>5. Free(q, {Ack}) => Free(q \o p, {Ack})
      BY <2>1, <3>2, ConcatParts
    <3>. QED
      BY <2>1, <3>3, <3>4, <3>5
  <2>. QED
    BY <2>2, <2>3
<1>8. OneToken'
  BY <1>4, <1>5, <1>7 DEF OneToken
<1>. QED
  BY <1>3, <1>4, <1>5, <1>7, <1>8 DEF old

\* A step that executes nothing and gives no command.
LEMMA OrderStays ==
  ASSUME OrderInv, RegsInv', UNCHANGED <<issued, executed>>,
         StubTypeOK', inbuf' \in Seq(StubChars(Len(issued))), reply' \in Replies,
         toGdb' \in Seq(GdbChars), OneToken',
         Free(toStub', Ends \ {<<"#", Len(issued)>>}),
         gdb.pc = "sent" /\ Free(toGdb, {Ack})
           => gdb'.pc = "sent" /\ Free(toGdb', {Ack})
  PROVE  OrderInv'
<1>1. ExecutedInOrder' /\ LastExecuted' = LastExecuted
  BY DEF OrderInv, ExecutedInOrder, LastExecuted
<1>2. Numbered'
  BY <1>1 DEF OrderInv, Numbered
<1>. QED
  BY <1>1, <1>2 DEF OrderInv

\* A command that is executed is the last one or, before, the one before it.
LEMMA OrderExecutes ==
  ASSUME OrderInv, UNCHANGED issued, Len(issued) \in Nat \ {0},
         executed' = Append(executed, Len(issued))
  PROVE  ExecutedInOrder' /\ LastExecuted' = Len(issued)
<1> DEFINE n == Len(issued)
           m == Len(executed)
<1>1. /\ executed \in Seq(1 .. n) /\ n \in Nat \ {0} /\ m \in Nat
      /\ LastExecuted = n \/ LastExecuted = n - 1
      /\ ExecutedInOrder
  BY DEF OrderInv, RegsInv, LineInv, Numbered
<1> HIDE DEF n
<1>2. /\ DOMAIN executed' = 1 .. m + 1 /\ executed'[m + 1] = n
      /\ \A i \in 1 .. m : executed'[i] = executed[i]
      /\ executed' # <<>> /\ Len(executed') = m + 1
      /\ DOMAIN executed = 1 .. m /\ (executed = <<>> <=> m = 0)
  BY <1>1 DEF n
<1> HIDE DEF m
<1>3. ASSUME NEW i \in DOMAIN executed'
      PROVE  executed'[i] \in (IF i = 1 THEN {1}
                               ELSE {executed'[i - 1], executed'[i - 1] + 1})
  <2>1. CASE i \in 1 .. m
    <3>1. executed'[i] = executed[i] /\ (i # 1 => executed'[i - 1] = executed[i - 1])
      BY <1>1, <1>2, <2>1
    <3>. QED
      BY <1>1, <1>2, <2>1, <3>1 DEF ExecutedInOrder
  <2>2. CASE i = m + 1
    <3>1. CASE m = 0
      <4>1. LastExecuted = 0
        BY <1>2, <3>1 DEF LastExecuted
      <4>. QED
        BY <1>1, <1>2, <2>2, <3>1, <4>1
    <3>2. CASE m # 0
      <4>1. LastExecuted = executed[m]
        BY <1>2, <3>2 DEF LastExecuted, m
      <4>2. executed'[m] = executed[m] /\ executed[m] \in 1 .. n
        BY <1>1, <1>2, <3>2
      <4>. QED
        BY <1>1, <1>2, <2>2, <3>2, <4>1, <4>2
    <3>. QED
      BY <3>1, <3>2
  <2>3. i \in 1 .. m \/ i = m + 1
    BY <1>1, <1>2
  <2>. QED
    BY <2>1, <2>2, <2>3, Zenon
<1>. QED
  BY <1>2, <1>3 DEF ExecutedInOrder, LastExecuted, n

LEMMA ReceiveOrder ==
  ASSUME OrderInv, StubRecv, RegsInv'
  PROVE  OrderInv'
<1> DEFINE c == Head(toStub)
           tail == Tail(toStub)
           S == StubChars(Len(issued))
<1>1. /\ toStub \in Seq(S) /\ inbuf \in Seq(S) /\ reply \in Replies /\ StubTypeOK
      /\ Len(issued) \in Nat /\ BUFMAX \in Nat /\ BUFMAX > 1
  BY StubAssumption DEF OrderInv, RegsInv, LineInv, StubAssumption
<1>2. UNCHANGED <<issued, gdb>> /\ toStub' = tail /\ toStub # <<>>
  BY DEF StubRecv, GetStart, GetData, putfrags
<1>3. c \in S
  BY <1>1, <1>2
<1>4. ASSUME UNCHANGED executed, StubTypeOK', inbuf' \in Seq(S), reply' \in Replies,
             UNCHANGED toGdb \/ \E r \in Replies : toGdb' = toGdb \o Packet(r)
      PROVE  OrderInv'
  <2>1. /\ OneToken' /\ toGdb' \in Seq(GdbChars)
        /\ Free(toStub', Ends \ {<<"#", Len(issued)>>})
        /\ Free(toGdb, {Ack}) => Free(toGdb', {Ack})
    BY <1>2, <1>4, StubSays
  <2>. QED
    BY <1>2, <1>4, <2>1, OrderStays
<1>5. CASE pc = "start" /\ GetStart(c, tail)
  <2>1. /\ UNCHANGED <<executed, reply, toGdb>> /\ inbuf' = <<>>
        /\ StubTypeOK'
    BY <1>1, <1>2, <1>5 DEF GetStart, StubTypeOK
  <2>. QED
    BY <1>1, <1>4, <2>1
<1>6. CASE pc = "data" /\ GetData(c, tail)
  <2>1. CASE c[1] = "#" /\ Good(inbuf, c)
    <3>1. c \in Ends
      BY <1>1, <1>3, <2>1, EndIsEnd
    <3>2. c[2] \in Nat /\ Execute(c[2]) /\ inbuf' = <<>>
      BY <1>6, <2>1, <3>1, CharsDiffer DEF GetData
    <3> DEFINE n == c[2]
    <3> HIDE DEF n
    <3>3. /\ executed' = Append(executed, n) /\ Converses(n)
          /\ connected' \in BOOLEAN /\ do_debug' = do_debug
          /\ gdb_serial_debug \in BOOLEAN => gdb_serial_debug' \in BOOLEAN
      BY <3>2, ExecuteConverses DEF n
    <3>4. \/ toGdb' = Append(toGdb, Ack)
          \/ \E r \in Replies : toGdb' = toGdb \o <<Ack>> \o Packet(r)
      BY <3>3 DEF Converses
    <3>5. /\ OneToken' /\ toGdb' \in Seq(GdbChars)
          /\ Free(toStub', Ends \ {<<"#", Len(issued)>>})
          /\ gdb.pc = "sent" /\ c = <<"#", Len(issued)>>
      <4>1. Ack \in Acks
        BY DEF Acks
      <4>. QED
        BY <1>2, <2>1, <3>4, <4>1, StubAnswers
    <3>6. n = Len(issued) /\ Len(issued) # 0
      BY <3>5 DEF n, OrderInv, RegsInv, LineInv
    <3>7. ExecutedInOrder' /\ LastExecuted' = Len(issued)
      BY <1>1, <1>2, <3>3, <3>6, OrderExecutes
    <3>8. Numbered'
      BY <1>2, <3>5, <3>7 DEF Numbered
    <3>9. StubTypeOK' /\ reply' \in Replies
      <4>1. /\ pc' \in {"acked", "running", "rebooted"}
            /\ retval' \in {"MORE", "CONT", "RUN", "KILL", "DETACH", "EXIT"}
        BY <1>1, <3>3 DEF Converses, StubTypeOK
      <4>3. reply' \in Replies /\ (reply' = NoReply) = (pc' # "acked")
        <5>1. CASE pc' = "acked"
          <6>1. reply' \in Replies /\ reply'.what # "none"
            BY <3>3, <5>1 DEF Converses
          <6>. QED
            BY <5>1, <6>1 DEF NoReply
        <5>2. CASE pc' # "acked"
          <6>1. reply' = NoReply
            BY <3>3, <5>2 DEF Converses
          <6>. QED
            BY <5>2, <6>1 DEF NoReply, Replies
        <5>. QED
          BY <5>1, <5>2
      <4>2. {connected', do_debug', gdb_serial_debug'} \subseteq BOOLEAN
        BY <1>1, <3>3 DEF StubTypeOK
      <4>. QED
        BY <1>1, <1>2, <3>2, <4>1, <4>2, <4>3 DEF StubTypeOK
    <3>10. inbuf' \in Seq(StubChars(Len(issued')))
      BY <3>2
    <3>. QED
      BY <3>5, <3>7, <3>8, <3>9, <3>10 DEF OrderInv
  <2>2. CASE c[1] = "#" /\ ~ Good(inbuf, c)
    <3>1. /\ inbuf' = <<>> /\ pc' = "start" /\ toGdb' = Append(toGdb, Nack)
          /\ UNCHANGED <<reply, executed, retval, connected, do_debug, gdb_serial_debug>>
      BY <1>6, <2>2 DEF GetData, FailedChecksum
    <3>2. StubTypeOK'
      BY <1>1, <1>2, <1>6, <3>1 DEF StubTypeOK
    <3>3. /\ OneToken' /\ toGdb' \in Seq(GdbChars)
          /\ Free(toStub', Ends \ {<<"#", Len(issued)>>})
          /\ Free(toGdb, {Ack}) => Free(toGdb', {Ack})
      <4>1. Nack \in Acks
        BY DEF Acks
      <4>. QED
        BY <1>2, <2>2, <3>1, <4>1, StubAnswers
    <3>. QED
      BY <1>1, <1>2, <3>1, <3>2, <3>3, OrderStays
  <2>3. CASE c[1] # "#"
    <3>1. /\ inbuf' = IF Len(inbuf) + 1 < BUFMAX THEN Append(inbuf, c) ELSE <<>>
          /\ pc' = IF inbuf' = <<>> THEN "start" ELSE pc
          /\ UNCHANGED <<toGdb, reply, executed, retval, connected, do_debug,
                         gdb_serial_debug>>
      BY <1>6, <2>3 DEF GetData
    <3>2. inbuf' \in Seq(S) /\ Len(inbuf') < BUFMAX
      BY <1>1, <1>3, <3>1
    <3>3. StubTypeOK'
      BY <1>1, <1>2, <1>6, <3>1, <3>2 DEF StubTypeOK
    <3>. QED
      BY <1>1, <1>4, <3>1, <3>2, <3>3
  <2>. QED
    BY <2>1, <2>2, <2>3
<1>7. CASE pc = "acked" /\ putfrags(c, tail)
  <2>1. /\ UNCHANGED <<inbuf, retval, gdb_serial_debug, executed>>
        /\ connected' \in {connected, FALSE}
    BY <1>7 DEF putfrags
  <2>2. CASE c # Ack
    <3>1. toGdb' = toGdb \o Packet(reply) /\ UNCHANGED <<pc, reply, do_debug>>
      BY <1>7, <2>2 DEF putfrags, SendAgain
    <3>2. StubTypeOK'
      BY <1>1, <1>2, <2>1, <3>1 DEF StubTypeOK
    <3>. QED
      BY <1>1, <1>4, <2>1, <3>1, <3>2
  <2>3. CASE c = Ack
    <3>1. /\ UNCHANGED toGdb /\ reply' = NoReply
          /\ pc' \in {"start", "rebooted", "running"} /\ (do_debug \in BOOLEAN => do_debug' \in BOOLEAN)
      <4>1. CASE retval = "MORE"
        BY <1>7, <2>3, <4>1 DEF putfrags
      <4>2. CASE retval = "EXIT"
        BY <1>7, <2>3, <4>2 DEF putfrags
      <4>3. CASE retval \notin {"MORE", "EXIT"}
        <5>1. /\ UNCHANGED toGdb /\ reply' = NoReply /\ pc' = "running"
              /\ do_debug' = (do_debug /\ retval # "DETACH")
          BY <1>7, <2>3, <4>3 DEF putfrags
        <5>. QED
          BY <5>1, Zenon
      <4>. QED
        BY <4>1, <4>2, <4>3
    <3>2. StubTypeOK'
      BY <1>1, <1>2, <1>7, <2>1, <3>1 DEF StubTypeOK
    <3>3. reply' \in Replies
      BY <3>1 DEF NoReply, Replies
    <3>. QED
      BY <1>1, <1>4, <2>1, <3>1, <3>2, <3>3
  <2>. QED
    BY <2>2, <2>3
<1>. QED
  BY <1>5, <1>6, <1>7 DEF StubRecv

\* The trap handler speaks, or the program goes on or ends.
LEMMA TrapOrder ==
  ASSUME OrderInv, RegsInv', trap_handler \/ DumpKey \/ gdb_serial_exit
  PROVE  OrderInv'
<1>1. /\ UNCHANGED <<inbuf, gdb_serial_debug, toStub, gdb, issued, executed>>
      /\ pc \in {"running", "dumping"}
      /\ pc' \in {"running", "dumping", "acked", "rebooted"}
      /\ connected' = connected \/ connected' = FALSE
      /\ do_debug' = do_debug \/ do_debug' = TRUE
      /\ retval' \in {retval, "MORE", "EXIT"}
  BY DEF trap_handler, DumpKey, gdb_serial_exit, DumpToDebugger, debugger, putpacket
<1>2. \/ /\ UNCHANGED <<toGdb, reply>> /\ pc' # "acked"
      \/ \E what \in {"S", "W"} : putpacket(<<>>, what, 0)
  BY DEF trap_handler, DumpKey, gdb_serial_exit, DumpToDebugger, debugger
<1>3. /\ StubTypeOK /\ inbuf \in Seq(StubChars(Len(issued))) /\ reply \in Replies
      /\ toGdb \in Seq(GdbChars)
  BY DEF OrderInv
<1>4. /\ UNCHANGED toGdb \/ \E r \in Replies : toGdb' = toGdb \o Packet(r)
      /\ reply' \in Replies /\ (reply' = NoReply) = (pc' # "acked")
  <2>1. CASE UNCHANGED <<toGdb, reply>> /\ pc' # "acked"
    BY <1>1, <1>3, <2>1 DEF StubTypeOK
  <2>2. ASSUME NEW what \in {"S", "W"}, putpacket(<<>>, what, 0)
        PROVE  <1>4!1 /\ <1>4!2
    <3> DEFINE r == [what |-> what, to |-> 0]
    <3>1. r \in Replies /\ r # NoReply
      BY DEF Replies, NoReply
    <3>2. toGdb' = toGdb \o <<>> \o Packet(r) /\ reply' = r /\ pc' = "acked"
      BY <2>2 DEF putpacket
    <3> HIDE DEF r
    <3>3. toGdb \o <<>> = toGdb
      BY <1>3
    <3>. QED
      BY <3>1, <3>2, <3>3
  <2>. QED
    BY <1>2, <2>1, <2>2
<1>5. StubTypeOK'
  <2>1. {connected', do_debug', gdb_serial_debug'} \subseteq BOOLEAN
    BY <1>1, <1>3 DEF StubTypeOK
  <2>. QED
    BY <1>1, <1>3, <1>4, <2>1 DEF StubTypeOK
<1>6. /\ OneToken' /\ toGdb' \in Seq(GdbChars)
      /\ Free(toStub', Ends \ {<<"#", Len(issued)>>})
      /\ Free(toGdb, {Ack}) => Free(toGdb', {Ack})
  BY <1>1, <1>4, StubSays
<1>. QED
  BY <1>1, <1>3, <1>4, <1>5, <1>6, OrderStays

\* gdb gives a command when it waits for nothing.
LEMMA CommandOrder ==
  ASSUME OrderInv, RegsInv', GdbCommand
  PROVE  OrderInv'
<1> DEFINE n == Len(issued)
           p == Packet(n + 1)
<1>1. /\ issued \in Seq(Commands) /\ n \in Nat /\ toStub \in Seq(StubChars(n))
      /\ inbuf \in Seq(StubChars(n)) /\ toGdb \in Seq(GdbChars) /\ reply \in Replies
      /\ StubTypeOK /\ ExecutedInOrder
      /\ Free(toStub, Ends) /\ Free(toGdb, Acks) /\ LastExecuted = n
      /\ gdb = [pc |-> gdb.pc, frame |-> gdb.frame, answer |-> gdb.answer]
  BY DEF OrderInv, RegsInv, LineInv, OneToken, Numbered, GdbCommand
<1>2. /\ UNCHANGED <<stubVars, toGdb, executed>> /\ gdb' = [gdb EXCEPT !.pc = "sent"]
      /\ \E command \in Commands : issued' = Append(issued, command)
      /\ toStub' = toStub \o Packet(Len(issued'))
  BY DEF GdbCommand, GdbSends
<1>3. Len(issued') = n + 1 /\ gdb'.pc = "sent"
  BY <1>1, <1>2
<1> HIDE DEF n
<1>4. StubChars(n) \subseteq StubChars(n + 1) /\ n + 1 \in Nat /\ n + 1 \in 1 .. n + 1
  BY <1>1 DEF StubChars
<1>5. /\ toStub \in Seq(StubChars(n + 1)) /\ inbuf \in Seq(StubChars(n + 1))
      /\ p \in Seq(StubChars(n + 1)) /\ AtMostOne(p, Ends)
      /\ Free(p, Ends \ {<<"#", n + 1>>})
  BY <1>1, <1>4, PacketChars, CommandChars
<1>6. Free(toStub, Ends \ {<<"#", n + 1>>}) /\ Free(toGdb, {Ack})
  BY <1>1 DEF Free, Acks
<1> HIDE DEF p
<1>7. AtMostOne(toStub \o p, Ends)
  BY <1>1, <1>5, ConcatParts
<1>8. Free(toStub \o p, Ends \ {<<"#", n + 1>>})
  BY <1>5, <1>6, ConcatParts
<1>9. toStub' = toStub \o p
  BY <1>2, <1>3 DEF p
<1>10. OneToken'
  BY <1>1, <1>2, <1>3, <1>7, <1>9 DEF OneToken
<1>11. ExecutedInOrder' /\ LastExecuted' = n
  BY <1>1, <1>2 DEF ExecutedInOrder, LastExecuted
<1>12. Numbered'
  <2>1. LastExecuted' = Len(issued') - 1 /\ Free(toGdb', {Ack})
    BY <1>1, <1>2, <1>3, <1>6, <1>11
  <2>2. Free(toStub', Ends \ {<<"#", Len(issued')>>})
    BY <1>3, <1>8, <1>9
  <2>. QED
    BY <1>3, <2>1, <2>2 DEF Numbered
<1>13. StubTypeOK'
  BY <1>1, <1>2, <1>3 DEF StubTypeOK, stubVars
<1>14. inbuf' = inbuf /\ reply' = reply /\ toGdb' = toGdb
  BY <1>2 DEF stubVars
<1>. QED
  BY <1>1, <1>3, <1>5, <1>10, <1>11, <1>12, <1>13, <1>14 DEF OrderInv

\* gdb takes a character: a + or - that it waits for is the token.
LEMMA AnswerOrder ==
  ASSUME OrderInv, RegsInv', GdbRecv
  PROVE  OrderInv'
<1> DEFINE S == StubChars(Len(issued))
           old == Ends \ {<<"#", Len(issued)>>}
           p == Packet(Len(issued))
<1>1. /\ toStub \in Seq(S) /\ inbuf \in Seq(S) /\ toGdb \in Seq(GdbChars)
      /\ reply \in Replies /\ StubTypeOK /\ OneToken /\ Free(toStub, old)
      /\ Len(issued) \in Nat /\ (gdb.pc = "sent" => Len(issued) # 0)
      /\ gdb = [pc |-> gdb.pc, frame |-> gdb.frame, answer |-> gdb.answer]
  BY DEF OrderInv, RegsInv, LineInv, Numbered
<1>2. /\ UNCHANGED stubVars /\ UNCHANGED <<issued, executed>>
      /\ toGdb # <<>> /\ toGdb' = Tail(toGdb)
  BY DEF GdbRecv
<1>3. /\ inbuf' \in Seq(S) /\ reply' \in Replies
      /\ UNCHANGED <<pc, inbuf, reply, retval, connected, do_debug, gdb_serial_debug>>
  BY <1>1, <1>2 DEF stubVars
<1>4. \/ /\ \/ toStub' = toStub
            \/ \E a \in Acks : toStub' = Append(toStub, a)
         /\ \/ gdb.pc = "sent" /\ gdb'.pc = "sent"
            \/ gdb.pc # "sent" /\ gdb'.pc \in {"gone", "ready", gdb.pc}
      \/ /\ gdb.pc = "sent" /\ Head(toGdb) = Ack /\ toStub' = toStub
         /\ gdb'.pc \in {"stopped", "gone", "wait"}
      \/ /\ gdb.pc = "sent" /\ Head(toGdb) = Nack /\ toStub' = toStub \o p
         /\ gdb' = gdb
  <2> DEFINE c == Head(toGdb)
  <2> HIDE DEF c
  <2>1. CASE gdb.frame # NotReading /\ c[1] = "#" /\ GdbFrame(c)
    <3>1. \E a \in Acks : toStub' = Append(toStub, a)
      BY <2>1 DEF GdbFrame, Acks
    <3>2. \/ gdb.pc = "sent" /\ gdb'.pc = "sent"
          \/ gdb.pc # "sent" /\ gdb'.pc \in {"gone", "ready", gdb.pc}
      BY <1>1, <2>1 DEF GdbFrame
    <3>. QED
      BY <3>1, <3>2
  <2>2. CASE toStub' = toStub /\ \E f : gdb' = [gdb EXCEPT !.frame = f]
    BY <1>1, <2>2
  <2>3. CASE gdb.pc = "sent" /\ c = Ack /\ toStub' = toStub
             /\ gdb' = [gdb EXCEPT !.pc =
                          CASE Resumes(Last(issued)) -> "stopped"
                            [] Last(issued) = "k" -> "gone"
                            [] OTHER -> "wait"]
    BY <1>1, <2>3 DEF c
  <2>4. CASE gdb.pc = "sent" /\ c = Nack /\ GdbSends(Len(issued)) /\ UNCHANGED gdb
    BY <2>4 DEF GdbSends, c
  <2>5. CASE UNCHANGED <<gdb, toStub>>
    BY <1>1, <2>5
  <2>. QED
    BY <2>1, <2>2, <2>3, <2>4, <2>5 DEF GdbRecv, c
<1>5. StubTypeOK'
  <2>1. gdb'.pc \in {"ready", "sent", "wait", "asked", "stopped", "gone"}
    BY <1>1, <1>4 DEF StubTypeOK
  <2>. QED
    BY <1>1, <1>3, <2>1 DEF StubTypeOK
<1> HIDE DEF S, old
<1>6. /\ toGdb' \in Seq(GdbChars) /\ Head(toGdb) \in GdbChars
      /\ Free(toGdb, Acks) => Head(toGdb) \notin Acks /\ Free(toGdb', Acks)
      /\ AtMostOne(toGdb, Acks) => AtMostOne(toGdb', Acks)
      /\ AtMostOne(toGdb, Acks) /\ Head(toGdb) \in Acks => Free(toGdb', Acks)
  BY <1>1, <1>2, TailParts
<1>7. Free(toGdb, {Ack}) => Head(toGdb) # Ack /\ Free(toGdb', {Ack})
  BY <1>1, <1>2, TailParts
<1>8. CASE /\ \/ toStub' = toStub
              \/ \E a \in Acks : toStub' = Append(toStub, a)
           /\ \/ gdb.pc = "sent" /\ gdb'.pc = "sent"
              \/ gdb.pc # "sent" /\ gdb'.pc \in {"gone", "ready", gdb.pc}
  <2>1. /\ Free(toStub, Ends) => Free(toStub', Ends)
        /\ AtMostOne(toStub, Ends) => AtMostOne(toStub', Ends)
        /\ Free(toStub', old)
    <3>1. CASE toStub' = toStub
      BY <1>1, <3>1
    <3>2. CASE \E a \in Acks : toStub' = Append(toStub, a)
      <4>1. PICK a \in Acks : toStub' = Append(toStub, a)
        BY <3>2
      <4>2. a \in S /\ a \notin Ends /\ a \notin old
        BY <4>1, CharsDiffer DEF Acks, S, StubChars, old
      <4>3. /\ Free(toStub, Ends) => Free(toStub', Ends)
            /\ AtMostOne(toStub, Ends) => AtMostOne(toStub', Ends)
        BY <1>1, <4>1, <4>2, AppendParts
      <4>4. Free(toStub', old)
        BY <1>1, <4>1, <4>2, AppendParts
      <4>. QED
        BY <4>3, <4>4
    <3>. QED
      BY <1>8, <3>1, <3>2
  <2>2. gdb'.pc = "sent" <=> gdb.pc = "sent"
    BY <1>8
  <2>3. OneToken'
    BY <1>1, <1>6, <2>1, <2>2 DEF OneToken
  <2>. QED
    BY <1>2, <1>3, <1>5, <1>6, <1>7, <2>1, <2>2, <2>3, OrderStays DEF S, old
<1>9. CASE /\ gdb.pc = "sent" /\ Head(toGdb) = Ack /\ toStub' = toStub
           /\ gdb'.pc \in {"stopped", "gone", "wait"}
  <2>1. Head(toGdb) \in Acks
    BY <1>9 DEF Acks
  <2>2. Free(toStub, Ends) /\ AtMostOne(toGdb, Acks)
    BY <1>1, <1>6, <1>9, <2>1 DEF OneToken
  <2>3. OneToken'
    BY <1>6, <1>9, <2>1, <2>2 DEF OneToken
  <2>. QED
    BY <1>1, <1>2, <1>3, <1>5, <1>6, <1>7, <1>9, <2>3, OrderStays DEF S, old
<1>10. CASE /\ gdb.pc = "sent" /\ Head(toGdb) = Nack /\ toStub' = toStub \o p
            /\ gdb' = gdb
  <2>1. Head(toGdb) \in Acks
    BY <1>10 DEF Acks
  <2>2. Free(toStub, Ends) /\ AtMostOne(toGdb, Acks)
    BY <1>1, <1>6, <1>10, <2>1 DEF OneToken
  <2>3. p \in Seq(S) /\ AtMostOne(p, Ends) /\ Free(p, old)
    <3>1. Len(issued) \in 1 .. Len(issued)
      BY <1>1, <1>10
    <3>. QED
      BY <1>1, <3>1, PacketChars, CommandChars DEF S, old
  <2> HIDE DEF p
  <2>4. AtMostOne(toStub', Ends)
    BY <1>1, <1>10, <2>2, <2>3, ConcatParts
  <2>5. Free(toStub', old)
    BY <1>1, <1>10, <2>3, ConcatParts
  <2>6. OneToken'
    BY <1>6, <1>10, <2>1, <2>2, <2>4 DEF OneToken
  <2>. QED
    BY <1>2, <1>3, <1>5, <1>6, <1>7, <1>10, <2>5, <2>6, OrderStays DEF S, old
<1>. QED
  BY <1>4, <1>8, <1>9, <1>10

\* gdb gives up waiting when nothing is on the line.
LEMMA TimeoutOrder ==
  ASSUME OrderInv, RegsInv', GdbTimeout
  PROVE  OrderInv'
<1> DEFINE S == StubChars(Len(issued))
           old == Ends \ {<<"#", Len(issued)>>}
<1>1. /\ inbuf \in Seq(S) /\ reply \in Replies /\ StubTypeOK
      /\ Len(issued) \in Nat
      /\ gdb = [pc |-> gdb.pc, frame |-> gdb.frame, answer |-> gdb.answer]
  BY DEF OrderInv, RegsInv, LineInv
<1>2. /\ UNCHANGED stubVars /\ UNCHANGED <<toGdb, issued, executed>>
      /\ toStub = <<>> /\ toGdb = <<>>
      /\ gdb'.pc = IF gdb.pc = "wait" THEN "asked"
                   ELSE IF gdb.pc = "asked" THEN "ready" ELSE gdb.pc
  BY <1>1 DEF GdbTimeout, lineVars
<1>3. /\ UNCHANGED <<pc, inbuf, reply, retval, connected, do_debug, gdb_serial_debug>>
  BY <1>2 DEF stubVars
<1>4. StubTypeOK'
  BY <1>1, <1>2, <1>3 DEF StubTypeOK
<1>5. /\ Free(toGdb', Acks) /\ Free(toGdb', {Ack}) /\ toGdb' \in Seq(GdbChars)
  BY <1>2 DEF Free
<1>6. /\ Free(toStub', old) /\ AtMostOne(toStub', Ends)
      /\ gdb.pc # "sent" => Free(toStub', Ends)
  <2>1. CASE gdb.pc = "sent" /\ GdbSends(Len(issued))
    <3> DEFINE p == Packet(Len(issued))
    <3>1. toStub' = p
      BY <1>2, <2>1 DEF GdbSends, Packet
    <3>2. AtMostOne(p, Ends) /\ Free(p, old)
      BY <1>1, CommandChars
    <3>. QED
      BY <2>1, <3>1, <3>2
  <2>2. CASE gdb.pc = "wait" /\ toStub' = <<Nack>>
    <3>1. Nack \notin Ends
      BY CharsDiffer
    <3>. QED
      BY <2>2, <3>1 DEF Free, AtMostOne
  <2>3. CASE gdb.pc = "asked" /\ UNCHANGED toStub
    BY <1>2, <2>3 DEF Free, AtMostOne
  <2>. QED
    BY <2>1, <2>2, <2>3 DEF GdbTimeout
<1>7. OneToken'
  BY <1>2, <1>5, <1>6 DEF OneToken
<1>. QED
  BY <1>1, <1>2, <1>3, <1>4, <1>5, <1>6, <1>7, OrderStays

\* A character that is lost, or comes out wrong, is no token more.
LEMMA DamageParts ==
  ASSUME NEW S, NEW T, NEW s \in Seq(S), s # <<>>, NEW r \in Damaged(s),
         Noise \in S, Noise \notin T
  PROVE  /\ r \in Seq(S)
         /\ Free(s, T) => Free(r, T)
         /\ AtMostOne(s, T) => AtMostOne(r, T)
<1> DEFINE t == Tail(s)
<1>1. /\ t \in Seq(S)
      /\ Free(s, T) => Free(t, T)
      /\ AtMostOne(s, T) => AtMostOne(t, T)
  BY TailParts
<1>2. <<Noise>> \in Seq(S) /\ Free(<<Noise>>, T)
  BY DEF Free
<1> HIDE DEF t
<1>3. /\ <<Noise>> \o t \in Seq(S)
      /\ Free(t, T) => Free(<<Noise>> \o t, T)
      /\ AtMostOne(t, T) => AtMostOne(<<Noise>> \o t, T)
  BY <1>1, <1>2, ConcatParts
<1>. QED
  BY <1>1, <1>3 DEF Damaged, t

LEMMA FaultOrder ==
  ASSUME OrderInv, RegsInv', LineFault
  PROVE  OrderInv'
<1> DEFINE S == StubChars(Len(issued))
           old == Ends \ {<<"#", Len(issued)>>}
<1>1. /\ toStub \in Seq(S) /\ inbuf \in Seq(S) /\ toGdb \in Seq(GdbChars)
      /\ reply \in Replies /\ StubTypeOK /\ OneToken /\ Free(toStub, old)
  BY DEF OrderInv, RegsInv, LineInv, Numbered
<1>2. UNCHANGED stubVars /\ UNCHANGED <<gdb, issued, executed>>
  BY DEF LineFault
<1>3. UNCHANGED <<pc, inbuf, reply, retval, connected, do_debug, gdb_serial_debug>>
  BY <1>2 DEF stubVars
<1>4. StubTypeOK'
  BY <1>1, <1>2, <1>3 DEF StubTypeOK
<1>5. /\ Noise \in S /\ Noise \in GdbChars
      /\ Noise \notin Ends /\ Noise \notin old /\ Noise \notin Acks /\ Noise \notin {Ack}
  BY CharsDiffer DEF StubChars, Acks
<1> HIDE DEF S, old
<1>6. CASE toStub # <<>> /\ toStub' \in Damaged(toStub) /\ UNCHANGED toGdb
  <2>1. /\ Free(toStub, Ends) => Free(toStub', Ends)
        /\ AtMostOne(toStub, Ends) => AtMostOne(toStub', Ends)
    BY <1>1, <1>5, <1>6, DamageParts
  <2>2. Free(toStub', old)
    BY <1>1, <1>5, <1>6, DamageParts
  <2>3. OneToken'
    BY <1>1, <1>2, <1>6, <2>1 DEF OneToken
  <2>. QED
    BY <1>1, <1>2, <1>3, <1>4, <1>6, <2>2, <2>3, OrderStays DEF S, old
<1>7. CASE toGdb # <<>> /\ toGdb' \in Damaged(toGdb) /\ UNCHANGED toStub
  <2>1. /\ Free(toGdb, Acks) => Free(toGdb', Acks)
        /\ AtMostOne(toGdb, Acks) => AtMostOne(toGdb', Acks)
        /\ toGdb' \in Seq(GdbChars)
    BY <1>1, <1>5, <1>7, DamageParts
  <2>2. Free(toGdb, {Ack}) => Free(toGdb', {Ack})
    BY <1>1, <1>5, <1>7, DamageParts
  <2>3. OneToken'
    BY <1>1, <1>2, <1>7, <2>1 DEF OneToken
  <2>. QED
    BY <1>1, <1>2, <1>3, <1>4, <1>7, <2>1, <2>2, <2>3, OrderStays DEF S, old
<1>. QED
  BY <1>6, <1>7 DEF LineFault

LEMMA InitOrder == StubInit /\ RegsInv => OrderInv
<1> SUFFICES ASSUME StubInit, RegsInv PROVE OrderInv
  OBVIOUS
<1>1. /\ toStub = <<>> /\ toGdb = <<>> /\ inbuf = <<>> /\ reply = NoReply
      /\ issued = <<>> /\ executed = <<>> /\ gdb.pc = "stopped"
  BY DEF StubInit
<1>2. reply \in Replies
  BY <1>1 DEF NoReply, Replies
<1>3. StubTypeOK
  <2>1. pc = "running" /\ retval = "MORE" /\ {connected, do_debug, gdb_serial_debug} \subseteq BOOLEAN
    BY DEF StubInit
  <2>. QED
    BY <1>1, <2>1, StubAssumption DEF StubTypeOK, StubAssumption
<1>4. OneToken /\ Numbered /\ ExecutedInOrder
  BY <1>1 DEF OneToken, Numbered, ExecutedInOrder, Free, AtMostOne, LastExecuted
<1>. QED
  BY <1>1, <1>2, <1>3, <1>4 DEF OrderInv

LEMMA NextOrder == OrderInv /\ [StubNext]_gdbVars => OrderInv'
<1> SUFFICES ASSUME OrderInv, [StubNext]_gdbVars PROVE OrderInv'
  OBVIOUS
<1>1. RegsInv'
  BY NextRegs DEF OrderInv
<1>2. CASE StubRecv
  BY <1>1, <1>2, ReceiveOrder
<1>3. CASE trap_handler \/ DumpKey \/ gdb_serial_exit
  BY <1>1, <1>3, TrapOrder
<1>4. CASE GdbCommand
  BY <1>1, <1>4, CommandOrder
<1>5. CASE GdbRecv
  BY <1>1, <1>5, AnswerOrder
<1>6. CASE GdbTimeout
  BY <1>1, <1>6, TimeoutOrder
<1>7. CASE LineFault
  BY <1>1, <1>7, FaultOrder
<1>8. CASE UNCHANGED gdbVars
  <2>1. UNCHANGED <<stubVars, toStub, toGdb, gdb, issued, executed>>
    BY <1>8 DEF gdbVars, lineVars
  <2>2. UNCHANGED <<inbuf, reply>> /\ StubTypeOK'
    BY <2>1 DEF stubVars, StubTypeOK, OrderInv
  <2>3. OneToken' /\ Numbered' /\ ExecutedInOrder'
    BY <2>1 DEF OneToken, Numbered, ExecutedInOrder, LastExecuted, OrderInv
  <2>. QED
    BY <1>1, <2>1, <2>2, <2>3 DEF OrderInv
<1>. QED
  BY <1>2, <1>3, <1>4, <1>5, <1>6, <1>7, <1>8 DEF StubNext

-----------------------------------------------------------------------------
(* On a line that loses nothing the conversation is in one of five phases:  *)
(* gdb has gone, the program has the processor, a reply is on its way, it   *)
(* was read, or a command is on its way.                                    *)
Quiet == gdb.frame = NotReading

\* What is left on the line of the packet that gdb is reading.
InTransit(codes, frame, r) ==
  \/ frame = NotReading /\ codes = Packet(r)
  \/ frame = <<>> /\ codes = <<<<"data", r>>, <<"#", r>>>>
  \/ frame = <<<<"data", r>>>> /\ codes = <<<<"#", r>>>>

LastCommand == issued[Len(issued)]

\* The command gdb waits a stop for has let the program go on.
WentOn == issued = <<>> \/ Resumes(LastCommand)

\* The number that the answer to the last command has.
Due == IF WentOn THEN 0 ELSE Len(issued)

ProgramPhase ==
  /\ pc \in {"running", "dumping", "rebooted"} /\ Quiet /\ toStub = <<>>
  /\ \/ toGdb = <<>> /\ gdb.pc = "stopped" /\ WentOn
     \/ /\ toGdb = <<Ack>> /\ gdb.pc = "sent" /\ issued # <<>>
        /\ WentOn \/ (pc = "rebooted" /\ LastCommand = "k")

\* A reply that ends the conversation makes gdb go.
ReplyPhase ==
  /\ pc = "acked" /\ toStub = <<>> /\ reply.to = Due
  /\ \/ retval = "MORE"
     \/ retval = "EXIT" /\ reply.what = "W"
     \/ retval = "DETACH" /\ issued # <<>> /\ LastCommand = "D"
  /\ \/ /\ gdb.pc = "sent" /\ Quiet /\ toGdb = <<Ack>> \o Packet(reply)
        /\ issued # <<>> /\ LastCommand # "k"
     \/ /\ gdb.pc = IF WentOn THEN "stopped" ELSE "wait"
        /\ InTransit(toGdb, gdb.frame, reply)

AnsweredPhase ==
  /\ gdb.pc = "ready" /\ Quiet /\ toGdb = <<>> /\ retval = "MORE"
  /\ gdb.answer.to = Due
  /\ \/ pc = "acked" /\ toStub = <<Ack>>
     \/ pc = "start" /\ toStub = <<>>

CommandPhase ==
  /\ gdb.pc = "sent" /\ Quiet /\ toGdb = <<>> /\ retval = "MORE" /\ issued # <<>>
  /\ LET n == Len(issued) IN
     \/ pc = "acked" /\ toStub = <<Ack>> \o Packet(n)
     \/ pc = "start" /\ toStub = Packet(n)
     \/ pc = "data" /\ inbuf = <<>> /\ toStub = <<<<"data", n>>, <<"#", n>>>>
     \/ pc = "data" /\ inbuf = <<<<"data", n>>>> /\ toStub = <<<<"#", n>>>>

OnceEach(n) == Len(executed) = n /\ \A i \in DOMAIN executed : executed[i] = i

Phases ==
  \/ /\ gdb.pc = "gone" \/ ProgramPhase \/ ReplyPhase \/ AnsweredPhase
     /\ OnceEach(Len(issued))
  \/ CommandPhase /\ OnceEach(Len(issued) - 1)

TalkInv == OrderInv /\ faults \in Nat /\ (faults = 0 => Phases)

LEMMA TupleParts ==
  ASSUME NEW a, NEW b, NEW c
  PROVE  /\ <<a, b, c>> # <<>> /\ Head(<<a, b, c>>) = a /\ Tail(<<a, b, c>>) = <<b, c>>
         /\ <<b, c>> # <<>> /\ Head(<<b, c>>) = b /\ Tail(<<b, c>>) = <<c>>
         /\ <<c>> # <<>> /\ Head(<<c>>) = c /\ Tail(<<c>>) = <<>>
<1> DEFINE S == {a, b, c}
<1>1. <<a, b, c>> \in Seq(S) /\ <<b, c>> \in Seq(S) /\ <<c>> \in Seq(S)
  OBVIOUS
<1>2. Tail(<<a, b, c>>) = <<b, c>>
  BY <1>1
<1>3. Tail(<<b, c>>) = <<c>>
  BY <1>1
<1>4. Tail(<<c>>) = <<>>
  BY <1>1
<1>. QED
  BY <1>2, <1>3, <1>4

LEMMA PrefixedParts ==
  ASSUME NEW S, NEW c \in S, NEW s \in Seq(S)
  PROVE  /\ <<c>> \o s # <<>> /\ Head(<<c>> \o s) = c
         /\ Tail(<<c>> \o s) = s
         /\ Len(<<c>> \o s) = Len(s) + 1
         /\ \A i \in 1 .. Len(s) : (<<c>> \o s)[i + 1] = s[i]
<1> DEFINE t == <<c>> \o s
<1>1. /\ t \in Seq(S) /\ Len(t) = Len(s) + 1 /\ t[1] = c
      /\ \A i \in 1 .. Len(s) : t[i + 1] = s[i]
  OBVIOUS
<1> HIDE DEF t
<1>2. t # <<>> /\ Head(t) = c /\ Tail(t) \in Seq(S) /\ Len(Tail(t)) = Len(s)
  BY <1>1
<1>3. \A i \in 1 .. Len(s) : Tail(t)[i] = s[i]
  BY <1>1, <1>2
<1>4. Tail(t) = s
  BY <1>2, <1>3
<1>. QED
  BY <1>1, <1>2, <1>4 DEF t

\* The packets and what is left of them, character by character.
LEMMA PacketParts ==
  ASSUME NEW x
  PROVE  /\ <<Ack>> \o Packet(x) # <<>> /\ Head(<<Ack>> \o Packet(x)) = Ack
         /\ Tail(<<Ack>> \o Packet(x)) = Packet(x)
         /\ Packet(x) # <<>> /\ Head(Packet(x)) = <<"$">>
         /\ Tail(Packet(x)) = <<<<"data", x>>, <<"#", x>>>>
         /\ <<<<"data", x>>, <<"#", x>>>> # <<>>
         /\ Head(<<<<"data", x>>, <<"#", x>>>>) = <<"data", x>>
         /\ Tail(<<<<"data", x>>, <<"#", x>>>>) = <<<<"#", x>>>>
         /\ <<<<"#", x>>>> # <<>> /\ Head(<<<<"#", x>>>>) = <<"#", x>>
         /\ Tail(<<<<"#", x>>>>) = <<>>
         /\ <<Ack>> # <<>> /\ Head(<<Ack>>) = Ack /\ Tail(<<Ack>>) = <<>>
<1> DEFINE S == {<<"$">>, Ack, <<"data", x>>, <<"#", x>>}
           p == Packet(x)
<1>1. p = <<<<"$">>, <<"data", x>>, <<"#", x>>>> /\ p \in Seq(S)
  BY DEF Packet
<1>2. p # <<>> /\ Head(p) = <<"$">> /\ Tail(p) = <<<<"data", x>>, <<"#", x>>>>
  BY <1>1, TupleParts
<1> HIDE DEF p
<1>3. /\ <<Ack>> \o p # <<>> /\ Head(<<Ack>> \o p) = Ack
      /\ Tail(<<Ack>> \o p) = p
  <2>1. Ack \in S
    OBVIOUS
  <2> HIDE DEF S
  <2>. QED
    BY <1>1, <2>1, PrefixedParts
<1>. QED
  BY <1>2, <1>3, TupleParts DEF p

LEMMA CharParts ==
  ASSUME NEW x
  PROVE  /\ Ack[1] = "+" /\ <<"$">>[1] = "$" /\ <<"data", x>>[1] = "data"
         /\ <<"#", x>>[1] = "#" /\ <<"#", x>>[2] = x
         /\ Ack # <<"$">> /\ NotReading # <<>> /\ NotReading # <<<<"data", x>>>>
         /\ Append(<<>>, <<"data", x>>) = <<<<"data", x>>>>
         /\ Len(<<<<"data", x>>>>) = 1
         /\ Good(<<<<"data", x>>>>, <<"#", x>>)
BY DEF Ack, NotReading, Good

\* A step that gives no command and executes none.
LEMMA PhaseStays ==
  ASSUME UNCHANGED <<issued, executed>>, OnceEach(Len(issued)),
         (gdb.pc = "gone")' \/ ProgramPhase' \/ ReplyPhase' \/ AnsweredPhase'
  PROVE  Phases'
BY DEF Phases, OnceEach

LEMMA TrapPhase ==
  ASSUME OrderInv, Phases, trap_handler \/ DumpKey \/ gdb_serial_exit
  PROVE  Phases'
<1>1. UNCHANGED <<toStub, gdb, issued, executed>> /\ pc \in {"running", "dumping"}
  BY DEF trap_handler, DumpKey, gdb_serial_exit
<1>2. \/ /\ UNCHANGED toGdb /\ pc' \in {"running", "dumping", "rebooted"}
      \/ putpacket(<<>>, "S", 0) /\ retval' = "MORE"
      \/ putpacket(<<>>, "W", 0) /\ retval' = "EXIT"
  BY DEF trap_handler, DumpKey, gdb_serial_exit, DumpToDebugger, debugger
<1>3. (gdb.pc = "gone" \/ ProgramPhase) /\ OnceEach(Len(issued))
  BY <1>1 DEF Phases, ReplyPhase, AnsweredPhase, CommandPhase
<1>4. CASE gdb.pc = "gone"
  BY <1>1, <1>3, <1>4, PhaseStays
<1>5. CASE ProgramPhase /\ UNCHANGED toGdb /\ pc' \in {"running", "dumping", "rebooted"}
  <2>1. ProgramPhase'
    BY <1>1, <1>5 DEF ProgramPhase, Quiet, WentOn, LastCommand
  <2>. QED
    BY <1>1, <1>3, <2>1, PhaseStays
<1>6. ASSUME ProgramPhase, NEW what \in {"S", "W"}, putpacket(<<>>, what, 0),
             retval' = IF what = "S" THEN "MORE" ELSE "EXIT"
      PROVE  Phases'
  <2>1. /\ toGdb' = toGdb \o <<>> \o Packet(reply') /\ pc' = "acked"
        /\ reply'.to = 0 /\ reply'.what = what
    BY <1>6 DEF putpacket
  <2>2. WentOn /\ Quiet /\ toStub = <<>>
    BY <1>1, <1>6 DEF ProgramPhase
  <2>3. WentOn' /\ Quiet' /\ toStub' = <<>> /\ Due' = 0
    BY <1>1, <2>2 DEF WentOn, Quiet, Due, LastCommand
  <2>4. toGdb' = toGdb \o Packet(reply')
    <3>1. toGdb \o <<>> = toGdb
      BY DEF OrderInv
    <3>. QED
      BY <2>1, <3>1
  <2>5. CASE toGdb = <<>> /\ gdb.pc = "stopped"
    <3>1. toGdb' = Packet(reply')
      BY <2>4, <2>5 DEF Packet
    <3>2. ReplyPhase'
      BY <1>1, <1>6, <2>1, <2>3, <2>5, <3>1 DEF ReplyPhase, InTransit, Quiet
    <3>. QED
      BY <1>1, <1>3, <3>2, PhaseStays
  <2>6. CASE toGdb = <<Ack>> /\ gdb.pc = "sent" /\ issued # <<>>
    <3>1. LastCommand # "k"
      BY <2>2, <2>6 DEF WentOn, Resumes
    <3>2. issued' # <<>> /\ LastCommand' # "k"
      BY <1>1, <2>6, <3>1 DEF LastCommand
    <3>3. ReplyPhase'
      BY <1>1, <1>6, <2>1, <2>3, <2>4, <2>6, <3>2 DEF ReplyPhase, Quiet
    <3>. QED
      BY <1>1, <1>3, <3>3, PhaseStays
  <2>. QED
    BY <1>6, <2>5, <2>6 DEF ProgramPhase
<1>. QED
  BY <1>2, <1>3, <1>4, <1>5, <1>6

LEMMA CommandGiven ==
  ASSUME OrderInv, Phases, GdbCommand
  PROVE  Phases'
<1> DEFINE n == Len(issued)
<1>1. /\ UNCHANGED <<toGdb, executed, pc, retval>>
      /\ gdb.pc = "ready" /\ gdb' = [gdb EXCEPT !.pc = "sent"]
      /\ \E command \in Commands : issued' = Append(issued, command)
      /\ toStub' = toStub \o Packet(Len(issued'))
  BY DEF GdbCommand, GdbSends, stubVars
<1>2. AnsweredPhase /\ OnceEach(n)
  BY <1>1 DEF Phases, ProgramPhase, ReplyPhase, CommandPhase
<1>3. /\ issued \in Seq(Commands) /\ n \in Nat
      /\ gdb = [pc |-> gdb.pc, frame |-> gdb.frame, answer |-> gdb.answer]
  BY DEF OrderInv, RegsInv, LineInv
<1>4. Len(issued') = n + 1 /\ issued' # <<>> /\ n = Len(issued') - 1
  <2>1. PICK command \in Commands : issued' = Append(issued, command)
    BY <1>1
  <2>2. issued' \in Seq(Commands) /\ Len(issued') = n + 1
    BY <1>3, <2>1
  <2>. QED
    BY <1>3, <2>2
<1> HIDE DEF n
<1>5. gdb'.pc = "sent" /\ gdb'.frame = gdb.frame
  BY <1>1, <1>3
<1>6. Quiet' /\ toGdb' = <<>> /\ retval' = "MORE"
  BY <1>1, <1>2, <1>5 DEF AnsweredPhase, Quiet
<1>7. \/ pc' = "acked" /\ toStub' = <<Ack>> \o Packet(Len(issued'))
      \/ pc' = "start" /\ toStub' = Packet(Len(issued'))
  <2>1. CASE pc = "acked" /\ toStub = <<Ack>>
    BY <1>1, <2>1
  <2>2. CASE pc = "start" /\ toStub = <<>>
    BY <1>1, <2>2 DEF Packet
  <2>. QED
    BY <1>2, <2>1, <2>2 DEF AnsweredPhase
<1>8. CommandPhase'
  BY <1>4, <1>5, <1>6, <1>7 DEF CommandPhase
<1>9. OnceEach(Len(issued) - 1)'
  BY <1>1, <1>2, <1>4 DEF OnceEach
<1>. QED
  BY <1>8, <1>9 DEF Phases

LEMMA ReceivePhase ==
  ASSUME OrderInv, Phases, StubRecv
  PROVE  Phases'
<1> DEFINE c == Head(toStub)
           tail == Tail(toStub)
           n == Len(issued)
<1>1. /\ UNCHANGED <<issued, gdb>> /\ toStub # <<>> /\ toStub' = tail
  BY DEF StubRecv, GetStart, GetData, putfrags
<1>2. /\ toStub \in Seq(StubChars(n)) /\ n \in Nat
      /\ OneToken /\ executed \in Seq(1 .. n) /\ BUFMAX \in Nat /\ BUFMAX > 1
  BY StubAssumption DEF OrderInv, RegsInv, LineInv, StubAssumption
<1>3. CASE gdb.pc = "gone" /\ OnceEach(n)
  <2>1. Free(toStub, Ends)
    BY <1>2, <1>3 DEF OneToken
  <2>2. c \notin Ends /\ c \in StubChars(n)
    BY <1>1, <1>2, <2>1, TailParts
  <2>3. c[1] # "#"
    BY <1>2, <2>2, EndIsEnd
  <2>4. UNCHANGED executed
    BY <2>3 DEF StubRecv, GetStart, GetData, putfrags
  <2>. QED
    BY <1>1, <1>3, <2>4, PhaseStays
<1>4. CASE AnsweredPhase /\ OnceEach(n)
  <2>1. pc = "acked" /\ toStub = <<Ack>> /\ retval = "MORE"
    BY <1>1, <1>4 DEF AnsweredPhase
  <2>2. c = Ack /\ tail = <<>>
    BY <2>1, TupleParts
  <2>3. pc' = "start" /\ UNCHANGED <<toGdb, executed, retval>>
    BY <2>1, <2>2 DEF StubRecv, putfrags
  <2>4. toStub' = <<>>
    BY <1>1, <2>2
  <2>5. AnsweredPhase'
    BY <1>1, <1>4, <2>3, <2>4 DEF AnsweredPhase, Quiet, Due, WentOn, LastCommand
  <2>. QED
    BY <1>1, <1>4, <2>3, <2>5, PhaseStays
<1>5. CASE CommandPhase /\ OnceEach(n - 1)
  <2>1. gdb.pc = "sent" /\ Quiet /\ toGdb = <<>> /\ retval = "MORE" /\ issued # <<>>
    BY <1>5 DEF CommandPhase
  <2>2. ASSUME UNCHANGED <<toGdb, executed, retval>>,
               \/ pc' = "start" /\ toStub' = Packet(n)
               \/ pc' = "data" /\ inbuf' = <<>> /\ toStub' = <<<<"data", n>>, <<"#", n>>>>
               \/ pc' = "data" /\ inbuf' = <<<<"data", n>>>> /\ toStub' = <<<<"#", n>>>>
        PROVE  Phases'
    <3>1. CommandPhase'
      BY <1>1, <2>1, <2>2 DEF CommandPhase, Quiet
    <3>2. OnceEach(Len(issued) - 1)'
      BY <1>1, <1>5, <2>2 DEF OnceEach
    <3>. QED
      BY <3>1, <3>2 DEF Phases
  <2>3. CASE pc = "acked" /\ toStub = <<Ack>> \o Packet(n)
    <3>1. c = Ack /\ tail = Packet(n)
      BY <2>3, PacketParts
    <3>2. pc' = "start" /\ UNCHANGED <<toGdb, executed, retval>>
      BY <2>1, <2>3, <3>1 DEF StubRecv, putfrags
    <3>. QED
      BY <1>1, <2>2, <3>1, <3>2
  <2>4. CASE pc = "start" /\ toStub = Packet(n)
    <3>1. c = <<"$">> /\ tail = <<<<"data", n>>, <<"#", n>>>>
      BY <2>4, PacketParts
    <3>2. pc' = "data" /\ inbuf' = <<>> /\ UNCHANGED <<toGdb, executed, retval>>
      BY <2>4, <3>1 DEF StubRecv, GetStart
    <3>. QED
      BY <1>1, <2>2, <3>1, <3>2
  <2>5. CASE pc = "data" /\ inbuf = <<>> /\ toStub = <<<<"data", n>>, <<"#", n>>>>
    <3>1. c = <<"data", n>> /\ tail = <<<<"#", n>>>>
      BY <2>5, PacketParts
    <3>2. c[1] # "#" /\ Append(inbuf, c) = <<<<"data", n>>>> /\ Len(inbuf) = 0
      BY <2>5, <3>1, CharParts
    <3>3. /\ inbuf' = IF Len(inbuf) + 1 < BUFMAX THEN Append(inbuf, c) ELSE <<>>
          /\ pc' = IF inbuf' = <<>> THEN "start" ELSE pc
          /\ UNCHANGED <<toGdb, executed, retval>>
      BY <2>5, <3>2 DEF StubRecv, GetData
    <3>4. inbuf' = <<<<"data", n>>>> /\ inbuf' # <<>>
      <4>1. Len(inbuf) + 1 < BUFMAX
        BY <1>2, <3>2
      <4>2. <<<<"data", n>>>> # <<>>
        BY TupleParts
      <4>. QED
        BY <3>2, <3>3, <4>1, <4>2, Zenon
    <3>. QED
      BY <1>1, <2>2, <2>5, <3>1, <3>3, <3>4
  <2>6. CASE pc = "data" /\ inbuf = <<<<"data", n>>>> /\ toStub = <<<<"#", n>>>>
    <3>1. c = <<"#", n>> /\ tail = <<>>
      BY <2>6, PacketParts
    <3>2. c[1] = "#" /\ Good(inbuf, c) /\ c[2] = n
      BY <2>6, <3>1, CharParts
    <3>3. Execute(n)
      <4>1. GetData(c, tail)
        BY <2>6 DEF StubRecv
      <4>. QED
        BY <3>2, <4>1 DEF GetData
    <3>4. executed' = Append(executed, n) /\ Converses(n)
      BY <1>2, <3>3, ExecuteConverses
    <3>5. OnceEach(Len(issued))'
      <4> DEFINE m == Len(executed)
      <4>1. m = n - 1 /\ m \in Nat /\ \A i \in 1 .. m : executed[i] = i
        BY <1>2, <1>5 DEF OnceEach
      <4>2. /\ Len(executed') = m + 1 /\ DOMAIN executed' = 1 .. m + 1
            /\ executed'[m + 1] = n /\ \A i \in 1 .. m : executed'[i] = executed[i]
        BY <1>2, <3>4
      <4>3. \A i \in 1 .. m + 1 : executed'[i] = i
        <5>1. TAKE i \in 1 .. m + 1
        <5>2. i \in 1 .. m \/ i = m + 1
          BY <4>1
        <5>. QED
          BY <1>2, <4>1, <4>2, <5>2
      <4>. QED
        BY <1>1, <1>2, <4>1, <4>2, <4>3 DEF OnceEach
    <3>6. UNCHANGED <<WentOn, LastCommand>> /\ Quiet' /\ issued' # <<>>
          /\ gdb'.pc = "sent" /\ toStub' = <<>>
      BY <1>1, <2>1, <3>1 DEF WentOn, LastCommand, Quiet
    <3>7. LastCommand = issued[n] /\ (WentOn <=> Resumes(issued[n]))
      BY <2>1 DEF LastCommand, WentOn
    <3>8. CASE /\ pc' = "acked" /\ reply' \in Replies /\ reply'.to = n
               /\ reply'.what \notin {"none", "W"}
               /\ toGdb' = toGdb \o <<Ack>> \o Packet(reply')
               /\ issued[n] # "k" /\ ~ Resumes(issued[n])
               /\ retval' = IF issued[n] = "D" THEN "DETACH" ELSE retval
      <4>1. toGdb' = <<Ack>> \o Packet(reply')
        <5>1. toGdb \o <<Ack>> = <<Ack>>
          BY <2>1
        <5>. QED
          BY <3>8, <5>1
      <4>2. reply'.to = Due'
        BY <1>1, <3>6, <3>7, <3>8 DEF Due
      <4>3. ReplyPhase'
        BY <2>1, <3>6, <3>7, <3>8, <4>1, <4>2 DEF ReplyPhase
      <4>. QED
        BY <3>5, <4>3 DEF Phases
    <3>9. CASE /\ reply' = NoReply /\ toGdb' = Append(toGdb, Ack)
               /\ \/ pc' = "running" /\ Resumes(issued[n])
                  \/ pc' = "rebooted" /\ issued[n] = "k"
      <4>1. toGdb' = <<Ack>>
        BY <2>1, <3>9
      <4>2. ProgramPhase'
        BY <3>6, <3>7, <3>9, <4>1 DEF ProgramPhase
      <4>. QED
        BY <3>5, <4>2 DEF Phases
    <3>. QED
      BY <3>4, <3>8, <3>9 DEF Converses
  <2>. QED
    BY <1>5, <2>3, <2>4, <2>5, <2>6 DEF CommandPhase
<1>. QED
  BY <1>1, <1>3, <1>4, <1>5 DEF Phases, ProgramPhase, ReplyPhase

\* gdb takes the last + of its command, or a character of the reply to it.
LEMMA GdbPhase ==
  ASSUME OrderInv, Phases, GdbRecv
  PROVE  Phases'
<1> DEFINE c == Head(toGdb)
           n == Len(issued)
<1>1. /\ UNCHANGED <<issued, executed, pc, retval, reply>>
      /\ toGdb # <<>> /\ gdb.pc \in {"sent", "wait", "asked", "stopped"}
      /\ toGdb' = Tail(toGdb)
  BY DEF GdbRecv, stubVars
<1>2. /\ gdb = [pc |-> gdb.pc, frame |-> gdb.frame, answer |-> gdb.answer]
      /\ issued \in Seq(Commands) /\ n \in Nat
  BY DEF OrderInv, RegsInv, LineInv
<1>3. (ProgramPhase \/ ReplyPhase) /\ OnceEach(n)
  BY <1>1 DEF Phases, AnsweredPhase, CommandPhase
<1>4. UNCHANGED <<WentOn, LastCommand, Due>> /\ (issued' = <<>> <=> issued = <<>>)
  BY <1>1 DEF WentOn, LastCommand, Due
<1>5. Last(issued) = LastCommand /\ (issued # <<>> => Last(<<"">> \o issued) = LastCommand)
  <2>1. Last(issued) = LastCommand
    BY DEF Last, LastCommand
  <2>2. ASSUME issued # <<>> PROVE Last(<<"">> \o issued) = LastCommand
    <3> DEFINE S == Commands \cup {""}
    <3>1. Commands \subseteq S
      OBVIOUS
    <3>4. "" \in S
      OBVIOUS
    <3> HIDE DEF S
    <3>2. issued \in Seq(S) /\ n \in 1 .. n
      <4>1. issued \in Seq(S)
        BY <1>2, <3>1
      <4>2. n # 0
        BY <1>2, <2>2
      <4>. QED
        BY <1>2, <4>1, <4>2
    <3>3. /\ Len(<<"">> \o issued) = n + 1
          /\ (<<"">> \o issued)[n + 1] = issued[n]
      BY <3>2, <3>4, PrefixedParts
    <3>. QED
      BY <3>3 DEF Last, LastCommand
  <2>. QED
    BY <2>1, <2>2
<1>6. ASSUME Quiet, gdb.pc = "sent", c = Ack
      PROVE  /\ toStub' = toStub /\ Quiet'
             /\ Resumes(LastCommand) => gdb'.pc = "stopped"
             /\ LastCommand = "k" => gdb'.pc = "gone"
             /\ ~ Resumes(LastCommand) /\ LastCommand # "k" => gdb'.pc = "wait"
  <2>1. c[1] # "$" /\ c # Nack
    BY <1>6, CharParts, CharsDiffer
  <2>2. /\ gdb' = [gdb EXCEPT !.pc = CASE Resumes(Last(issued)) -> "stopped"
                                       [] Last(issued) = "k" -> "gone"
                                       [] OTHER -> "wait"]
        /\ UNCHANGED toStub
    BY <1>6, <2>1 DEF GdbRecv, Quiet
  <2>3. /\ gdb'.pc = CASE Resumes(Last(issued)) -> "stopped"
                       [] Last(issued) = "k" -> "gone"
                       [] OTHER -> "wait"
        /\ gdb'.frame = gdb.frame
    BY <1>2, <2>2
  <2>4. LastCommand = "k" => ~ Resumes(LastCommand)
    BY DEF Resumes
  <2>. QED
    BY <1>5, <1>6, <2>2, <2>3, <2>4 DEF Quiet
<1>7. CASE ProgramPhase
  <2>1. /\ Quiet /\ toStub = <<>> /\ toGdb = <<Ack>> /\ gdb.pc = "sent" /\ issued # <<>>
        /\ pc \in {"running", "dumping", "rebooted"}
        /\ WentOn \/ LastCommand = "k"
    BY <1>1, <1>7 DEF ProgramPhase
  <2>2. c = Ack /\ toGdb' = <<>>
    BY <1>1, <2>1, TupleParts
  <2>3. CASE WentOn
    <3>1. Resumes(LastCommand)
      BY <2>1, <2>3 DEF WentOn
    <3>2. ProgramPhase'
      BY <1>1, <1>4, <1>6, <2>1, <2>2, <2>3, <3>1 DEF ProgramPhase
    <3>. QED
      BY <1>1, <1>3, <3>2, PhaseStays
  <2>4. CASE LastCommand = "k"
    BY <1>1, <1>3, <1>6, <2>1, <2>2, <2>4, PhaseStays
  <2>. QED
    BY <2>1, <2>3, <2>4
<1>8. CASE ReplyPhase
  <2> DEFINE r == reply
  <2>1. /\ pc = "acked" /\ toStub = <<>> /\ reply.to = Due
        /\ \/ retval = "MORE"
           \/ retval = "EXIT" /\ reply.what = "W"
           \/ retval = "DETACH" /\ issued # <<>> /\ LastCommand = "D"
    BY <1>8 DEF ReplyPhase
  <2>2. ASSUME toStub' = <<>>, gdb'.pc = IF WentOn THEN "stopped" ELSE "wait",
               InTransit(toGdb', gdb'.frame, reply)
        PROVE  Phases'
    <3>1. ReplyPhase'
      BY <1>1, <1>4, <2>1, <2>2 DEF ReplyPhase
    <3>. QED
      BY <1>1, <1>3, <3>1, PhaseStays
  <2>3. CASE /\ gdb.pc = "sent" /\ Quiet /\ toGdb = <<Ack>> \o Packet(reply)
             /\ issued # <<>> /\ LastCommand # "k"
    <3>1. c = Ack /\ toGdb' = Packet(reply)
      BY <1>1, <2>3, PacketParts
    <3>2. toStub' = <<>> /\ Quiet' /\ gdb'.pc = IF WentOn THEN "stopped" ELSE "wait"
      BY <1>6, <2>1, <2>3, <3>1 DEF WentOn
    <3>3. InTransit(toGdb', gdb'.frame, reply)
      BY <3>1, <3>2 DEF InTransit, Quiet
    <3>. QED
      BY <2>2, <3>2, <3>3
  <2>4. CASE /\ gdb.pc = IF WentOn THEN "stopped" ELSE "wait"
             /\ InTransit(toGdb, gdb.frame, reply)
    <3>1. gdb.pc # "sent"
      BY <2>4
    <3>2. ASSUME NEW frame, gdb' = [gdb EXCEPT !.frame = frame], UNCHANGED toStub
          PROVE  gdb'.frame = frame /\ gdb'.pc = gdb.pc /\ toStub' = <<>>
      BY <1>2, <2>1, <3>2
    <3>3. CASE gdb.frame = NotReading /\ toGdb = Packet(r)
      <4>1. c = <<"$">> /\ toGdb' = <<<<"data", r>>, <<"#", r>>>>
        BY <1>1, <3>3, PacketParts
      <4>2. c[1] = "$" /\ c # Ack
        BY <4>1, CharParts
      <4>3. gdb' = [gdb EXCEPT !.frame = <<>>] /\ UNCHANGED toStub
        BY <3>1, <3>3, <4>2 DEF GdbRecv
      <4>. QED
        BY <2>2, <2>4, <3>2, <4>1, <4>3 DEF InTransit
    <3>4. CASE gdb.frame = <<>> /\ toGdb = <<<<"data", r>>, <<"#", r>>>>
      <4>1. c = <<"data", r>> /\ toGdb' = <<<<"#", r>>>>
        BY <1>1, <3>4, PacketParts
      <4>2. c[1] # "#" /\ c[1] # "$" /\ gdb.frame # NotReading
        <5>1. NotReading # <<>>
          BY CharParts
        <5>2. <<"data", r>>[1] = "data"
          BY CharParts
        <5>. QED
          BY <3>4, <4>1, <5>1, <5>2
      <4>3. gdb' = [gdb EXCEPT !.frame = Append(gdb.frame, c)] /\ UNCHANGED toStub
        BY <4>2 DEF GdbRecv
      <4>4. Append(gdb.frame, c) = <<<<"data", r>>>>
        BY <3>4, <4>1, CharParts
      <4>. QED
        BY <2>2, <2>4, <3>2, <4>1, <4>3, <4>4 DEF InTransit
    <3>5. CASE gdb.frame = <<<<"data", r>>>> /\ toGdb = <<<<"#", r>>>>
      <4>1. c = <<"#", r>> /\ toGdb' = <<>>
        BY <1>1, <3>5, PacketParts
      <4>2. c[1] = "#" /\ c[2] = r /\ gdb.frame # NotReading /\ Good(gdb.frame, c)
        BY <3>5, <4>1, CharParts
      <4>3. GdbFrame(c)
        BY <4>2 DEF GdbRecv
      <4>4. /\ toStub' = Append(toStub, Ack)
            /\ gdb' = [pc |-> IF r.what = "W" \/ Last(<<"">> \o issued) = "D"
                              THEN "gone" ELSE "ready",
                       frame |-> NotReading, answer |-> r]
        BY <3>1, <4>2, <4>3 DEF GdbFrame
      <4>5. CASE r.what = "W" \/ Last(<<"">> \o issued) = "D"
        <5>1. gdb'.pc = "gone"
          BY <4>4, <4>5
        <5>. QED
          BY <1>1, <1>3, <5>1, PhaseStays
      <4>6. CASE ~ (r.what = "W" \/ Last(<<"">> \o issued) = "D")
        <5>1. gdb'.pc = "ready" /\ gdb'.frame = NotReading /\ gdb'.answer = r
          BY <4>4, <4>6
        <5>2. retval = "MORE"
          BY <1>5, <2>1, <4>6
        <5>3. toStub' = <<Ack>>
          <6> DEFINE a == Ack
          <6> HIDE DEF a
          <6>1. Append(<<>>, a) = <<a>>
            OBVIOUS
          <6>. QED
            BY <2>1, <4>4, <6>1 DEF a
        <5>4. AnsweredPhase'
          BY <1>1, <1>4, <2>1, <4>1, <5>1, <5>2, <5>3 DEF AnsweredPhase, Quiet
        <5>. QED
          BY <1>1, <1>3, <5>4, PhaseStays
      <4>. QED
        BY <4>5, <4>6
    <3>. QED
      BY <2>4, <3>3, <3>4, <3>5 DEF InTransit
  <2>. QED
    BY <1>8, <2>3, <2>4 DEF ReplyPhase
<1>. QED
  BY <1>3, <1>7, <1>8

\* gdb has no reason to give up waiting.
LEMMA TimeoutPhase ==
  ASSUME Phases, GdbTimeout
  PROVE  Phases'
<1>1. /\ toStub = <<>> /\ toGdb = <<>> /\ pc # "running"
      /\ gdb.pc \in {"sent", "wait", "asked"}
  BY DEF GdbTimeout, lineVars
<1>2. ~ ProgramPhase /\ ~ AnsweredPhase
  BY <1>1, TupleParts DEF ProgramPhase, AnsweredPhase
<1>3. ~ ReplyPhase
  BY <1>1, PacketParts DEF ReplyPhase, InTransit
<1>4. ~ CommandPhase
  BY <1>1, PacketParts DEF CommandPhase
<1>. QED
  BY <1>1, <1>2, <1>3, <1>4 DEF Phases

LEMMA NextTalk == TalkInv /\ [StubNext]_gdbVars => TalkInv'
<1> SUFFICES ASSUME TalkInv, [StubNext]_gdbVars PROVE TalkInv'
  OBVIOUS
<1>1. OrderInv /\ OrderInv' /\ faults \in Nat
  BY NextOrder DEF TalkInv
<1>2. CASE LineFault
  <2>1. faults' = faults + 1
    BY <1>2 DEF LineFault
  <2>. QED
    BY <1>1, <2>1 DEF TalkInv
<1>3. ASSUME faults' = faults, Phases => Phases' PROVE TalkInv'
  BY <1>1, <1>3 DEF TalkInv
<1>4. CASE StubRecv
  BY <1>1, <1>3, <1>4, ReceivePhase DEF StubRecv
<1>5. CASE trap_handler \/ DumpKey \/ gdb_serial_exit
  <2>1. faults' = faults
    BY <1>5 DEF trap_handler, DumpKey, gdb_serial_exit
  <2>. QED
    BY <1>1, <1>3, <1>5, <2>1, TrapPhase
<1>6. CASE GdbCommand
  BY <1>1, <1>3, <1>6, CommandGiven DEF GdbCommand
<1>7. CASE GdbRecv
  BY <1>1, <1>3, <1>7, GdbPhase DEF GdbRecv
<1>8. CASE GdbTimeout
  BY <1>1, <1>3, <1>8, TimeoutPhase DEF GdbTimeout
<1>9. CASE UNCHANGED gdbVars
  <2>1. UNCHANGED <<pc, inbuf, reply, retval, toStub, toGdb, gdb, issued, executed, faults>>
    BY <1>9 DEF gdbVars, stubVars, lineVars
  <2>2. UNCHANGED <<ProgramPhase, ReplyPhase, AnsweredPhase, CommandPhase>>
    <3>1. UNCHANGED <<Quiet, WentOn, LastCommand, Due>>
      BY <2>1 DEF Quiet, WentOn, LastCommand, Due
    <3>. QED
      BY <2>1, <3>1 DEF ProgramPhase, ReplyPhase, AnsweredPhase, CommandPhase
  <2>. QED
    BY <1>3, <2>1, <2>2 DEF Phases, OnceEach
<1>. QED
  BY <1>2, <1>4, <1>5, <1>6, <1>7, <1>8, <1>9 DEF StubNext

LEMMA InitTalk == StubInit /\ RegsInv => TalkInv
<1> SUFFICES ASSUME StubInit, RegsInv PROVE TalkInv
  OBVIOUS
<1>1. OrderInv
  BY InitOrder
<1>2. /\ pc = "running" /\ toStub = <<>> /\ toGdb = <<>> /\ faults = 0
      /\ gdb = [pc |-> "stopped", frame |-> NotReading, answer |-> NoReply]
      /\ issued = <<>> /\ executed = <<>>
  BY DEF StubInit
<1>3. ProgramPhase
  BY <1>2 DEF ProgramPhase, Quiet, WentOn
<1>4. OnceEach(Len(issued))
  BY <1>2 DEF OnceEach
<1>. QED
  BY <1>1, <1>2, <1>3, <1>4 DEF TalkInv, Phases

\* However many characters are lost or garbled, the stub executes the commands
\* in the order gdb gave them, skips none, and executes none again after a
\* later one; and as long as nothing is lost, it executes each once, gdb gets
\* the answer to its own command, and the stub and gdb do not wait for each
\* other (gdb_serial.c:80-130 and 195-225).
THEOREM TheConversationIsOrderly == StubSpec => []ConversationIsOrderly
<1>1. StubInit => RegsInv
  BY InitRegs
<1>2. TalkInv => ConversationIsOrderly
  <2> SUFFICES ASSUME TalkInv PROVE ConversationIsOrderly
    OBVIOUS
  <2>1. StubTypeOK /\ ExecutedInOrder
    BY DEF TalkInv, OrderInv
  <2>2. OnceWithItsOwnAnswer
    <3>1. SUFFICES ASSUME faults = 0 PROVE OnceWithItsOwnAnswer
      BY DEF OnceWithItsOwnAnswer
    <3>2. Phases
      BY <3>1 DEF TalkInv
    <3>3. \A i \in DOMAIN executed : executed[i] = i
      BY <3>2 DEF Phases, OnceEach
    <3>4. ASSUME gdb.pc = "ready", issued # <<>>
          PROVE  /\ gdb.answer.to = IF Resumes(Last(issued)) THEN 0 ELSE Len(issued)
                 /\ Len(executed) = Len(issued)
      <4>1. AnsweredPhase /\ OnceEach(Len(issued))
        BY <3>2, <3>4 DEF Phases, ProgramPhase, ReplyPhase, CommandPhase
      <4>. QED
        BY <3>4, <4>1 DEF AnsweredPhase, OnceEach, Due, WentOn, LastCommand, Last
    <3>. QED
      BY <3>3, <3>4 DEF OnceWithItsOwnAnswer
  <2>3. NoStandoffWithoutLoss
    <3>1. SUFFICES ASSUME faults = 0, toStub = <<>>, toGdb = <<>>,
                          pc \in {"start", "data", "acked"}
                   PROVE  gdb.pc \in {"ready", "gone"}
      BY DEF NoStandoffWithoutLoss, lineVars
    <3>2. Phases
      BY <3>1 DEF TalkInv
    <3>3. ~ ProgramPhase
      BY <3>1 DEF ProgramPhase
    <3>4. ~ ReplyPhase
      BY <3>1, PacketParts DEF ReplyPhase, InTransit
    <3>5. ~ CommandPhase
      BY <3>1, PacketParts DEF CommandPhase
    <3>. QED
      BY <3>2, <3>3, <3>4, <3>5 DEF Phases, AnsweredPhase
  <2>. QED
    BY <2>1, <2>2, <2>3 DEF ConversationIsOrderly
<1>3. StubInit => TalkInv
  BY <1>1, InitTalk
<1>. QED
  BY <1>2, <1>3, NextTalk, PTL DEF StubSpec

-----------------------------------------------------------------------------
(* The screen, for texts of any length and screens of any size.            *)

(* Min is defined on every set of naturals that is not empty.              *)
LEMMA MinExists ==
  ASSUME NEW S, S \subseteq Nat, S # {}
  PROVE  Min(S) \in S /\ \A y \in S : Min(S) <= y
<1>1. PICK x \in S : \A y \in S : ~ (<<y, x>> \in OpToRel(<, Nat))
  BY WFMin, NatLessThanWellFounded, Zenon
<1>2. \A y \in S : ~ (y < x)
  BY <1>1, Zenon DEF OpToRel
<1>3. \A y \in S : x <= y
  BY <1>2
<1> QED
  BY <1>3 DEF Min

\* What every step of the console keeps.
OnScreen(t) ==
  /\ t \in [lig : Nat, col : Cols, cells : {t.cells}]
  /\ t.lig >= POSI_L_INIT
  /\ DOMAIN t.cells = Rows

\* The rows of the screen below the cursor are empty.
EmptyBelow(t) ==
  \A lig \in Rows : t.lig < lig /\ lig < NB_LIG => t.cells[lig] = EmptyRow

\* The clock's row is as it was, or was blanked by a form feed; what is below
\* the screen stays there but for a form feed; and nothing comes to be below
\* the cursor.
Treated(t, u, ff) ==
  /\ u.cells[0] = t.cells[0] \/ (ff /\ u.cells[0] = EmptyRow)
  /\ ~ ff /\ t.lig >= NB_LIG => u.lig >= NB_LIG
  /\ EmptyBelow(t) => EmptyBelow(u)

\* A cursor that does not go up leaves nothing below it that was not there.
LEMMA BelowKept ==
  ASSUME NEW t, NEW u, t.lig \in Nat, u.lig \in Nat, t.lig <= u.lig,
         \A lig \in Rows : t.lig < lig => u.cells[lig] = t.cells[lig]
  PROVE  EmptyBelow(t) => EmptyBelow(u)
<1> SUFFICES ASSUME EmptyBelow(t), NEW lig \in Rows, u.lig < lig, lig < NB_LIG
             PROVE  u.cells[lig] = EmptyRow
  BY DEF EmptyBelow
<1>1. lig \in Int
  BY DEF Rows
<1>2. t.lig < lig
  BY <1>1
<1> QED  BY <1>2 DEF EmptyBelow

\* Nor does a cursor that is past the rows of the screen, or on the last but
\* one of them when the last is empty.
LEMMA BelowTheScreen ==
  ASSUME NEW u, u.lig \in Nat, NB_LIG \in Nat,
         \/ u.lig >= NB_LIG
         \/ u.lig = NB_LIG - 2 /\ u.cells[NB_LIG - 1] = EmptyRow
  PROVE  EmptyBelow(u)
<1> SUFFICES ASSUME NEW lig \in Rows, u.lig < lig, lig < NB_LIG
             PROVE  u.cells[lig] = EmptyRow
  BY DEF EmptyBelow
<1>1. lig \in Int
  BY DEF Rows
<1>2. lig = NB_LIG - 1 /\ u.lig = NB_LIG - 2
  BY <1>1
<1> QED  BY <1>2

LEMMA ScreenSizes ==
  /\ NB_COL \in Nat /\ NB_LIG \in Nat /\ NB_LIG > 2 /\ NB_COL > NB_LIG + 1
  /\ MaxLig \in Nat /\ MaxLig > NB_LIG /\ 0 \in Rows /\ POSI_L_INIT = 1 /\ POSI_C_INIT \in Cols
  /\ \A lig \in 0 .. NB_LIG : lig \in Rows
  /\ \A col \in Cols : col \in Nat
BY ConAssumption DEF ConAssumption, Rows, Cols, POSI_L_INIT, POSI_C_INIT

LEMMA NextTab ==
  ASSUME NEW col \in Cols
  PROVE  next_tab(col) \in Cols
<1>1. TAB \in Nat /\ TAB # 0 /\ NB_COL \in Nat /\ NB_COL > TAB
  BY ConAssumption DEF ConAssumption
<1> DEFINE q == NB_COL \div TAB
           S == {TAB * k : k \in {i \in 1 .. q - 1 : TAB * i > col}}
           last == NB_COL - 1
<1>2. q \in Nat /\ TAB * q <= NB_COL
  <2>1. q \in Nat /\ NB_COL = TAB * q + (NB_COL % TAB) /\ NB_COL % TAB \in Nat
    BY <1>1, SMT
  <2> HIDE DEF q
  <2>2. TAB * q \in Nat
    BY <1>1, <2>1
  <2> QED  BY <1>1, <2>1, <2>2
<1> HIDE DEF q
<1>3. ASSUME NEW k \in 1 .. q - 1
      PROVE  TAB * k \in Cols
  <2>1. TAB * k <= TAB * (q - 1) /\ TAB * (q - 1) = TAB * q - TAB
    BY <1>1, <1>2
  <2>2. TAB * k \in Nat /\ TAB * q \in Nat
    BY <1>1, <1>2
  <2> QED  BY <1>1, <1>2, <2>1, <2>2 DEF Cols
<1>4. S \subseteq Cols /\ last \in Cols
  BY <1>1, <1>3 DEF Cols
<1>5. Cols \subseteq Nat
  BY <1>1 DEF Cols
<1> HIDE DEF S, last
<1>6. Min(S \cup {last}) \in S \cup {last}
  <2>1. S \cup {last} \subseteq Nat /\ S \cup {last} # {}
    BY <1>4, <1>5
  <2> QED  BY <2>1, MinExists
<1>7. next_tab(col) = Min(S \cup {last})
  BY Zenon DEF next_tab, S, last, q
<1> QED
  BY <1>4, <1>6, <1>7

LEMMA PlaceCurseur ==
  ASSUME NEW t, OnScreen(t), NEW lig \in Nat, lig >= POSI_L_INIT, NEW col \in Cols
  PROVE  LET u == place_curseur(t, lig, col)
         IN  OnScreen(u) /\ u.lig = lig /\ u.col = col /\ u.cells = t.cells
BY DEF OnScreen, place_curseur

LEMMA Defilement ==
  ASSUME NEW t, OnScreen(t)
  PROVE  LET u == defilement(t)
         IN  /\ OnScreen(u)
             /\ u.lig = IF t.lig > POSI_L_INIT THEN t.lig - 1 ELSE t.lig
             /\ u.col = t.col
             /\ u.cells[0] = t.cells[0]
             /\ \A lig \in 1 .. NB_LIG - 2 : u.cells[lig] = t.cells[lig + 1]
             /\ u.cells[NB_LIG - 1] = EmptyRow
<1> DEFINE up == [t EXCEPT !.cells =
                    [lig \in Rows |-> IF lig \in POSI_L_INIT .. NB_LIG - 1
                                      THEN t.cells[lig + 1] ELSE t.cells[lig]]]
           placed == IF t.lig > POSI_L_INIT THEN place_curseur(up, t.lig - 1, t.col) ELSE up
           u == [placed EXCEPT !.cells[NB_LIG - 1] = EmptyRow]
<1>1. defilement(t) = u
  BY Zenon DEF defilement
<1>2. /\ t \in [lig : Nat, col : Cols, cells : {t.cells}]
      /\ t.lig >= POSI_L_INIT /\ DOMAIN t.cells = Rows
  BY DEF OnScreen
<1>3. OnScreen(up) /\ up.lig = t.lig /\ up.col = t.col
      /\ up.cells = [lig \in Rows |-> IF lig \in POSI_L_INIT .. NB_LIG - 1
                                      THEN t.cells[lig + 1] ELSE t.cells[lig]]
  BY <1>2 DEF OnScreen
<1> HIDE DEF up
<1>4. /\ OnScreen(placed) /\ placed.cells = up.cells /\ placed.col = t.col
      /\ placed.lig = IF t.lig > POSI_L_INIT THEN t.lig - 1 ELSE t.lig
  <2>1. CASE t.lig > POSI_L_INIT
    <3>1. t.lig - 1 \in Nat /\ t.lig - 1 >= POSI_L_INIT /\ t.col \in Cols
      BY <1>2, <2>1, ScreenSizes
    <3> DEFINE lig == t.lig - 1
    <3> HIDE DEF lig
    <3>2. lig \in Nat /\ lig >= POSI_L_INIT
      BY <3>1 DEF lig
    <3>3. LET w == place_curseur(up, lig, t.col)
          IN  OnScreen(w) /\ w.lig = lig /\ w.col = t.col /\ w.cells = up.cells
      BY <1>3, <3>1, <3>2, PlaceCurseur
    <3> QED  BY <2>1, <3>3 DEF lig
  <2>2. CASE ~ (t.lig > POSI_L_INIT)
    BY <1>3, <2>2
  <2> QED  BY <2>1, <2>2
<1> HIDE DEF placed
<1>5. OnScreen(u) /\ u.lig = placed.lig /\ u.col = placed.col
      /\ u.cells = [up.cells EXCEPT ![NB_LIG - 1] = EmptyRow]
  BY <1>4 DEF OnScreen
<1> HIDE DEF u
<1>6. /\ NB_LIG - 1 \in Rows /\ NB_LIG - 1 # 0 /\ 0 \in Rows /\ 0 \notin POSI_L_INIT .. NB_LIG - 1
      /\ \A lig \in 1 .. NB_LIG - 2 : /\ lig \in Rows /\ lig \in POSI_L_INIT .. NB_LIG - 1
                                      /\ lig # NB_LIG - 1
  BY ScreenSizes
<1>7. u.cells[0] = t.cells[0] /\ u.cells[NB_LIG - 1] = EmptyRow
  BY <1>3, <1>5, <1>6
<1>8. \A lig \in 1 .. NB_LIG - 2 : u.cells[lig] = t.cells[lig + 1]
  BY <1>3, <1>5, <1>6
<1> QED
  BY <1>1, <1>4, <1>5, <1>7, <1>8

\* One character, whatever it is.
LEMMA EcritCar ==
  ASSUME NEW t, OnScreen(t), NEW c
  PROVE  LET u == ecrit_car(t, t.lig, t.col, c)
         IN  /\ OnScreen(u) /\ u.lig = t.lig /\ u.col = t.col
             /\ u.cells[0] = t.cells[0]
             /\ \A lig \in Rows : t.lig < lig => u.cells[lig] = t.cells[lig]
<1>1. t.lig # 0 /\ 0 \in Rows
  BY ScreenSizes DEF OnScreen
<1> DEFINE row == [t.cells[t.lig] EXCEPT ![t.col] = c]
           d   == [t.cells EXCEPT ![t.lig] = row]
           u   == [t EXCEPT !.cells = d]
<1>2. ecrit_car(t, t.lig, t.col, c) = u
  BY DEF ecrit_car, OnScreen
<1> HIDE DEF row
<1>3. d[0] = t.cells[0] /\ DOMAIN d = Rows
  BY <1>1 DEF OnScreen
<1>5. \A lig \in Rows : t.lig < lig => d[lig] = t.cells[lig]
  <2> SUFFICES ASSUME NEW lig \in Rows, t.lig < lig PROVE d[lig] = t.cells[lig]
    OBVIOUS
  <2>1. lig # t.lig
    BY DEF OnScreen, Rows
  <2> QED  BY <2>1 DEF OnScreen
<1> HIDE DEF d
<1>4. u.lig = t.lig /\ u.col = t.col /\ u.cells = d /\ OnScreen(u)
  BY <1>3 DEF OnScreen
<1> QED
  BY <1>2, <1>3, <1>4, <1>5

LEMMA TreatPrinted ==
  ASSUME NEW t, OnScreen(t)
  PROVE  OnScreen(Printed(t)) /\ Treated(t, Printed(t), FALSE)
<1> DEFINE e == ecrit_car(t, t.lig, t.col, <<"x">>)
           put == [e EXCEPT !.col = @ + 1]
           home == [put EXCEPT !.col = POSI_C_INIT]
<1>1. /\ OnScreen(e) /\ e.lig = t.lig /\ e.col = t.col /\ e.cells[0] = t.cells[0]
      /\ \A lig \in Rows : t.lig < lig => e.cells[lig] = t.cells[lig]
  BY EcritCar
<1> HIDE DEF e
<1>0. t.lig \in Nat
  BY DEF OnScreen
<1>2. Printed(t) = IF put.col = NB_COL THEN Wrap(put) ELSE put
  BY Zenon DEF Printed, e
<1>3. put.lig = t.lig /\ put.cells = e.cells /\ put.col = t.col + 1
  BY <1>1 DEF OnScreen
<1>4. CASE put.col # NB_COL
  <2>1. put.col \in Cols
    BY <1>3, <1>4, ScreenSizes DEF OnScreen, Cols
  <2>2. OnScreen(put)
    BY <1>1, <1>3, <2>1 DEF OnScreen
  <2> HIDE DEF put
  <2>3. EmptyBelow(t) => EmptyBelow(put)
    BY <1>0, <1>1, <1>3, BelowKept
  <2> QED  BY <1>1, <1>2, <1>3, <1>4, <2>2, <2>3 DEF Treated
<1>5. CASE put.col = NB_COL
  <2>1. OnScreen(home) /\ home.lig = t.lig /\ home.cells = e.cells
    BY <1>1, ScreenSizes DEF OnScreen
  <2>2. Wrap(put) = IF put.lig # NB_COL - 1 THEN [home EXCEPT !.lig = @ + 1] ELSE defilement(home)
    BY Zenon DEF Wrap
  <2> HIDE DEF home
  <2>3. CASE t.lig # NB_COL - 1
    <3> DEFINE u == [home EXCEPT !.lig = @ + 1]
    <3>1. OnScreen(u) /\ u.lig = t.lig + 1 /\ u.cells = e.cells
      BY <2>1, ScreenSizes DEF OnScreen
    <3>2. Printed(t) = u
      BY <1>2, <1>3, <1>5, <2>2, <2>3
    <3>3. t.lig \in Nat
      BY DEF OnScreen
    <3> HIDE DEF u
    <3>4. EmptyBelow(t) => EmptyBelow(u)
      BY <1>0, <1>1, <3>1, BelowKept
    <3> QED  BY <1>1, <3>1, <3>2, <3>3, <3>4, ScreenSizes DEF Treated
  <2>4. CASE t.lig = NB_COL - 1
    <3> DEFINE u == defilement(home)
    <3>1. OnScreen(u) /\ u.lig = t.lig - 1 /\ u.cells[0] = e.cells[0]
      <4>1. LET w == defilement(home)
            IN  /\ OnScreen(w)
                /\ w.lig = IF home.lig > POSI_L_INIT THEN home.lig - 1 ELSE home.lig
                /\ w.cells[0] = home.cells[0]
        BY <2>1, Defilement
      <4>2. home.lig > POSI_L_INIT
        BY <2>1, <2>4, ScreenSizes
      <4> QED  BY <2>1, <4>1, <4>2
    <3>2. Printed(t) = u
      BY <1>2, <1>3, <1>5, <2>2, <2>4
    <3> HIDE DEF u
    <3>3. u.lig \in Nat /\ u.lig >= NB_LIG
      BY <1>0, <2>4, <3>1, ScreenSizes
    <3>4. EmptyBelow(u)
      BY <3>3, ScreenSizes, BelowTheScreen
    <3> QED  BY <1>1, <2>4, <3>1, <3>2, <3>4, ScreenSizes DEF Treated
  <2> QED  BY <2>3, <2>4
<1> QED
  BY <1>4, <1>5

LEMMA TreatLineFeed ==
  ASSUME NEW t, OnScreen(t)
  PROVE  LET u == LineFeed(t)
         IN  /\ OnScreen(u) /\ Treated(t, u, FALSE)
             /\ t.lig = NB_LIG - 1 =>
                  /\ u.lig = t.lig - 1 /\ u.col = POSI_C_INIT
                  /\ \A lig \in 1 .. NB_LIG - 2 : u.cells[lig] = t.cells[lig + 1]
                  /\ u.cells[NB_LIG - 1] = EmptyRow
<1> DEFINE u == LineFeed(t)
           s == IF t.lig # NB_LIG - 1 THEN [t EXCEPT !.lig = @ + 1] ELSE defilement(t)
<1>1. u = [s EXCEPT !.col = POSI_C_INIT]
  BY Zenon DEF LineFeed
<1>2. t.lig \in Nat
  BY DEF OnScreen
<1>3. CASE t.lig # NB_LIG - 1
  <2>1. OnScreen(s) /\ s.lig = t.lig + 1 /\ s.cells = t.cells
    BY <1>3, ScreenSizes DEF OnScreen
  <2> HIDE DEF s
  <2>2. OnScreen(u) /\ u.lig = s.lig /\ u.cells = s.cells
    BY <1>1, <2>1, ScreenSizes DEF OnScreen
  <2> HIDE DEF u
  <2>3. EmptyBelow(t) => EmptyBelow(u)
    BY <1>2, <2>1, <2>2, BelowKept
  <2> QED  BY <1>2, <1>3, <2>1, <2>2, <2>3, ScreenSizes DEF Treated, u
<1>4. CASE t.lig = NB_LIG - 1
  <2>1. s = defilement(t)
    BY <1>4
  <2>2. t.lig > POSI_L_INIT
    BY <1>4, ScreenSizes
  <2> HIDE DEF s
  <2>3. /\ OnScreen(s) /\ s.lig = t.lig - 1
        /\ s.cells[0] = t.cells[0]
        /\ \A lig \in 1 .. NB_LIG - 2 : s.cells[lig] = t.cells[lig + 1]
        /\ s.cells[NB_LIG - 1] = EmptyRow
    BY <2>1, <2>2, Defilement
  <2>4. OnScreen(u) /\ u.lig = s.lig /\ u.cells = s.cells /\ u.col = POSI_C_INIT
    BY <1>1, <2>3, ScreenSizes DEF OnScreen
  <2> HIDE DEF u
  <2>5. ~ (t.lig >= NB_LIG)
    BY <1>2, <1>4, ScreenSizes
  <2>6. EmptyBelow(u)
    <3>1. u.lig \in Nat /\ u.lig = NB_LIG - 2 /\ u.cells[NB_LIG - 1] = EmptyRow
      BY <1>4, <2>3, <2>4, ScreenSizes DEF OnScreen
    <3> QED  BY <3>1, ScreenSizes, BelowTheScreen
  <2> QED  BY <2>3, <2>4, <2>5, <2>6 DEF Treated, u
<1> QED
  BY <1>3, <1>4

LEMMA TreatFormFeed ==
  ASSUME NEW t, OnScreen(t)
  PROVE  LET u == place_curseur(efface_ecran(t), POSI_L_INIT, POSI_C_INIT)
         IN  OnScreen(u) /\ Treated(t, u, TRUE)
<1> DEFINE d == [lig \in Rows |-> IF lig < NB_LIG THEN EmptyRow ELSE t.cells[lig]]
           e == [t EXCEPT !.cells = d]
           u == place_curseur(e, POSI_L_INIT, POSI_C_INIT)
<1>1. d[0] = EmptyRow /\ DOMAIN d = Rows
  BY ScreenSizes
<1>2. efface_ecran(t) = e
  BY Zenon DEF efface_ecran
<1> HIDE DEF d
<1>3. OnScreen(e) /\ e.cells = d
  BY <1>1 DEF OnScreen
<1> HIDE DEF e
<1>4. OnScreen(u) /\ u.cells = e.cells
  BY <1>3, PlaceCurseur, ScreenSizes
<1> HIDE DEF u
<1>6. EmptyBelow(u)
  <2> SUFFICES ASSUME NEW lig \in Rows, lig < NB_LIG PROVE u.cells[lig] = EmptyRow
    BY DEF EmptyBelow
  <2> QED  BY <1>3, <1>4 DEF d
<1>5. Treated(t, u, TRUE)
  BY <1>1, <1>3, <1>4, <1>6 DEF Treated
<1> QED
  BY <1>2, <1>4, <1>5 DEF u

\* The last call of traite_car puts the cursor where it is.
LEMMA PlaceStays ==
  ASSUME NEW s, OnScreen(s)
  PROVE  place_curseur(s, s.lig, s.col) = s
BY DEF OnScreen, place_curseur

LEMMA Treat ==
  ASSUME NEW t, OnScreen(t), NEW c
  PROVE  OnScreen(traite_car(t, c)) /\ Treated(t, traite_car(t, c), c = "ff")
<1> DEFINE s == CASE c = "x" -> Printed(t)
                  [] c = "bs" -> [t EXCEPT !.col = IF @ # 0 THEN @ - 1 ELSE @]
                  [] c = "tab" -> [t EXCEPT !.col = next_tab(@)]
                  [] c = "lf" -> LineFeed(t)
                  [] c = "ff" -> place_curseur(efface_ecran(t), POSI_L_INIT, POSI_C_INIT)
                  [] c = "cr" -> [t EXCEPT !.col = POSI_C_INIT]
                  [] OTHER -> t
<1>1. traite_car(t, c) = place_curseur(s, s.lig, s.col)
  BY Zenon DEF traite_car
<1>2. SUFFICES OnScreen(s) /\ Treated(t, s, c = "ff")
  <2> HIDE DEF s
  <2> SUFFICES ASSUME OnScreen(s), Treated(t, s, c = "ff")
               PROVE  OnScreen(traite_car(t, c)) /\ Treated(t, traite_car(t, c), c = "ff")
    OBVIOUS
  <2>1. traite_car(t, c) = s
    BY <1>1, PlaceStays
  <2> QED  BY <2>1
<1>3. CASE c = "x"
  <2>1. s = Printed(t)
    BY <1>3
  <2> QED  BY <1>3, <2>1, TreatPrinted
<1>4. CASE c = "lf"
  <2>1. s = LineFeed(t)
    BY <1>4
  <2> QED  BY <1>4, <2>1, TreatLineFeed
<1>5. CASE c = "ff"
  <2>1. s = place_curseur(efface_ecran(t), POSI_L_INIT, POSI_C_INIT)
    BY <1>5
  <2> QED  BY <1>5, <2>1, TreatFormFeed
<1>6. CASE c \notin {"x", "lf", "ff"}
  <2>1. \E col \in Cols : s = [t EXCEPT !.col = col] \/ s = t
    <3>1. CASE c = "bs"
      <4>1. s = [t EXCEPT !.col = IF t.col # 0 THEN t.col - 1 ELSE t.col]
        BY <3>1
      <4>2. (IF t.col # 0 THEN t.col - 1 ELSE t.col) \in Cols
        BY ScreenSizes DEF OnScreen, Cols
      <4> QED  BY <4>1, <4>2
    <3>2. CASE c = "tab"
      <4>1. s = [t EXCEPT !.col = next_tab(t.col)]
        BY <3>2
      <4>2. next_tab(t.col) \in Cols
        BY NextTab DEF OnScreen
      <4> QED  BY <4>1, <4>2
    <3>3. CASE c = "cr"
      BY <3>3, ScreenSizes
    <3>4. CASE c \notin {"bs", "tab", "cr"}
      <4>1. s = t
        BY <1>6, <3>4
      <4> QED  BY <4>1, ScreenSizes
    <3> QED  BY <3>1, <3>2, <3>3, <3>4
  <2> HIDE DEF s
  <2>2. OnScreen(s) /\ s.lig = t.lig /\ s.cells = t.cells
    BY <2>1 DEF OnScreen
  <2>3. EmptyBelow(t) => EmptyBelow(s)
    BY <2>2 DEF EmptyBelow
  <2> QED  BY <1>6, <2>2, <2>3 DEF Treated
<1> QED
  BY <1>3, <1>4, <1>5, <1>6

-----------------------------------------------------------------------------
(* A text, character by character.                                         *)

\* f lists the screens that a text goes through from t.
Shows(f, t, text) ==
  /\ f[0] = t
  /\ \A n \in 1 .. Len(text) : f[n] = traite_car(f[n-1], text[n])

(* The screens that console_putbytes goes through.                         *)
LEMMA PutShows ==
  ASSUME NEW t, NEW text \in Seq(Characters)
  PROVE  \E f : Shows(f, t, text) /\ console_putbytes(t, text) = f[Len(text)]
<1> DEFINE N == Len(text)
           Spec(f, m) == f = [n \in 0 .. m |-> IF n = 0 THEN t ELSE traite_car(f[n-1], text[n])]
           Missing == {m \in 0 .. N : ~ \E f : Spec(f, m)}
<1>0. N \in Nat
  OBVIOUS
<1>1. Missing = {}
  <2> SUFFICES ASSUME Missing # {} PROVE FALSE
    OBVIOUS
  <2> DEFINE m == Min(Missing)
  <2>1. m \in Missing /\ \A y \in Missing : m <= y
    <3>1. Missing \subseteq Nat
      BY <1>0
    <3> HIDE DEF Missing
    <3> QED  BY <3>1, MinExists
  <2>2. m \in 0 .. N /\ ~ \E f : Spec(f, m)
    BY <2>1
  <2> HIDE DEF m
  <2>3. CASE m = 0
    <3>1. Spec([n \in 0 .. 0 |-> t], 0)
      BY SMT
    <3> QED  BY <2>2, <2>3, <3>1
  <2>4. CASE m # 0
    <3>1. m - 1 \in 0 .. N /\ m - 1 \notin Missing
      <4>1. m - 1 \in 0 .. N /\ ~ (m <= m - 1)
        BY <1>0, <2>2, <2>4
      <4> HIDE DEF Missing
      <4> QED  BY <2>1, <4>1
    <3>2. PICK f : Spec(f, m - 1)
      BY <3>1
    <3> DEFINE g == [n \in 0 .. m |-> IF n = m THEN traite_car(f[m-1], text[m]) ELSE f[n]]
    <3>3. \A n \in 0 .. m - 1 : f[n] = IF n = 0 THEN t ELSE traite_car(f[n-1], text[n])
      BY <3>2, Zenon
    <3>4. \A n \in 0 .. m : g[n] = IF n = 0 THEN t ELSE traite_car(g[n-1], text[n])
      <4> SUFFICES ASSUME NEW n \in 0 .. m
                   PROVE  g[n] = IF n = 0 THEN t ELSE traite_car(g[n-1], text[n])
        OBVIOUS
      <4>1. CASE n = m
        <5>1. n - 1 \in 0 .. m /\ n - 1 # m /\ n # 0
          BY <2>2, <2>4, <4>1
        <5> QED  BY <4>1, <5>1
      <4>2. CASE n # m
        <5>1. n \in 0 .. m - 1 /\ (n # 0 => n - 1 \in 0 .. m /\ n - 1 # m)
          BY <2>2, <4>2
        <5> QED  BY <3>3, <4>2, <5>1
      <4> QED  BY <4>1, <4>2
    <3>5. Spec(g, m)
      <4>1. g = [n \in 0 .. m |-> g[n]]
        OBVIOUS
      <4> HIDE DEF g
      <4> QED  BY <3>4, <4>1
    <3> QED  BY <2>2, <3>5
  <2> QED  BY <2>3, <2>4
<1> DEFINE after == CHOOSE f : Spec(f, N)
<1>2. Spec(after, N)
  <2>1. \E f : Spec(f, N)
    BY <1>0, <1>1
  <2> QED  BY <2>1, Zenon
<1>3. console_putbytes(t, text) = after[N]
  BY Zenon DEF console_putbytes
<1> HIDE DEF after
<1>4. \A n \in 0 .. N : after[n] = IF n = 0 THEN t ELSE traite_car(after[n-1], text[n])
  BY <1>2, Zenon
<1>5. 0 \in 0 .. N /\ \A n \in 1 .. N : n \in 0 .. N /\ n # 0
  BY <1>0
<1>6. Shows(after, t, text)
  BY <1>4, <1>5 DEF Shows
<1> QED
  BY <1>3, <1>6

(* They are determined.                                                    *)
LEMMA ShownOnce ==
  ASSUME NEW t, NEW text \in Seq(Characters), NEW f, Shows(f, t, text),
         NEW c \in Characters, NEW g, Shows(g, t, Append(text, c))
  PROVE  g[Len(text)] = f[Len(text)]
<1> DEFINE N == Len(text)
           Bad == {n \in 0 .. N : g[n] # f[n]}
<1>0. N \in Nat
  OBVIOUS
<1>1. f[0] = t /\ g[0] = t
  BY DEF Shows
<1>2. ASSUME NEW n \in 1 .. N
      PROVE  f[n] = traite_car(f[n-1], text[n]) /\ g[n] = traite_car(g[n-1], text[n])
  <2>1. n \in 1 .. Len(Append(text, c)) /\ Append(text, c)[n] = text[n]
    OBVIOUS
  <2>2. g[n] = traite_car(g[n-1], Append(text, c)[n]) /\ f[n] = traite_car(f[n-1], text[n])
    BY <2>1, Zenon DEF Shows
  <2> QED  BY <2>1, <2>2
<1>3. Bad = {}
  <2> SUFFICES ASSUME Bad # {} PROVE FALSE
    OBVIOUS
  <2> DEFINE m == Min(Bad)
  <2>1. m \in Bad /\ \A y \in Bad : m <= y
    <3>1. Bad \subseteq Nat
      BY <1>0
    <3> HIDE DEF Bad
    <3> QED  BY <3>1, MinExists
  <2> HIDE DEF m
  <2>2. m \in 0 .. N /\ g[m] # f[m]
    BY <2>1
  <2>3. m # 0
    BY <1>1, <2>2
  <2>4. m \in 1 .. N /\ m - 1 \in 0 .. N /\ ~ (m <= m - 1)
    BY <1>0, <2>2, <2>3
  <2>5. g[m-1] = f[m-1]
    BY <2>1, <2>4
  <2> QED  BY <1>2, <2>2, <2>4, <2>5
<1>4. N \in 0 .. N
  BY <1>0
<1> QED
  BY <1>3, <1>4

(* A character more.                                                       *)
LEMMA PutAppend ==
  ASSUME NEW t, NEW text \in Seq(Characters), NEW c \in Characters
  PROVE  console_putbytes(t, Append(text, c)) = traite_car(console_putbytes(t, text), c)
<1> DEFINE longer == Append(text, c)
           N == Len(text)
<1>1. longer \in Seq(Characters) /\ Len(longer) = N + 1 /\ longer[N + 1] = c /\ N \in Nat
  OBVIOUS
<1>2. PICK f : Shows(f, t, text) /\ console_putbytes(t, text) = f[N]
  BY PutShows
<1>3. PICK g : Shows(g, t, longer) /\ console_putbytes(t, longer) = g[Len(longer)]
  BY <1>1, PutShows
<1>4. g[N] = f[N]
  BY <1>2, <1>3, ShownOnce
<1> HIDE DEF longer
<1>5. N + 1 \in 1 .. Len(longer) /\ (N + 1) - 1 = N
  BY <1>1
<1>6. g[N + 1] = traite_car(g[(N + 1) - 1], longer[N + 1])
  BY <1>3, <1>5, Zenon DEF Shows
<1>7. g[N + 1] = traite_car(g[N], c)
  BY <1>1, <1>5, <1>6
<1> QED
  BY <1>1, <1>2, <1>3, <1>4, <1>7 DEF longer

LEMMA PutNothing ==
  ASSUME NEW t
  PROVE  console_putbytes(t, <<>>) = t
<1>1. <<>> \in Seq(Characters) /\ Len(<<>>) = 0
  OBVIOUS
<1>2. PICK f : Shows(f, t, <<>>) /\ console_putbytes(t, <<>>) = f[0]
  BY <1>1, PutShows
<1> QED
  BY <1>2 DEF Shows

LEMMA PutOne ==
  ASSUME NEW t, NEW c \in Characters
  PROVE  console_putbytes(t, <<c>>) = traite_car(t, c)
<1>1. <<c>> = Append(<<>>, c) /\ <<>> \in Seq(Characters)
  OBVIOUS
<1>2. console_putbytes(t, Append(<<>>, c)) = traite_car(console_putbytes(t, <<>>), c)
  BY <1>1, PutAppend
<1> QED
  BY <1>1, <1>2, PutNothing

\* The characters a text has up to a place.
FormFeedIn(text) == \E i \in DOMAIN text : text[i] = "ff"

(* A text keeps the screen, the clock's row and what is below.             *)
LEMMA PutKeeps ==
  ASSUME NEW t, OnScreen(t), NEW text \in Seq(Characters)
  PROVE  LET u == console_putbytes(t, text)
         IN  OnScreen(u) /\ Treated(t, u, FormFeedIn(text))
<1> DEFINE N == Len(text)
           ff == FormFeedIn(text)
<1>0. N \in Nat /\ DOMAIN text = 1 .. N
  OBVIOUS
<1>1. PICK f : Shows(f, t, text) /\ console_putbytes(t, text) = f[N]
  BY PutShows
<1> DEFINE Bad == {n \in 0 .. N : ~ (OnScreen(f[n]) /\ Treated(t, f[n], ff))}
<1>2. Bad = {}
  <2> SUFFICES ASSUME Bad # {} PROVE FALSE
    OBVIOUS
  <2> DEFINE m == Min(Bad)
  <2>1. m \in Bad /\ \A y \in Bad : m <= y
    <3>1. Bad \subseteq Nat
      BY <1>0
    <3> HIDE DEF Bad
    <3> QED  BY <3>1, MinExists
  <2> HIDE DEF m
  <2>2. m \in 0 .. N /\ ~ (OnScreen(f[m]) /\ Treated(t, f[m], ff))
    BY <2>1
  <2>3. CASE m = 0
    <3>1. f[m] = t
      BY <1>1, <2>3 DEF Shows
    <3> QED  BY <2>2, <3>1 DEF Treated
  <2>4. CASE m # 0
    <3>1. m \in 1 .. N /\ m - 1 \in 0 .. N /\ ~ (m <= m - 1)
      BY <1>0, <2>2, <2>4
    <3> DEFINE b == f[m-1]
               c == text[m]
               u == traite_car(b, c)
    <3>2. OnScreen(b) /\ Treated(t, b, ff)
      BY <2>1, <3>1
    <3>3. f[m] = u
      BY <1>1, <3>1 DEF Shows
    <3>4. OnScreen(u) /\ Treated(b, u, c = "ff")
      BY <3>2, Treat
    <3>5. c = "ff" => ff
      BY <1>0, <3>1 DEF FormFeedIn
    <3> HIDE DEF b, u, c, ff
    <3>6. Treated(t, u, ff)
      BY <3>2, <3>4, <3>5 DEF Treated
    <3> QED  BY <2>2, <3>3, <3>4, <3>6
  <2> QED  BY <2>3, <2>4
<1>3. N \in 0 .. N
  BY <1>0
<1> QED
  BY <1>1, <1>2, <1>3

-----------------------------------------------------------------------------
(* printf collects characters: what it has sent and what it holds is what  *)
(* it was given.                                                           *)

\* p lists what printf has sent and collected, character by character.
Collects(p, t, text) ==
  /\ p[0] = [buf |-> <<>>, t |-> t]
  /\ \A n \in 1 .. Len(text) : p[n] = printf_char(p[n-1], text[n])

LEMMA PrintfCollects ==
  ASSUME NEW t, NEW text \in Seq(Characters)
  PROVE  \E p : /\ Collects(p, t, text)
                /\ vprintf(t, text) = LET q == p[Len(text)]
                                      IN IF Len(q.buf) # 0 THEN flush(q).t ELSE q.t
<1> DEFINE N == Len(text)
           start == [buf |-> <<>>, t |-> t]
           Spec(f, m) == f = [n \in 0 .. m |-> IF n = 0 THEN start
                                               ELSE printf_char(f[n-1], text[n])]
           Missing == {m \in 0 .. N : ~ \E f : Spec(f, m)}
<1> HIDE DEF start
<1>0. N \in Nat
  OBVIOUS
<1>1. Missing = {}
  <2> SUFFICES ASSUME Missing # {} PROVE FALSE
    OBVIOUS
  <2> DEFINE m == Min(Missing)
  <2>1. m \in Missing /\ \A y \in Missing : m <= y
    <3>1. Missing \subseteq Nat
      BY <1>0
    <3> HIDE DEF Missing
    <3> QED  BY <3>1, MinExists
  <2>2. m \in 0 .. N /\ ~ \E f : Spec(f, m)
    BY <2>1
  <2> HIDE DEF m
  <2>3. CASE m = 0
    <3>1. Spec([n \in 0 .. 0 |-> start], 0)
      BY SMT
    <3> QED  BY <2>2, <2>3, <3>1
  <2>4. CASE m # 0
    <3>1. m - 1 \in 0 .. N /\ m - 1 \notin Missing
      <4>1. m - 1 \in 0 .. N /\ ~ (m <= m - 1)
        BY <1>0, <2>2, <2>4
      <4> HIDE DEF Missing
      <4> QED  BY <2>1, <4>1
    <3>2. PICK f : Spec(f, m - 1)
      BY <3>1
    <3> DEFINE g == [n \in 0 .. m |-> IF n = m THEN printf_char(f[m-1], text[m]) ELSE f[n]]
    <3>3. \A n \in 0 .. m - 1 : f[n] = IF n = 0 THEN start ELSE printf_char(f[n-1], text[n])
      BY <3>2, Zenon
    <3>4. \A n \in 0 .. m : g[n] = IF n = 0 THEN start ELSE printf_char(g[n-1], text[n])
      <4> SUFFICES ASSUME NEW n \in 0 .. m
                   PROVE  g[n] = IF n = 0 THEN start ELSE printf_char(g[n-1], text[n])
        OBVIOUS
      <4>1. CASE n = m
        <5>1. n - 1 \in 0 .. m /\ n - 1 # m /\ n # 0
          BY <2>2, <2>4, <4>1
        <5> QED  BY <4>1, <5>1
      <4>2. CASE n # m
        <5>1. n \in 0 .. m - 1 /\ (n # 0 => n - 1 \in 0 .. m /\ n - 1 # m)
          BY <2>2, <4>2
        <5> QED  BY <3>3, <4>2, <5>1
      <4> QED  BY <4>1, <4>2
    <3>5. Spec(g, m)
      <4>1. g = [n \in 0 .. m |-> g[n]]
        OBVIOUS
      <4> HIDE DEF g
      <4> QED  BY <3>4, <4>1
    <3> QED  BY <2>2, <3>5
  <2> QED  BY <2>3, <2>4
<1> DEFINE after == CHOOSE f : Spec(f, N)
<1>2. Spec(after, N)
  <2>1. \E f : Spec(f, N)
    BY <1>0, <1>1
  <2> QED  BY <2>1, Zenon
<1>3. vprintf(t, text) = LET q == after[N]
                         IN IF Len(q.buf) # 0 THEN flush(q).t ELSE q.t
  BY Zenon DEF vprintf, start
<1> HIDE DEF after
<1>4. \A n \in 0 .. N : after[n] = IF n = 0 THEN start ELSE printf_char(after[n-1], text[n])
  BY <1>2, Zenon
<1>5. 0 \in 0 .. N /\ \A n \in 1 .. N : n \in 0 .. N /\ n # 0
  BY <1>0
<1>6. Collects(after, t, text)
  BY <1>4, <1>5 DEF Collects, start
<1> QED
  BY <1>3, <1>6

\* The screen u is reached when p sends what it has collected.
Owes(p, u) ==
  /\ p.buf \in Seq(Characters)
  /\ console_putbytes(p.t, p.buf) = u

LEMMA CollectOne ==
  ASSUME NEW p, NEW u, Owes(p, u), p = [buf |-> p.buf, t |-> p.t], NEW c \in Characters
  PROVE  LET q == printf_char(p, c)
         IN  Owes(q, traite_car(u, c)) /\ q = [buf |-> q.buf, t |-> q.t]
<1> DEFINE q == printf_char(p, c)
<1>1. p.buf \in Seq(Characters) /\ console_putbytes(p.t, p.buf) = u
  BY DEF Owes
<1>2. CASE c \in {"nul", "lf"} \/ Len(p.buf) >= PRINTF_BUFMAX
  <2> DEFINE v == console_putbytes(u, <<c>>)
  <2>1. flush(p) = [buf |-> <<>>, t |-> u]
    BY <1>1, Zenon DEF flush
  <2>2. q = [flush(p) EXCEPT !.t = console_putbytes(@, <<c>>)]
    BY <1>2, Zenon DEF printf_char
  <2>3. q = [buf |-> <<>>, t |-> v]
    BY <2>1, <2>2
  <2>4. v = traite_car(u, c)
    BY PutOne
  <2> HIDE DEF v, q
  <2>5. <<>> \in Seq(Characters) /\ console_putbytes(v, <<>>) = v
    BY PutNothing
  <2>6. q.buf = <<>> /\ q.t = v
    BY <2>3
  <2> QED  BY <2>3, <2>4, <2>5, <2>6 DEF Owes, q
<1>3. CASE ~ (c \in {"nul", "lf"} \/ Len(p.buf) >= PRINTF_BUFMAX)
  <2> DEFINE b == Append(p.buf, c)
  <2>1. q = [p EXCEPT !.buf = b]
    BY <1>3, Zenon DEF printf_char
  <2>2. b \in Seq(Characters) /\ console_putbytes(p.t, b) = traite_car(u, c)
    BY <1>1, PutAppend
  <2> HIDE DEF b, q
  <2>3. q.buf = b /\ q.t = p.t /\ q = [buf |-> q.buf, t |-> q.t]
    BY <2>1
  <2> QED  BY <2>2, <2>3 DEF Owes, q
<1> QED
  BY <1>2, <1>3

LEMMA PrintfIsPut ==
  ASSUME NEW t, NEW text \in Seq(Characters)
  PROVE  vprintf(t, text) = console_putbytes(t, text)
<1> DEFINE N == Len(text)
<1>0. N \in Nat /\ \A n \in 1 .. N : text[n] \in Characters
  OBVIOUS
<1>1. PICK f : Shows(f, t, text) /\ console_putbytes(t, text) = f[N]
  BY PutShows
<1>2. PICK p : /\ Collects(p, t, text)
               /\ vprintf(t, text) = LET q == p[N]
                                     IN IF Len(q.buf) # 0 THEN flush(q).t ELSE q.t
  BY PrintfCollects
<1> DEFINE Right(n) == Owes(p[n], f[n]) /\ p[n] = [buf |-> p[n].buf, t |-> p[n].t]
           Bad == {n \in 0 .. N : ~ Right(n)}
<1>3. Bad = {}
  <2> SUFFICES ASSUME Bad # {} PROVE FALSE
    OBVIOUS
  <2> DEFINE m == Min(Bad)
  <2>1. m \in Bad /\ \A y \in Bad : m <= y
    <3>1. Bad \subseteq Nat
      BY <1>0
    <3> HIDE DEF Bad
    <3> QED  BY <3>1, MinExists
  <2> HIDE DEF m
  <2>2. m \in 0 .. N /\ ~ Right(m)
    BY <2>1
  <2>3. CASE m = 0
    <3>1. f[m] = t /\ p[m] = [buf |-> <<>>, t |-> t]
      BY <1>1, <1>2, <2>3 DEF Shows, Collects
    <3>2. p[m].buf = <<>> /\ p[m].t = t /\ p[m] = [buf |-> p[m].buf, t |-> p[m].t]
      BY <3>1
    <3>3. <<>> \in Seq(Characters) /\ console_putbytes(t, <<>>) = t
      BY PutNothing
    <3> QED  BY <2>2, <3>1, <3>2, <3>3 DEF Owes
  <2>4. CASE m # 0
    <3>1. m \in 1 .. N /\ m - 1 \in 0 .. N /\ ~ (m <= m - 1)
      BY <1>0, <2>2, <2>4
    <3> DEFINE a == p[m-1]
               u == f[m-1]
               c == text[m]
    <3>2. Owes(a, u) /\ a = [buf |-> a.buf, t |-> a.t]
      <4>1. m - 1 \notin Bad
        <5> HIDE DEF Bad
        <5> QED  BY <2>1, <3>1
      <4> QED  BY <3>1, <4>1
    <3>3. p[m] = printf_char(a, c) /\ f[m] = traite_car(u, c)
      BY <1>1, <1>2, <3>1 DEF Shows, Collects
    <3>4. c \in Characters
      BY <1>0, <3>1
    <3> HIDE DEF a, u, c
    <3>5. LET q == printf_char(a, c)
          IN  Owes(q, traite_car(u, c)) /\ q = [buf |-> q.buf, t |-> q.t]
      BY <3>2, <3>4, CollectOne
    <3> QED  BY <2>2, <3>3, <3>5
  <2> QED  BY <2>3, <2>4
<1> DEFINE q == p[N]
<1>4. Owes(q, f[N])
  <2>1. N \in 0 .. N
    BY <1>0
  <2> QED  BY <1>3, <2>1
<1>5. vprintf(t, text) = IF Len(q.buf) # 0 THEN flush(q).t ELSE q.t
  BY <1>2
<1> HIDE DEF q
<1>6. CASE Len(q.buf) # 0
  <2>1. flush(q) = [buf |-> <<>>, t |-> f[N]]
    BY <1>4, Zenon DEF flush, Owes
  <2>2. flush(q).t = f[N]
    BY <2>1
  <2> QED  BY <1>1, <1>5, <1>6, <2>2
<1>7. CASE Len(q.buf) = 0
  <2>1. q.buf = <<>>
    BY <1>4, <1>7 DEF Owes
  <2>2. q.t = f[N]
    BY <1>4, <2>1, PutNothing DEF Owes
  <2> QED  BY <1>1, <1>5, <1>7, <2>2
<1> QED
  BY <1>6, <1>7

(* What a printf of a process leaves.                                      *)
LEMMA PrintfKeeps ==
  ASSUME NEW t, OnScreen(t), NEW text \in Seq(Characters)
  PROVE  LET u == vprintf(t, text)
         IN  OnScreen(u) /\ Treated(t, u, FormFeedIn(text))
BY PrintfIsPut, PutKeeps

\* The invariant: the console is one screen, and the first row the clock's.
ConInv == OnScreen(con) /\ ConTypeOK /\ ClockRowShowsTheTime /\ NothingBelowTheCursor

LEMMA ClockSizes ==
  /\ SIXTY \in Nat /\ SIXTY >= 1 /\ MAX_HOUR \in Nat /\ TICKS \in Nat /\ TICKS >= 1
  /\ MaxTexts \in Nat
  /\ \A text \in Texts : text \in Seq(Characters)
BY ConAssumption DEF ConAssumption

LEMMA InitConsole == ConInit => ConInv
<1> SUFFICES ASSUME ConInit PROVE ConInv
  OBVIOUS
<1>1. con = [lig |-> POSI_L_INIT, col |-> POSI_C_INIT, cells |-> [lig \in Rows |-> EmptyRow]]
  BY DEF ConInit
<1>2. con.lig = POSI_L_INIT /\ con.col = POSI_C_INIT /\ con.cells = [lig \in Rows |-> EmptyRow]
  BY <1>1
<1>3. OnScreen(con)
  BY <1>1, <1>2, ScreenSizes DEF OnScreen
<1>4. con.cells[0] = EmptyRow
  BY <1>2, ScreenSizes
<1>5. ConTypeOK
  BY <1>2, ScreenSizes, ClockSizes DEF ConInit, ConTypeOK
<1>6. NothingBelowTheCursor
  BY <1>2 DEF NothingBelowTheCursor
<1> QED
  BY <1>3, <1>4, <1>5, <1>6 DEF ConInv, ClockRowShowsTheTime

(* The clock writes its row and leaves the cursor.                         *)
LEMMA AfficheClock ==
  ASSUME NEW t, OnScreen(t), NEW h, NEW m, NEW s,
         t.cells[0] = EmptyRow
           \/ \A col \in Cols : col < CLOCK_COL => t.cells[0][col] = Blank
  PROVE  LET u == affiche_clock(t, h, m, s)
         IN  /\ OnScreen(u) /\ u.lig = t.lig /\ u.col = t.col
             /\ EmptyBelow(t) => EmptyBelow(u)
             /\ \A col \in Cols :
                  u.cells[0][col] = IF col >= CLOCK_COL THEN <<h, m, s>> ELSE Blank
<1> DEFINE row == [col \in Cols |-> IF col >= CLOCK_COL THEN <<h, m, s>>
                                    ELSE t.cells[0][col]]
           u == affiche_clock(t, h, m, s)
<1>1. u = [t EXCEPT !.cells[0] = row]
  BY Zenon DEF affiche_clock
<1>2. CLOCK_COL \in Int
  BY ConAssumption DEF ConAssumption, Cols
<1>3. \A col \in Cols : row[col] = IF col >= CLOCK_COL THEN <<h, m, s>> ELSE Blank
  <2> SUFFICES ASSUME NEW col \in Cols
               PROVE  row[col] = IF col >= CLOCK_COL THEN <<h, m, s>> ELSE Blank
    OBVIOUS
  <2>1. col \in Nat
    BY ScreenSizes
  <2>2. EmptyRow[col] = Blank
    BY DEF EmptyRow
  <2>3. row[col] = IF col >= CLOCK_COL THEN <<h, m, s>> ELSE t.cells[0][col]
    OBVIOUS
  <2>4. ~ (col >= CLOCK_COL) => col < CLOCK_COL
    BY <1>2, <2>1
  <2> HIDE DEF row
  <2>5. ~ (col >= CLOCK_COL) => t.cells[0][col] = Blank
    BY <2>2, <2>4
  <2> QED  BY <2>3, <2>5
<1> HIDE DEF row
<1>4. /\ OnScreen(u) /\ u.lig = t.lig /\ u.col = t.col /\ u.cells[0] = row
      /\ \A lig \in Rows : lig # 0 => u.cells[lig] = t.cells[lig]
  BY <1>1, ScreenSizes DEF OnScreen
<1> HIDE DEF u
<1>5. EmptyBelow(t) => EmptyBelow(u)
  <2>1. t.lig \in Nat /\ \A lig \in Rows : t.lig < lig => lig # 0
    BY DEF OnScreen, Rows
  <2> QED  BY <1>4, <2>1, BelowKept
<1> QED
  BY <1>3, <1>4, <1>5 DEF u

(* The time that change_clock computes can be shown.                       *)
LEMMA ClockArithmetic ==
  ASSUME NEW s \in Nat, NEW m \in Nat, NEW h \in Nat
  PROVE  /\ s % SIXTY \in 0 .. SIXTY - 1 /\ s \div SIXTY \in Nat
         /\ SIXTY - 1 \in 0 .. SIXTY - 1
         /\ MAX_HOUR \in 0 .. MAX_HOUR
         /\ h + m \div SIXTY \in Nat
BY ClockSizes

LEMMA ChangeClock ==
  ASSUME ConInv, NEW s \in Nat, change_clock(s)
  PROVE  /\ sec' \in 0 .. SIXTY - 1 /\ min' \in 0 .. SIXTY - 1 /\ hour' \in 0 .. MAX_HOUR
         /\ OnScreen(con') /\ con'.lig = con.lig /\ con'.col = con.col
         /\ ClockRowShowsTheTime' /\ NothingBelowTheCursor'
<1> DEFINE carried == min + s \div SIXTY
           h == hour + carried \div SIXTY
           over == h > MAX_HOUR
<1>1. min \in Nat /\ hour \in Nat /\ OnScreen(con) /\ ClockRowShowsTheTime
  BY ClockSizes DEF ConInv, ConTypeOK
<1>2. carried \in Nat
  BY <1>1, ClockArithmetic
<1>3. h \in Nat
  <2> HIDE DEF carried
  <2> QED  BY <1>1, <1>2, ClockArithmetic
<1>4. /\ sec' = IF over THEN SIXTY - 1 ELSE s % SIXTY
      /\ min' = IF over THEN SIXTY - 1 ELSE carried % SIXTY
      /\ hour' = IF over THEN MAX_HOUR ELSE h
      /\ con' = affiche_clock(con, hour', min', sec')
  BY Zenon DEF change_clock
<1> HIDE DEF carried
<1>5. carried % SIXTY \in 0 .. SIXTY - 1
  BY <1>2, ClockArithmetic
<1> HIDE DEF h
<1>6. ~ over => h \in 0 .. MAX_HOUR
  BY <1>3, ClockSizes
<1>7. s % SIXTY \in 0 .. SIXTY - 1 /\ SIXTY - 1 \in 0 .. SIXTY - 1 /\ MAX_HOUR \in 0 .. MAX_HOUR
  BY ClockArithmetic
<1> HIDE DEF over
<1>8. sec' \in 0 .. SIXTY - 1 /\ min' \in 0 .. SIXTY - 1 /\ hour' \in 0 .. MAX_HOUR
  BY <1>4, <1>5, <1>6, <1>7
<1>9. \/ con.cells[0] = EmptyRow
      \/ \A col \in Cols : col < CLOCK_COL => con.cells[0][col] = Blank
  <2>1. ASSUME NEW col \in Cols, col < CLOCK_COL
        PROVE  ~ (col >= CLOCK_COL)
    BY <2>1, ScreenSizes, ConAssumption DEF ConAssumption, Cols
  <2> QED  BY <1>1, <2>1 DEF ClockRowShowsTheTime
<1> DEFINE u == affiche_clock(con, hour', min', sec')
<1>10. /\ OnScreen(u) /\ u.lig = con.lig /\ u.col = con.col
       /\ EmptyBelow(con) => EmptyBelow(u)
       /\ \A col \in Cols :
            u.cells[0][col] = IF col >= CLOCK_COL THEN <<hour', min', sec'>> ELSE Blank
  BY <1>1, <1>9, AfficheClock
<1>11. con' = u
  BY <1>4
<1> HIDE DEF u
<1>12. ClockRowShowsTheTime'
  BY <1>10, <1>11 DEF ClockRowShowsTheTime, Cols
<1>13. OnScreen(con') /\ con'.lig = con.lig /\ con'.col = con.col
  BY <1>10, <1>11
<1>14. NothingBelowTheCursor'
  <2>1. EmptyBelow(con)
    BY DEF ConInv, NothingBelowTheCursor, EmptyBelow
  <2>2. EmptyBelow(con')
    BY <1>10, <1>11, <2>1
  <2> QED  BY <2>2 DEF NothingBelowTheCursor, EmptyBelow, Rows, EmptyRow, Cols
<1> QED
  BY <1>8, <1>12, <1>13, <1>14

(* What a tick and what a printf do to the screen.                         *)
LEMMA TicKeeps ==
  ASSUME ConInv, ConTic
  PROVE  ConInv' /\ con'.lig = con.lig
<1>1. ConTypeOK /\ OnScreen(con) /\ ClockRowShowsTheTime /\ NothingBelowTheCursor
  BY DEF ConInv
<1>2. /\ ticks' = (ticks + 1) % TICKS /\ texts' = texts
      /\ IF ticks' = 0 THEN change_clock(sec + 1) ELSE UNCHANGED <<con, hour, min, sec>>
  BY DEF ConTic
<1>3. ticks' \in 0 .. TICKS - 1
  BY <1>1, <1>2, ClockSizes DEF ConTypeOK
<1>4. CASE ticks' = 0
  <2>1. sec + 1 \in Nat
    BY <1>1, ClockSizes DEF ConTypeOK
  <2>2. change_clock(sec + 1)
    BY <1>2, <1>4
  <2>3. /\ sec' \in 0 .. SIXTY - 1 /\ min' \in 0 .. SIXTY - 1 /\ hour' \in 0 .. MAX_HOUR
        /\ OnScreen(con') /\ con'.lig = con.lig /\ con'.col = con.col
        /\ ClockRowShowsTheTime' /\ NothingBelowTheCursor'
    BY <2>1, <2>2, ChangeClock
  <2>4. ConTypeOK'
    BY <1>1, <1>2, <1>3, <2>3 DEF ConTypeOK, Cols
  <2> QED  BY <2>3, <2>4 DEF ConInv
<1>5. CASE ticks' # 0
  <2>1. UNCHANGED <<con, hour, min, sec>>
    BY <1>2, <1>5
  <2>2. ConTypeOK'
    BY <1>1, <1>2, <1>3, <2>1 DEF ConTypeOK, Cols
  <2>3. OnScreen(con') /\ ClockRowShowsTheTime' /\ NothingBelowTheCursor'
    BY <1>1, <2>1 DEF ClockRowShowsTheTime, NothingBelowTheCursor
  <2> QED  BY <2>1, <2>2, <2>3 DEF ConInv
<1> QED
  BY <1>4, <1>5

\* A text that fits ends on the rows looked at.
LEMMA FitsEnds ==
  ASSUME NEW text \in Seq(Characters), Fits(text), con.lig <= MaxLig
  PROVE  vprintf(con, text).lig <= MaxLig
<1>1. CASE text = <<>>
  <2>1. <<>> \in Seq(Characters)
    OBVIOUS
  <2>2. vprintf(con, text) = con
    BY <1>1, <2>1, PrintfIsPut, PutNothing
  <2> QED  BY <2>2
<1>2. CASE text # <<>>
  <2>1. Len(text) \in 1 .. Len(text) /\ SubSeq(text, 1, Len(text)) = text
    BY <1>2
  <2> QED  BY <2>1 DEF Fits
<1> QED
  BY <1>1, <1>2

LEMMA PrintfStep ==
  ASSUME ConInv, NEW text \in Texts, Fits(text), con' = vprintf(con, text),
         texts < MaxTexts, texts' = texts + 1, UNCHANGED <<hour, min, sec, ticks>>
  PROVE  ConInv' /\ Treated(con, con', FormFeedIn(text))
<1>1. ConTypeOK /\ OnScreen(con) /\ ClockRowShowsTheTime /\ text \in Seq(Characters)
  BY ClockSizes DEF ConInv
<1>2. OnScreen(con') /\ Treated(con, con', FormFeedIn(text))
  BY <1>1, PrintfKeeps
<1>3. con'.lig <= MaxLig
  <2>1. con.lig <= MaxLig
    BY <1>1, ScreenSizes DEF ConTypeOK
  <2> QED  BY <1>1, <2>1, FitsEnds
<1>4. ConTypeOK'
  <2>1. con'.lig \in POSI_L_INIT .. MaxLig
    BY <1>2, <1>3, ScreenSizes DEF OnScreen
  <2>2. con'.col \in Cols
    BY <1>2 DEF OnScreen
  <2>3. texts' \in 0 .. MaxTexts
    BY <1>1, ClockSizes DEF ConTypeOK
  <2> QED  BY <1>1, <2>1, <2>2, <2>3 DEF ConTypeOK, Cols, POSI_L_INIT
<1>5. ClockRowShowsTheTime'
  <2>1. con'.cells[0] = con.cells[0] \/ con'.cells[0] = EmptyRow
    BY <1>2 DEF Treated
  <2> QED  BY <1>1, <2>1 DEF ClockRowShowsTheTime, EmptyRow, Cols
<1>6. NothingBelowTheCursor'
  <2>1. EmptyBelow(con)
    BY DEF ConInv, NothingBelowTheCursor, EmptyBelow
  <2>2. EmptyBelow(con')
    BY <1>2, <2>1 DEF Treated
  <2> QED  BY <2>2 DEF NothingBelowTheCursor, EmptyBelow, Rows, EmptyRow, Cols
<1> QED
  BY <1>2, <1>4, <1>5, <1>6 DEF ConInv

LEMMA NextConsole == ConInv /\ [ConNext]_conVars => ConInv'
<1> SUFFICES ASSUME ConInv, [ConNext]_conVars PROVE ConInv'
  OBVIOUS
<1>1. CASE ConTic
  BY <1>1, TicKeeps
<1>2. CASE ConPrintf
  <2>1. PICK text \in Texts : Fits(text) /\ con' = vprintf(con, text)
    BY <1>2 DEF ConPrintf
  <2>2. texts < MaxTexts /\ texts' = texts + 1 /\ UNCHANGED <<hour, min, sec, ticks>>
    BY <1>2 DEF ConPrintf
  <2> QED  BY <2>1, <2>2, PrintfStep
<1>3. CASE UNCHANGED conVars
  BY <1>3 DEF conVars, ConInv, ConTypeOK, ClockRowShowsTheTime, OnScreen, Cols, Rows,
              NothingBelowTheCursor, POSI_L_INIT, EmptyRow
<1> QED
  BY <1>1, <1>2, <1>3 DEF ConNext

(* A line feed on the last row.                                            *)
LEMMA LineFeedOnTheLastRow == OnScreen(con) => ScrollTakesTheCursorAlong
<1> SUFFICES ASSUME OnScreen(con), con.lig = NB_LIG - 1
             PROVE  LET t == traite_car(con, "lf") IN
                      /\ t.lig = con.lig - 1 /\ t.col = POSI_C_INIT
                      /\ t.cells[t.lig] = con.cells[con.lig]
                      /\ \A lig \in 1 .. NB_LIG - 2 : t.cells[lig] = con.cells[lig + 1]
                      /\ t.cells[NB_LIG - 1] = EmptyRow
  BY Zenon DEF ScrollTakesTheCursorAlong
<1> DEFINE s == LineFeed(con)
           t == traite_car(con, "lf")
<1>1. t = place_curseur(s, s.lig, s.col)
  BY DEF traite_car
<1>2. /\ OnScreen(s) /\ s.lig = con.lig - 1 /\ s.col = POSI_C_INIT
      /\ \A lig \in 1 .. NB_LIG - 2 : s.cells[lig] = con.cells[lig + 1]
      /\ s.cells[NB_LIG - 1] = EmptyRow
  BY TreatLineFeed
<1> HIDE DEF s
<1>3. t = s
  BY <1>1, <1>2, PlaceStays
<1>4. s.lig \in 1 .. NB_LIG - 2 /\ s.lig + 1 = con.lig
  BY <1>2, ScreenSizes DEF OnScreen
<1> HIDE DEF t
<1> QED
  BY <1>2, <1>3, <1>4 DEF t

\* Whatever is printed on a screen of any size, in texts of any length, the
\* cursor keeps to the columns, the first row is the clock's or was blanked by
\* a form feed, the rows below the cursor are empty, a line feed on the last
\* row loses the first line and takes the cursor along to the line it ends, and
\* printf sends its characters in their order (display.c:50-152,
\* clock.c:49-66, printf.c:79-84).
THEOREM TheScreenShowsTheTexts == ConSpec => []ScreenShowsTheTexts
<1>1. ConInv => ScreenShowsTheTexts
  <2> SUFFICES ASSUME ConInv PROVE ScreenShowsTheTexts
    OBVIOUS
  <2>1. PrintfKeepsTheOrder
    BY ClockSizes, PrintfIsPut DEF PrintfKeepsTheOrder
  <2> QED
    BY <2>1, LineFeedOnTheLastRow DEF ConInv, ScreenShowsTheTexts
<1> QED
  BY <1>1, InitConsole, NextConsole, PTL DEF ConSpec

\* Only a form feed brings a cursor back that has left the screen
\* (display.c:103 and 132).
THEOREM OnlyAFormFeedBringsItBack == ConSpec => BelowTheScreenUntilFormFeed
<1> DEFINE Back == con.lig >= NB_LIG /\ con'.lig < NB_LIG
                     => \E text \in Texts : /\ \E i \in DOMAIN text : text[i] = "ff"
                                            /\ con' = vprintf(con, text)
<1>1. ConInv /\ [ConNext]_conVars => [Back]_conVars
  <2> SUFFICES ASSUME ConInv, ConNext, con.lig >= NB_LIG, con'.lig < NB_LIG
               PROVE  \E text \in Texts : /\ \E i \in DOMAIN text : text[i] = "ff"
                                          /\ con' = vprintf(con, text)
    OBVIOUS
  <2>0. con.lig \in Nat /\ NB_LIG \in Nat
    BY ScreenSizes DEF ConInv, OnScreen
  <2>1. ConPrintf
    <3>1. CASE ConTic
      <4>1. con'.lig = con.lig
        BY <3>1, TicKeeps
      <4> QED  BY <2>0, <4>1
    <3> QED  BY <3>1 DEF ConNext
  <2>2. PICK text \in Texts : Fits(text) /\ con' = vprintf(con, text)
    BY <2>1 DEF ConPrintf
  <2>3. texts < MaxTexts /\ texts' = texts + 1 /\ UNCHANGED <<hour, min, sec, ticks>>
    BY <2>1 DEF ConPrintf
  <2>4. ConInv' /\ Treated(con, con', FormFeedIn(text))
    BY <2>2, <2>3, PrintfStep
  <2>5. con'.lig \in Nat
    BY <2>4 DEF ConInv, OnScreen
  <2>6. FormFeedIn(text)
    BY <2>0, <2>4, <2>5 DEF Treated
  <2> QED
    BY <2>2, <2>6 DEF FormFeedIn
<1> QED
  BY <1>1, InitConsole, NextConsole, PTL DEF ConSpec, BelowTheScreenUntilFormFeed

-----------------------------------------------------------------------------
(* The keyboard, for every set of keys, any number of strokes and any codes *)
(* lost.                                                                    *)

\* What is known of the driver's state whatever happens.
KbdShape(k) ==
  k \in [prev_scancode : {k.prev_scancode}, key_down : SUBSET AllKeys,
         k_down : [Modifiers -> Nat], shift_state : SUBSET Modifiers,
         npadch : {k.npadch}, rep : BOOLEAN, caps : BOOLEAN, num : {k.num},
         stopped : {k.stopped}, out : {k.out}, strays : [Modifiers -> Nat]]

\* The keys of a set that count for a modifier.
KeysIn(S, m) == {key \in S : ModifierOf(key) = m}

SameCounts(k, r) ==
  r.k_down = k.k_down /\ r.shift_state = k.shift_state /\ r.strays = k.strays

Recounted(k, r) ==
  /\ r.k_down = [m \in Modifiers |-> Cardinality(KeysIn(k.key_down, m))]
  /\ r.shift_state = {m \in Modifiers : KeysIn(k.key_down, m) # {}}
  /\ r.strays = [m \in Modifiers |-> 0]

LEMMA KeysForIn ==
  ASSUME NEW k, NEW m
  PROVE  KeysFor(k, m) = KeysIn(k.key_down, m)
BY DEF KeysFor, KeysIn

LEMMA FewKeys ==
  /\ IsFiniteSet(AllKeys)
  /\ \A S \in SUBSET AllKeys : IsFiniteSet(S) /\ Cardinality(S) \in 0 .. 200
<1> DEFINE T == 0 .. 119
<1>1. IsFiniteSet(T) /\ Cardinality(T) = 120
  <2>1. 0 \in Int /\ 119 \in Int
    OBVIOUS
  <2>2. IsFiniteSet(0 .. 119) /\ Cardinality(0 .. 119) = IF 0 > 119 THEN 0 ELSE 119 - 0 + 1
    BY <2>1, FS_Interval, Zenon
  <2> QED  BY <2>2
<1>2. AllKeys \subseteq T
  BY DEF AllKeys, Enter, LeftCtrl, LetterQ, LeftShift, RightShift, LeftAlt, CapsLock,
         NumLock, ScrollLock, Pad1, RightCtrl, AltGr, Pause
<1> HIDE DEF T
<1>3. ASSUME NEW S \in SUBSET AllKeys
      PROVE  IsFiniteSet(S) /\ Cardinality(S) \in 0 .. 200
  <2>1. IsFiniteSet(S) /\ Cardinality(S) <= Cardinality(T)
    BY <1>1, <1>2, FS_Subset
  <2>2. Cardinality(S) \in Nat
    BY <2>1, FS_CardinalityType
  <2> QED  BY <1>1, <2>1, <2>2
<1> QED
  BY <1>3

(* The keys of a modifier, with a key more and with a key less.            *)
LEMMA OneKeyMore ==
  ASSUME NEW S \in SUBSET AllKeys, NEW key \in AllKeys \ S, NEW m
  PROVE  /\ ModifierOf(key) # m => KeysIn(S \cup {key}, m) = KeysIn(S, m)
         /\ ModifierOf(key) = m =>
              Cardinality(KeysIn(S \cup {key}, m)) = Cardinality(KeysIn(S, m)) + 1
<1>1. CASE ModifierOf(key) # m
  BY <1>1 DEF KeysIn
<1>2. CASE ModifierOf(key) = m
  <2>1. KeysIn(S \cup {key}, m) = KeysIn(S, m) \cup {key} /\ key \notin KeysIn(S, m)
    BY <1>2 DEF KeysIn
  <2>2. IsFiniteSet(KeysIn(S, m))
    BY FewKeys DEF KeysIn
  <2> QED  BY <1>2, <2>1, <2>2, FS_AddElement
<1> QED
  BY <1>1, <1>2

LEMMA OneKeyLess ==
  ASSUME NEW S \in SUBSET AllKeys, NEW key \in S, NEW m
  PROVE  /\ ModifierOf(key) # m => KeysIn(S \ {key}, m) = KeysIn(S, m)
         /\ ModifierOf(key) = m =>
              Cardinality(KeysIn(S, m)) = Cardinality(KeysIn(S \ {key}, m)) + 1
<1>1. S \ {key} \in SUBSET AllKeys /\ key \in AllKeys \ (S \ {key}) /\ (S \ {key}) \cup {key} = S
  OBVIOUS
<1>2. /\ ModifierOf(key) # m =>
           KeysIn((S \ {key}) \cup {key}, m) = KeysIn(S \ {key}, m)
      /\ ModifierOf(key) = m =>
           Cardinality(KeysIn((S \ {key}) \cup {key}, m)) = Cardinality(KeysIn(S \ {key}, m)) + 1
  BY <1>1, OneKeyMore
<1> QED
  BY <1>1, <1>2

LEMMA CountOfKeys ==
  ASSUME NEW S \in SUBSET AllKeys, NEW m
  PROVE  /\ Cardinality(KeysIn(S, m)) \in 0 .. 200
         /\ (Cardinality(KeysIn(S, m)) = 0) = (KeysIn(S, m) = {})
<1>1. KeysIn(S, m) \in SUBSET AllKeys
  BY DEF KeysIn
<1> QED
  BY <1>1, FewKeys, FS_EmptySet

\* What the handlers tell apart in an entry of the map.
RightSym(sym, key) ==
  /\ IF ModifierOf(key) # "none"
     THEN ModifierOf(key) \in Modifiers /\ sym = <<"SHIFT", ModifierOf(key)>>
     ELSE sym[1] \in {"LETTER", "LATIN", "FN", "SPEC", "PAD", "META", "ASCII"}
  /\ (sym[1] = "SPEC" /\ sym[2] = "caps_toggle") = (key = CapsLock)

LEMMA RightSyms ==
  ASSUME NEW key \in AllKeys
  PROVE  /\ \A sym \in {plain_map(key), shift_map(key), altgr_map(key), ctrl_map(key),
                        altgr_ctrl_map(key), alt_map(key), ctrl_alt_map(key)} :
              RightSym(sym, key)
         /\ plain_map(key)[1] # "ASCII"
<1> USE DEF AllKeys, Enter, LeftCtrl, LetterQ, LeftShift, RightShift, LeftAlt, CapsLock,
            NumLock, ScrollLock, Pad1, RightCtrl, AltGr, Pause
<1> DEFINE m == ModifierOf(key)
           common == CommonSym(key)
<1>1. /\ m \in Modifiers \cup {"none"}
      /\ m # "none" => key \notin {LetterQ, Pad1, NumLock, ScrollLock, Enter, CapsLock,
                             Pause}
  BY DEF ModifierOf, Modifiers
<1>2. RightSym(common, key) /\ common[1] # "ASCII"
  <2>1. m # "none" => common = <<"SHIFT", m>>
    <3>1. m # "none" => key # CapsLock /\ key # Pause
      BY <1>1
    <3> QED  BY <3>1, Zenon DEF CommonSym
  <2>2. m = "none" => common = IF key = CapsLock THEN <<"SPEC", "caps_toggle">>
                               ELSE IF key = Pause THEN <<"FN", "pause">>
                               ELSE <<"SPEC", "null">>
    BY DEF CommonSym
  <2> HIDE DEF m, common
  <2> QED  BY <1>1, <2>1, <2>2 DEF RightSym, m
<1>3. ASSUME key \in {LetterQ, Pad1, NumLock, ScrollLock, Enter}
      PROVE  m = "none" /\ key # CapsLock
  BY <1>1, <1>3
<1> HIDE DEF m, common
<1>4. RightSym(plain_map(key), key) /\ plain_map(key)[1] # "ASCII"
  <2>1. CASE key \notin {LetterQ, Pad1, NumLock, ScrollLock, Enter}
    BY <1>2, <2>1 DEF plain_map, common
  <2>2. CASE key \in {LetterQ, Pad1, NumLock, ScrollLock, Enter}
    BY <1>3, <2>2 DEF plain_map, RightSym, m
  <2> QED  BY <2>1, <2>2
<1> DEFINE plain == plain_map(key)
<1> HIDE DEF plain
<1>5. RightSym(shift_map(key), key)
  BY <1>3, <1>4 DEF shift_map, RightSym, m, plain
<1>6. RightSym(altgr_map(key), key)
  BY <1>3, <1>4 DEF altgr_map, RightSym, m, plain
<1>7. RightSym(ctrl_map(key), key)
  BY <1>3, <1>4 DEF ctrl_map, RightSym, m, plain
<1>8. RightSym(altgr_ctrl_map(key), key)
  BY <1>2, <1>7 DEF altgr_ctrl_map, common
<1>9. RightSym(alt_map(key), key)
  BY <1>3, <1>4 DEF alt_map, RightSym, m, plain
<1>10. RightSym(ctrl_alt_map(key), key)
  <2>1. CASE key = ScrollLock
    BY <1>2, <2>1 DEF ctrl_alt_map, common
  <2>2. CASE key = LetterQ
    BY <1>3, <2>2 DEF ctrl_alt_map, RightSym, m
  <2>3. CASE key \notin {ScrollLock, LetterQ}
    BY <1>4, <2>3 DEF ctrl_alt_map
  <2> QED  BY <2>1, <2>2, <2>3
<1> QED
  BY <1>4, <1>5, <1>6, <1>7, <1>8, <1>9, <1>10

LEMMA SymOf ==
  ASSUME NEW key \in AllKeys, NEW mods \in key_maps
  PROVE  RightSym(KeySym(mods, key), key) /\ (KeySym(mods, key)[1] = "ASCII" => mods # {})
<1> DEFINE sym == KeySym(mods, key)
<1>1. /\ sym \in {plain_map(key), shift_map(key), altgr_map(key), ctrl_map(key),
                  altgr_ctrl_map(key), alt_map(key), ctrl_alt_map(key)}
      /\ mods = {} => sym = plain_map(key)
  BY DEF KeySym, key_maps
<1> HIDE DEF sym
<1> QED
  BY <1>1, RightSyms DEF sym

\* What no handler of a key changes.
KeepsRest(k, r) ==
  /\ KbdShape(r)
  /\ r.prev_scancode = k.prev_scancode /\ r.key_down = k.key_down

\* The number of presses of a modifier after one of its keys has moved.
ShiftCount(n, up) == IF up THEN (IF n > 0 THEN n - 1 ELSE 0) ELSE (n + 1) % 256

Shifted(k, r, m, up) ==
  LET count == ShiftCount(k.k_down[m], up) IN
  /\ r.k_down = [k.k_down EXCEPT ![m] = count]
  /\ r.shift_state = IF count > 0 THEN k.shift_state \cup {m} ELSE k.shift_state \ {m}
  /\ r.strays = k.strays

LEMMA ShiftCountNat ==
  ASSUME NEW n \in Nat, NEW up
  PROVE  ShiftCount(n, up) \in Nat
BY DEF ShiftCount

LEMMA SendsPadNumber ==
  ASSUME NEW k, KbdShape(k), NEW up \in BOOLEAN, NEW old
  PROVE  LET r == SendPadNumber(k, up, old)
         IN  /\ KeepsRest(k, r) /\ SameCounts(k, r) /\ r.caps = k.caps
             /\ \/ r.npadch = -1
                \/ r.npadch = k.npadch /\ ~ (up /\ k.shift_state # old)
BY DEF SendPadNumber, put_queue, KeepsRest, KbdShape, SameCounts

LEMMA DoShift ==
  ASSUME NEW k, KbdShape(k), NEW m \in Modifiers, NEW up \in BOOLEAN
  PROVE  LET r == do_shift(k, m, up)
         IN  /\ KeepsRest(k, r) /\ r.caps = k.caps
             /\ IF k.rep THEN SameCounts(k, r) ELSE Shifted(k, r, m, up)
             /\ \/ r.npadch = -1
                \/ r.npadch = k.npadch /\ ~ (up /\ r.shift_state # k.shift_state)
<1> DEFINE count == ShiftCount(k.k_down[m], up)
           state == IF count > 0 THEN k.shift_state \cup {m} ELSE k.shift_state \ {m}
           j == [k EXCEPT !.k_down[m] = count, !.shift_state = state]
           r == do_shift(k, m, up)
<1>1. count \in Nat /\ k.shift_state \in SUBSET Modifiers
  <2>1. k.k_down[m] \in Nat /\ k.shift_state \in SUBSET Modifiers
    BY DEF KbdShape
  <2> QED  BY <2>1, ShiftCountNat
<1>2. r = IF k.rep THEN k ELSE SendPadNumber(j, up, k.shift_state)
  BY Zenon DEF do_shift, ShiftCount
<1>3. CASE k.rep
  <2>1. r = k
    BY <1>2, <1>3
  <2> QED  BY <1>3, <2>1 DEF KeepsRest, SameCounts
<1>4. CASE ~ k.rep
  <2>1. state \in SUBSET Modifiers
    BY <1>1
  <2>2. state = IF count > 0 THEN k.shift_state \cup {m} ELSE k.shift_state \ {m}
    OBVIOUS
  <2>3. r = SendPadNumber(j, up, k.shift_state)
    BY <1>2, <1>4
  <2>4. j = [k EXCEPT !.k_down = [k.k_down EXCEPT ![m] = count], !.shift_state = state]
    BY DEF KbdShape
  <2> HIDE DEF state, count, j
  <2>5. /\ KbdShape(j) /\ KeepsRest(k, j) /\ j.caps = k.caps /\ j.npadch = k.npadch
        /\ j.k_down = [k.k_down EXCEPT ![m] = count] /\ j.shift_state = state
        /\ j.strays = k.strays
    BY <1>1, <2>1, <2>4 DEF KbdShape, KeepsRest
  <2>6. /\ KeepsRest(j, r) /\ SameCounts(j, r) /\ r.caps = j.caps
        /\ \/ r.npadch = -1
           \/ r.npadch = j.npadch /\ ~ (up /\ j.shift_state # k.shift_state)
    BY <2>3, <2>5, SendsPadNumber
  <2>7. KeepsRest(k, r)
    BY <2>5, <2>6 DEF KeepsRest
  <2> HIDE DEF r
  <2>8. Shifted(k, r, m, up)
    BY <2>2, <2>5, <2>6 DEF Shifted, SameCounts, count
  <2> QED  BY <1>4, <2>5, <2>6, <2>7, <2>8 DEF r, SameCounts
<1> QED
  BY <1>3, <1>4

LEMMA Recounts ==
  ASSUME NEW k, KbdShape(k)
  PROVE  LET r == compute_shiftstate(k)
         IN  KeepsRest(k, r) /\ Recounted(k, r) /\ r.caps = k.caps /\ r.npadch = k.npadch
<1> DEFINE counts == [m \in Modifiers |-> Cardinality(KeysIn(k.key_down, m))]
           state == {m \in Modifiers : KeysIn(k.key_down, m) # {}}
           none == [m \in Modifiers |-> 0]
           r == compute_shiftstate(k)
<1>1. r = [k EXCEPT !.k_down = counts, !.shift_state = state, !.strays = none]
  BY DEF compute_shiftstate, KeysFor, KeysIn
<1>2. k.key_down \in SUBSET AllKeys
  BY DEF KbdShape
<1>3. counts \in [Modifiers -> Nat] /\ state \in SUBSET Modifiers /\ none \in [Modifiers -> Nat]
  BY <1>2, CountOfKeys
<1>4. Recounted(k, [k_down |-> counts, shift_state |-> state, strays |-> none])
  BY DEF Recounted
<1> HIDE DEF counts, state, none
<1>5. /\ KeepsRest(k, r) /\ r.caps = k.caps /\ r.npadch = k.npadch
      /\ r.k_down = counts /\ r.shift_state = state /\ r.strays = none
  BY <1>1, <1>3 DEF KbdShape, KeepsRest
<1> HIDE DEF r
<1> QED
  BY <1>4, <1>5 DEF Recounted, r

LEMMA OtherKeys ==
  ASSUME NEW k, KbdShape(k), NEW up \in BOOLEAN, NEW value,
         NEW type \in {"LATIN", "FN", "SPEC", "PAD", "META", "ASCII"}
  PROVE  LET r == key_handler(k, type, value, up)
         IN  /\ KeepsRest(k, r) /\ (SameCounts(k, r) \/ Recounted(k, r))
             /\ r.npadch = k.npadch \/ (type = "ASCII" /\ SameCounts(k, r))
             /\ r.caps = IF type = "SPEC" /\ value = "caps_toggle" /\ ~ up /\ ~ k.rep
                         THEN ~ k.caps ELSE k.caps
<1> DEFINE r == key_handler(k, type, value, up)
           Goal(x) == /\ KeepsRest(k, x) /\ (SameCounts(k, x) \/ Recounted(k, x))
                      /\ x.npadch = k.npadch \/ (type = "ASCII" /\ SameCounts(k, x))
                      /\ x.caps = IF type = "SPEC" /\ value = "caps_toggle" /\ ~ up /\ ~ k.rep
                                  THEN ~ k.caps ELSE k.caps
<1>1. KeepsRest(k, k) /\ SameCounts(k, k)
  BY DEF KeepsRest, SameCounts
<1>2. ASSUME NEW c
      PROVE  LET x == put_queue(k, c)
             IN  KeepsRest(k, x) /\ SameCounts(k, x) /\ x.npadch = k.npadch /\ x.caps = k.caps
  BY DEF put_queue, KbdShape, KeepsRest, SameCounts
<1>3. CASE type = "LATIN"
  <2>1. r = do_self(k, value, up)
    BY <1>3 DEF key_handler
  <2>2. r = IF up THEN k ELSE put_queue(k, value)
    BY <2>1, Zenon DEF do_self
  <2> HIDE DEF r
  <2>3. Goal(r)
    BY <1>1, <1>2, <1>3, <2>2
  <2> QED  BY <2>3 DEF r
<1>4. CASE type = "FN"
  <2>1. r = do_fn(k, value, up)
    BY <1>4 DEF key_handler
  <2>2. r = IF up THEN k ELSE put_queue(k, value)
    BY <2>1, Zenon DEF do_fn
  <2> HIDE DEF r
  <2>3. Goal(r)
    BY <1>1, <1>2, <1>4, <2>2
  <2> QED  BY <2>3 DEF r
<1>5. CASE type = "PAD"
  <2>1. r = do_pad(k, value, up)
    BY <1>5 DEF key_handler
  <2>2. r = IF up THEN k ELSE put_queue(k, IF k.num THEN value ELSE "END")
    BY <2>1, Zenon DEF do_pad
  <2> HIDE DEF r
  <2>3. Goal(r)
    BY <1>1, <1>2, <1>5, <2>2
  <2> QED  BY <2>3 DEF r
<1>6. CASE type = "META"
  <2>1. r = do_meta(k, value, up)
    BY <1>6 DEF key_handler
  <2> DEFINE first == put_queue(k, "ESC")
  <2>2. r = IF up THEN k ELSE put_queue(first, value)
    BY <2>1, Zenon DEF do_meta
  <2>3. LET x == put_queue(first, value)
        IN  KeepsRest(k, x) /\ SameCounts(k, x) /\ x.npadch = k.npadch /\ x.caps = k.caps
    BY DEF put_queue, KbdShape, KeepsRest, SameCounts
  <2> HIDE DEF r, first
  <2>4. Goal(r)
    BY <1>1, <1>6, <2>2, <2>3
  <2> QED  BY <2>4 DEF r
<1>7. CASE type = "ASCII"
  <2>1. r = do_ascii(k, value, up)
    BY <1>7 DEF key_handler
  <2>2. r = k \/ \E n : r = [k EXCEPT !.npadch = n]
    BY <2>1 DEF do_ascii
  <2> HIDE DEF r
  <2>3. KeepsRest(k, r) /\ SameCounts(k, r) /\ r.caps = k.caps
    BY <2>2 DEF KbdShape, KeepsRest, SameCounts
  <2>4. Goal(r)
    BY <1>7, <2>3
  <2> QED  BY <2>4 DEF r
<1>8. CASE type = "SPEC"
  <2>1. r = do_spec(k, value, up)
    BY <1>8 DEF key_handler
  <2>2. CASE up
    <3>1. r = k
      BY <2>1, <2>2 DEF do_spec
    <3> QED  BY <1>1, <1>8, <2>2, <3>1
  <2>3. CASE ~ up /\ value = "caps_toggle"
    <3>1. r = [k EXCEPT !.caps = IF k.rep THEN k.caps ELSE ~ k.caps]
      BY <2>1, <2>3 DEF do_spec
    <3> HIDE DEF r
    <3>2. /\ KeepsRest(k, r) /\ SameCounts(k, r) /\ r.npadch = k.npadch
          /\ r.caps = IF k.rep THEN k.caps ELSE ~ k.caps
      BY <3>1 DEF KbdShape, KeepsRest, SameCounts
    <3>3. Goal(r)
      BY <1>8, <2>3, <3>2
    <3> QED  BY <3>3 DEF r
  <2>4. CASE ~ up /\ value \in {"num", "hold", "enter"}
    <3>1. \/ \E b : r = [k EXCEPT !.num = b]
          \/ \E b : r = [k EXCEPT !.stopped = b]
          \/ \E c : r = put_queue(k, c)
      <4>1. CASE value = "num"
        <5>1. r = [k EXCEPT !.num = IF k.rep THEN k.num ELSE ~ k.num]
          BY <2>1, <2>4, <4>1 DEF do_spec
        <5> QED  BY <5>1, Zenon
      <4>2. CASE value = "hold"
        <5>1. r = [k EXCEPT !.stopped = IF k.rep THEN k.stopped ELSE ~ k.stopped]
          BY <2>1, <2>4, <4>2 DEF do_spec
        <5> QED  BY <5>1, Zenon
      <4>3. CASE value = "enter"
        <5>1. r = put_queue(k, "\r")
          BY <2>1, <2>4, <4>3 DEF do_spec
        <5> QED  BY <5>1, Zenon
      <4> QED  BY <2>4, <4>1, <4>2, <4>3
    <3> HIDE DEF r
    <3>2. KeepsRest(k, r) /\ SameCounts(k, r) /\ r.npadch = k.npadch /\ r.caps = k.caps
      BY <1>2, <3>1 DEF KbdShape, KeepsRest, SameCounts
    <3>3. Goal(r)
      BY <2>4, <3>2
    <3> QED  BY <3>3 DEF r
  <2>5. CASE ~ up /\ value = "null"
    <3>1. r = compute_shiftstate(k)
      BY <2>1, <2>5 DEF do_spec
    <3> HIDE DEF r
    <3>2. KeepsRest(k, r) /\ Recounted(k, r) /\ r.caps = k.caps /\ r.npadch = k.npadch
      BY <3>1, Recounts
    <3>3. Goal(r)
      BY <2>5, <3>2
    <3> QED  BY <3>3 DEF r
  <2>6. CASE ~ up /\ value \notin {"caps_toggle", "num", "hold", "enter", "null"}
    <3>1. r = k
      BY <2>1, <2>6 DEF do_spec
    <3> HIDE DEF r
    <3>2. Goal(r)
      BY <1>1, <2>6, <3>1
    <3> QED  BY <3>2 DEF r
  <2> QED  BY <2>2, <2>3, <2>4, <2>5, <2>6
<1> QED
  BY <1>3, <1>4, <1>5, <1>6, <1>7, <1>8

\* What a key does to the modifiers, CapsLock and the number on the keypad.
Handled(k, r, key, up) ==
  /\ KeepsRest(k, r)
  /\ k.shift_state \notin key_maps =>
       Recounted(k, r) /\ r.npadch = k.npadch
  /\ k.shift_state \in key_maps /\ ModifierOf(key) # "none" =>
       /\ IF k.rep THEN SameCounts(k, r) ELSE Shifted(k, r, ModifierOf(key), up)
       /\ \/ r.npadch = -1
          \/ r.npadch = k.npadch /\ ~ (up /\ r.shift_state # k.shift_state)
  /\ k.shift_state \in key_maps /\ ModifierOf(key) = "none" =>
       /\ SameCounts(k, r) \/ Recounted(k, r)
       /\ r.npadch = k.npadch \/ (SameCounts(k, r) /\ k.shift_state # {})
  /\ r.caps = IF key = CapsLock /\ ~ up /\ ~ k.rep /\ k.shift_state \in key_maps
              THEN ~ k.caps ELSE k.caps

LEMMA HandleKeys ==
  ASSUME NEW k, KbdShape(k), NEW key \in AllKeys, NEW up \in BOOLEAN
  PROVE  Handled(k, HandleKey(k, key, up), key, up)
<1> DEFINE mods == k.shift_state
           sym == KeySym(mods, key)
           r == HandleKey(k, key, up)
<1>0. CapsLock = 58 /\ ModifierOf(CapsLock) = "none"
  BY DEF ModifierOf, CapsLock, LeftShift, RightShift, LeftCtrl, RightCtrl, LeftAlt, AltGr
<1>1. CASE mods \notin key_maps
  <2>1. r = compute_shiftstate(k)
    BY <1>1 DEF HandleKey
  <2> HIDE DEF r
  <2>2. KeepsRest(k, r) /\ Recounted(k, r) /\ r.caps = k.caps /\ r.npadch = k.npadch
    BY <2>1, Recounts
  <2>3. Handled(k, r, key, up)
    BY <1>1, <2>2 DEF Handled
  <2> QED  BY <2>3 DEF r
<1>2. CASE mods \in key_maps
  <2>1. RightSym(sym, key) /\ (sym[1] = "ASCII" => mods # {})
    BY <1>2, SymOf
  <2>2. r = IF sym[1] = "LETTER"
            THEN key_handler(k, "LATIN", LetterSym(k, mods, key)[2], up)
            ELSE key_handler(k, sym[1], sym[2], up)
    BY <1>2, Zenon DEF HandleKey
  <2> HIDE DEF sym, r
  <2>3. CASE ModifierOf(key) # "none"
    <3> DEFINE m == ModifierOf(key)
    <3>1. m \in Modifiers /\ sym = <<"SHIFT", m>>
      BY <2>1, <2>3 DEF RightSym
    <3> HIDE DEF m
    <3>2. r = key_handler(k, "SHIFT", m, up)
      BY <2>2, <3>1
    <3>3. r = do_shift(k, m, up)
      BY <3>2 DEF key_handler
    <3>4. /\ KeepsRest(k, r) /\ r.caps = k.caps
          /\ IF k.rep THEN SameCounts(k, r) ELSE Shifted(k, r, m, up)
          /\ \/ r.npadch = -1
             \/ r.npadch = k.npadch /\ ~ (up /\ r.shift_state # k.shift_state)
      BY <3>1, <3>3, DoShift
    <3>5. key # CapsLock
      BY <1>0, <2>3
    <3>6. Handled(k, r, key, up)
      BY <1>2, <2>3, <3>4, <3>5, Zenon DEF Handled, m
    <3> QED  BY <3>6 DEF r
  <2>4. CASE ModifierOf(key) = "none"
    <3>1. /\ sym[1] \in {"LETTER", "LATIN", "FN", "SPEC", "PAD", "META", "ASCII"}
          /\ (sym[1] = "SPEC" /\ sym[2] = "caps_toggle") = (key = CapsLock)
      BY <2>1, <2>4 DEF RightSym
    <3> DEFINE type == IF sym[1] = "LETTER" THEN "LATIN" ELSE sym[1]
               value == IF sym[1] = "LETTER" THEN LetterSym(k, mods, key)[2] ELSE sym[2]
    <3>2. r = key_handler(k, type, value, up)
      BY <2>2
    <3>3. /\ type \in {"LATIN", "FN", "SPEC", "PAD", "META", "ASCII"}
          /\ (type = "SPEC" /\ value = "caps_toggle") = (key = CapsLock)
          /\ type = "ASCII" => mods # {}
      BY <2>1, <3>1
    <3> HIDE DEF type, value
    <3>4. /\ KeepsRest(k, r) /\ (SameCounts(k, r) \/ Recounted(k, r))
          /\ r.npadch = k.npadch \/ (type = "ASCII" /\ SameCounts(k, r))
          /\ r.caps = IF type = "SPEC" /\ value = "caps_toggle" /\ ~ up /\ ~ k.rep
                      THEN ~ k.caps ELSE k.caps
      BY <3>2, <3>3, OtherKeys
    <3>5. r.caps = IF key = CapsLock /\ ~ up /\ ~ k.rep THEN ~ k.caps ELSE k.caps
      BY <3>3, <3>4
    <3>6. Handled(k, r, key, up)
      BY <1>2, <2>4, <3>3, <3>4, <3>5 DEF Handled
    <3> QED  BY <3>6 DEF r
  <2> QED  BY <2>3, <2>4
<1> QED
  BY <1>1, <1>2

\* The state in which a key is handled: it is down, or up, already.
Moved(k, d, key, up) ==
  /\ KbdShape(d)
  /\ d.prev_scancode = k.prev_scancode /\ d.k_down = k.k_down
  /\ d.shift_state = k.shift_state /\ d.npadch = k.npadch /\ d.caps = k.caps
  /\ d.key_down = IF up THEN k.key_down \ {key} ELSE k.key_down \cup {key}
  /\ d.rep = (~ up /\ key \in k.key_down)
  /\ LET stray == up /\ key \notin k.key_down /\ key >= SC_LIM
     IN  d.strays = [m \in Modifiers |-> IF stray /\ m = ModifierOf(key)
                                         THEN k.strays[m] + 1 ELSE k.strays[m]]

LEMMA KeyEvents ==
  ASSUME NEW k, KbdShape(k), NEW key \in AllKeys, NEW up \in BOOLEAN
  PROVE  \E d : /\ Moved(k, d, key, up)
                /\ Handled(d, KeyEvent(k, key, up), key,
                           up /\ (key \in k.key_down \/ (key < SC_LIM /\ key # 85)))
<1> DEFINE unexpected == up /\ key \notin k.key_down
           as_up == IF unexpected THEN kbd_unexpected_up(key) ELSE up
           stray == unexpected /\ key >= SC_LIM
           keys == IF up THEN k.key_down \ {key} ELSE k.key_down \cup {key}
           rep == ~ up /\ key \in k.key_down
           strays == [m \in Modifiers |-> IF stray /\ m = ModifierOf(key)
                                          THEN k.strays[m] + 1 ELSE k.strays[m]]
           d == [k EXCEPT !.key_down = keys, !.rep = rep, !.strays = strays]
<1>1. KeyEvent(k, key, up) = HandleKey(d, key, as_up)
  BY Zenon DEF KeyEvent
<1>2. keys \in SUBSET AllKeys /\ rep \in BOOLEAN /\ as_up \in BOOLEAN
  BY DEF KbdShape, kbd_unexpected_up
<1>3. strays \in [Modifiers -> Nat]
  <2>1. k.strays \in [Modifiers -> Nat]
    BY DEF KbdShape
  <2> HIDE DEF stray
  <2> QED  BY <2>1
<1>4. as_up = (up /\ (key \in k.key_down \/ (key < SC_LIM /\ key # 85)))
  <2>1. key \in Nat /\ SC_LIM \in Nat
    BY DEF AllKeys, Enter, LeftCtrl, LetterQ, LeftShift, RightShift, LeftAlt, CapsLock,
           NumLock, ScrollLock, Pad1, RightCtrl, AltGr, Pause, SC_LIM
  <2>2. kbd_unexpected_up(key) = (key < SC_LIM /\ key # 85)
    BY <2>1 DEF kbd_unexpected_up
  <2> QED  BY <2>2
<1>5. LET st == up /\ key \notin k.key_down /\ key >= SC_LIM
      IN  strays = [m \in Modifiers |-> IF st /\ m = ModifierOf(key)
                                        THEN k.strays[m] + 1 ELSE k.strays[m]]
  BY Zenon
<1>6. /\ keys = IF up THEN k.key_down \ {key} ELSE k.key_down \cup {key}
      /\ rep = (~ up /\ key \in k.key_down)
  OBVIOUS
<1> HIDE DEF keys, rep, strays, as_up
<1>7. /\ KbdShape(d)
      /\ d.prev_scancode = k.prev_scancode /\ d.k_down = k.k_down
      /\ d.shift_state = k.shift_state /\ d.npadch = k.npadch /\ d.caps = k.caps
      /\ d.key_down = keys /\ d.rep = rep /\ d.strays = strays
  BY <1>2, <1>3 DEF KbdShape
<1> HIDE DEF d
<1>8. Moved(k, d, key, up)
  BY <1>5, <1>6, <1>7 DEF Moved
<1>9. Handled(d, HandleKey(d, key, as_up), key, as_up)
  BY <1>2, <1>7, HandleKeys
<1> QED
  BY <1>1, <1>4, <1>8, <1>9

\* A modifier is on as long as a press of one of its keys counts; the presses
\* that count are of keys taken for held and of stray releases.
OnWhileCounted(k) == \A m \in Modifiers : m \in k.shift_state <=> k.k_down[m] > 0

CountsExplained(k) ==
  /\ \A m \in Modifiers : k.k_down[m] <= Cardinality(KeysIn(k.key_down, m)) + k.strays[m]
  /\ OnWhileCounted(k)

\* The counts and the state are those of the keys that are down.
CountsExact(k) ==
  /\ k.k_down = [m \in Modifiers |-> Cardinality(KeysIn(k.key_down, m))]
  /\ k.shift_state = {m \in Modifiers : KeysIn(k.key_down, m) # {}}

\* Of a modifier of a key that moves.
LEMMA ShiftCounts ==
  ASSUME NEW n \in Nat
  PROVE  /\ n <= 200 => ShiftCount(n, FALSE) = n + 1
         /\ ShiftCount(n, FALSE) <= n + 1
         /\ ShiftCount(n, TRUE) <= n
         /\ n > 0 => ShiftCount(n, TRUE) = n - 1
         /\ n = 0 => ShiftCount(n, TRUE) = 0
<1>1. (n + 1) % 256 <= n + 1 /\ (n <= 200 => (n + 1) % 256 = n + 1)
  OBVIOUS
<1> QED
  BY <1>1 DEF ShiftCount

\* An event moves its key, and leaves the modifiers on while they are counted.
MovesKey(k, r, key, up) ==
  /\ OnWhileCounted(r)
  /\ r.key_down = IF up THEN k.key_down \ {key} ELSE k.key_down \cup {key}
  /\ r.prev_scancode = k.prev_scancode

LEMMA EventMovesKey ==
  ASSUME NEW k, KbdShape(k), OnWhileCounted(k), NEW key \in AllKeys, NEW up \in BOOLEAN
  PROVE  MovesKey(k, KeyEvent(k, key, up), key, up)
<1> DEFINE as_up == up /\ (key \in k.key_down \/ (key < SC_LIM /\ key # 85))
           r == KeyEvent(k, key, up)
<1>1. PICK d : Moved(k, d, key, up) /\ Handled(d, r, key, as_up)
  BY KeyEvents
<1> HIDE DEF r, as_up
<1>2. /\ KbdShape(d) /\ KbdShape(r) /\ r.key_down = d.key_down
      /\ d.k_down = k.k_down /\ d.shift_state = k.shift_state
      /\ d.key_down = IF up THEN k.key_down \ {key} ELSE k.key_down \cup {key}
      /\ r.prev_scancode = k.prev_scancode
  BY <1>1 DEF Handled, KeepsRest, Moved
<1>3. OnWhileCounted(d) /\ d.k_down \in [Modifiers -> Nat]
  BY <1>2 DEF OnWhileCounted, KbdShape
<1>4. ASSUME SameCounts(d, r)
      PROVE  OnWhileCounted(r)
  BY <1>3, <1>4 DEF SameCounts, OnWhileCounted
<1>5. ASSUME Recounted(d, r)
      PROVE  OnWhileCounted(r)
  <2> SUFFICES ASSUME NEW m \in Modifiers
               PROVE  m \in r.shift_state <=> r.k_down[m] > 0
    BY DEF OnWhileCounted
  <2> DEFINE n == Cardinality(KeysIn(d.key_down, m))
  <2>1. n \in 0 .. 200 /\ (n = 0) = (KeysIn(d.key_down, m) = {})
    <3>1. d.key_down \in SUBSET AllKeys
      BY <1>2 DEF KbdShape
    <3> QED  BY <3>1, CountOfKeys
  <2>2. r.k_down[m] = n /\ (m \in r.shift_state <=> KeysIn(d.key_down, m) # {})
    BY <1>5 DEF Recounted
  <2> HIDE DEF n
  <2> QED  BY <2>1, <2>2
<1>6. ASSUME NEW mine \in Modifiers, Shifted(d, r, mine, as_up)
      PROVE  OnWhileCounted(r)
  <2> DEFINE count == ShiftCount(d.k_down[mine], as_up)
  <2>1. /\ r.k_down = [d.k_down EXCEPT ![mine] = count]
        /\ r.shift_state = IF count > 0 THEN d.shift_state \cup {mine}
                           ELSE d.shift_state \ {mine}
    BY <1>6, Zenon DEF Shifted
  <2> HIDE DEF count
  <2> QED  BY <1>3, <2>1 DEF OnWhileCounted
<1>7. ModifierOf(key) \in Modifiers \cup {"none"}
  BY DEF ModifierOf, Modifiers
<1> QED
  BY <1>1, <1>2, <1>4, <1>5, <1>6, <1>7 DEF Handled, MovesKey, r

LEMMA EventExplained ==
  ASSUME NEW k, KbdShape(k), CountsExplained(k), NEW key \in AllKeys, NEW up \in BOOLEAN
  PROVE  KbdShape(KeyEvent(k, key, up)) /\ CountsExplained(KeyEvent(k, key, up))
<1> DEFINE as_up == up /\ (key \in k.key_down \/ (key < SC_LIM /\ key # 85))
           r == KeyEvent(k, key, up)
<1>1. PICK d : Moved(k, d, key, up) /\ Handled(d, r, key, as_up)
  BY KeyEvents
<1>2. KbdShape(r) /\ KbdShape(d) /\ r.key_down = d.key_down
  BY <1>1 DEF Handled, KeepsRest, Moved
<1> HIDE DEF r
<1> DEFINE Many(S, m) == Cardinality(KeysIn(S, m))
<1>3. /\ k.key_down \in SUBSET AllKeys /\ d.key_down \in SUBSET AllKeys
      /\ \A m \in Modifiers : /\ k.k_down[m] \in Nat /\ k.strays[m] \in Nat /\ r.strays[m] \in Nat
                              /\ Many(k.key_down, m) \in Nat /\ Many(d.key_down, m) \in Nat
                              /\ r.k_down[m] \in Nat
  <2>1. ASSUME NEW S \in SUBSET AllKeys, NEW m PROVE Many(S, m) \in Nat
    BY <2>1, CountOfKeys
  <2> HIDE DEF Many
  <2> QED  BY <1>2, <2>1 DEF KbdShape
<1>4. SUFFICES ASSUME NEW m \in Modifiers
               PROVE  r.k_down[m] <= Many(d.key_down, m) + r.strays[m]
  <2>1. OnWhileCounted(r)
    BY EventMovesKey DEF CountsExplained, MovesKey, r
  <2> QED  BY <1>2, <2>1 DEF CountsExplained, r
<1>5. k.k_down[m] <= Many(k.key_down, m) + k.strays[m]
  BY DEF CountsExplained
<1>6. CASE Recounted(d, r)
  <2>1. r.k_down[m] = Many(d.key_down, m) /\ r.strays[m] = 0
    BY <1>6 DEF Recounted
  <2> HIDE DEF Many
  <2> QED  BY <1>3, <2>1
<1> DEFINE mine == ModifierOf(key) = m
           extended == key >= SC_LIM
<1>7. /\ d.k_down = k.k_down
      /\ d.strays[m] = IF up /\ key \notin k.key_down /\ extended /\ mine
                       THEN k.strays[m] + 1 ELSE k.strays[m]
      /\ d.rep = (~ up /\ key \in k.key_down)
      /\ d.key_down = IF up THEN k.key_down \ {key} ELSE k.key_down \cup {key}
  BY <1>1 DEF Moved
<1>8. /\ ~ mine => Many(d.key_down, m) = Many(k.key_down, m)
      /\ mine /\ up /\ key \in k.key_down => Many(k.key_down, m) = Many(d.key_down, m) + 1
      /\ mine /\ ~ up /\ key \notin k.key_down => Many(d.key_down, m) = Many(k.key_down, m) + 1
      /\ (up <=> key \notin k.key_down) => Many(d.key_down, m) = Many(k.key_down, m)
  <2>1. CASE up /\ key \in k.key_down
    BY <1>3, <1>7, <2>1, OneKeyLess
  <2>2. CASE ~ up /\ key \notin k.key_down
    BY <1>3, <1>7, <2>2, OneKeyMore
  <2>3. CASE up <=> key \notin k.key_down
    <3>1. d.key_down = k.key_down
      BY <1>7, <2>3
    <3> QED  BY <2>3, <3>1
  <2> QED  BY <2>1, <2>2, <2>3
<1> DEFINE n == k.k_down[m]
           before == Many(k.key_down, m)
           after == Many(d.key_down, m)
           s == k.strays[m]
<1>9. /\ n \in Nat /\ before \in Nat /\ after \in Nat /\ s \in Nat
      /\ n <= before + s
  BY <1>3, <1>5
<1>10. CASE SameCounts(d, r) /\ (~ mine \/ d.rep)
  <2>1. r.k_down[m] = n /\ r.strays[m] = k.strays[m]
    BY <1>7, <1>10 DEF SameCounts
  <2>2. after = before
    <3>1. CASE ~ mine
      BY <1>8, <3>1
    <3>2. CASE d.rep
      <4>1. up <=> key \notin k.key_down
        BY <1>7, <3>2
      <4> QED  BY <1>8, <4>1
    <3> QED  BY <1>10, <3>1, <3>2
  <2> HIDE DEF Many, n
  <2> QED  BY <1>9, <2>1, <2>2
<1>11. CASE ~ d.rep /\ Shifted(d, r, ModifierOf(key), as_up)
  <2>1. /\ r.strays = d.strays
        /\ r.k_down[m] = IF mine THEN ShiftCount(n, as_up) ELSE n
    <3>1. d.k_down \in [Modifiers -> Nat]
      BY <1>2 DEF KbdShape
    <3> QED  BY <1>7, <1>11, <3>1 DEF Shifted
  <2>2. CASE ~ mine
    <3>1. r.k_down[m] = n /\ r.strays[m] = k.strays[m] /\ after = before
      BY <1>7, <1>8, <2>1, <2>2
    <3> HIDE DEF Many, n
    <3> QED  BY <1>9, <3>1
  <2>3. CASE mine
    <3>1. r.k_down[m] = ShiftCount(n, as_up) /\ r.strays[m] = d.strays[m]
      BY <2>1, <2>3
    <3>2. CASE up /\ key \in k.key_down
      <4>1. as_up = TRUE /\ before = after + 1 /\ r.strays[m] = k.strays[m]
        BY <1>7, <1>8, <2>3, <3>1, <3>2
      <4> HIDE DEF Many, n, as_up
      <4>2. r.k_down[m] = ShiftCount(n, TRUE)
        BY <3>1, <4>1
      <4>3. (n > 0 => ShiftCount(n, TRUE) = n - 1) /\ (n = 0 => ShiftCount(n, TRUE) = 0)
            /\ ShiftCount(n, TRUE) \in Nat
        BY <1>9, ShiftCounts, ShiftCountNat
      <4> DEFINE c == r.k_down[m]
      <4>4. (n > 0 => c = n - 1) /\ (n = 0 => c = 0) /\ c \in Nat
        BY <4>2, <4>3
      <4>5. before = after + 1
        BY <4>1
      <4> HIDE DEF c, before, after, s
      <4>6. c <= after + s
        BY <1>9, <4>4, <4>5
      <4> QED  BY <4>1, <4>6 DEF c, after, s
    <3>3. CASE up /\ key \notin k.key_down
      <4>1. after = before
        BY <1>8, <3>3
      <4>2. CASE as_up
        <5>1. r.k_down[m] = ShiftCount(n, TRUE) /\ ShiftCount(n, TRUE) <= n
              /\ ShiftCount(n, TRUE) \in Nat
          <6>1. as_up = TRUE
            BY <4>2
          <6> HIDE DEF as_up
          <6> QED  BY <1>9, <3>1, <6>1, ShiftCounts, ShiftCountNat
        <5>2. ~ extended
          BY <3>3, <4>2 DEF SC_LIM, AllKeys, Enter, LeftCtrl, LetterQ, LeftShift, RightShift,
             LeftAlt, CapsLock, NumLock, ScrollLock, Pad1, RightCtrl, AltGr, Pause
        <5>3. r.strays[m] = k.strays[m]
          BY <1>7, <3>1, <5>2
        <5> DEFINE c == r.k_down[m]
        <5>4. c <= n /\ c \in Nat
          BY <5>1
        <5> HIDE DEF Many, n, c, before, after, s
        <5>5. c <= after + s
          BY <1>9, <4>1, <5>4
        <5> QED  BY <5>3, <5>5 DEF c, after, s
      <4>3. CASE ~ as_up
        <5>1. r.k_down[m] = ShiftCount(n, FALSE) /\ ShiftCount(n, FALSE) <= n + 1
              /\ ShiftCount(n, FALSE) \in Nat
          <6>1. as_up = FALSE
            BY <4>3
          <6> HIDE DEF as_up
          <6> QED  BY <1>9, <3>1, <6>1, ShiftCounts, ShiftCountNat
        <5>2. extended
          BY <3>3, <4>3 DEF SC_LIM, AllKeys, Enter, LeftCtrl, LetterQ, LeftShift, RightShift,
             LeftAlt, CapsLock, NumLock, ScrollLock, Pad1, RightCtrl, AltGr, Pause
        <5>3. r.strays[m] = k.strays[m] + 1
          BY <1>7, <2>3, <3>1, <3>3, <5>2
        <5> DEFINE c == r.k_down[m]
        <5>4. c <= n + 1 /\ c \in Nat
          BY <5>1
        <5> HIDE DEF Many, n, c, before, after, s
        <5>5. c <= after + (s + 1)
          BY <1>9, <4>1, <5>4
        <5> QED  BY <5>3, <5>5 DEF c, after, s
      <4> QED  BY <4>2, <4>3
    <3>4. CASE ~ up
      <4>1. as_up = FALSE /\ key \notin k.key_down
        BY <1>7, <1>11, <3>4
      <4>2. after = before + 1 /\ r.strays[m] = k.strays[m]
        BY <1>7, <1>8, <2>3, <3>1, <3>4, <4>1
      <4> HIDE DEF Many, n, as_up
      <4>3. r.k_down[m] = ShiftCount(n, FALSE) /\ ShiftCount(n, FALSE) <= n + 1
            /\ ShiftCount(n, FALSE) \in Nat
        BY <1>9, <3>1, <4>1, ShiftCounts, ShiftCountNat
      <4> DEFINE c == r.k_down[m]
      <4>4. c <= n + 1 /\ c \in Nat
        BY <4>3
      <4>5. after = before + 1
        BY <4>2
      <4> HIDE DEF c, before, after, s
      <4>6. c <= after + s
        BY <1>9, <4>4, <4>5
      <4> QED  BY <4>2, <4>6 DEF c, after, s
    <3> QED  BY <3>2, <3>3, <3>4
  <2> QED  BY <2>2, <2>3
<1>12. ModifierOf(key) = "none" => ~ mine
  BY DEF Modifiers
<1> QED
  BY <1>1, <1>6, <1>10, <1>11, <1>12 DEF Handled

\* A number that waits has a modifier that is down.
PadNumberWaits(k) == k.npadch # -1 => k.shift_state # {}

\* Without a map there are several modifiers.
LEMMA NoMapIsSeveral ==
  ASSUME NEW mods \in SUBSET Modifiers, mods \notin key_maps, NEW m
  PROVE  \E other \in mods : other # m
<1> SUFFICES ASSUME mods \subseteq {m} PROVE FALSE
  OBVIOUS
<1>1. mods = {} \/ (mods = {m} /\ m \in Modifiers)
  OBVIOUS
<1> QED
  BY <1>1 DEF key_maps, Modifiers

(* The counts stay exact when every release was expected.                  *)
LEMMA EventCounts ==
  ASSUME NEW k, KbdShape(k), CountsExact(k), NEW key \in AllKeys, NEW up \in BOOLEAN,
         NEW d, Moved(k, d, key, up), NEW r, Handled(d, r, key, up),
         up => key \in k.key_down
  PROVE  CountsExact(r)
<1>1. /\ KbdShape(d) /\ d.k_down = k.k_down /\ d.shift_state = k.shift_state
      /\ d.key_down = IF up THEN k.key_down \ {key} ELSE k.key_down \cup {key}
      /\ d.rep = (~ up /\ key \in k.key_down)
      /\ r.key_down = d.key_down /\ KbdShape(r)
  BY DEF Moved, Handled, KeepsRest
<1> DEFINE Many(S, m) == Cardinality(KeysIn(S, m))
<1>3. ASSUME NEW S \in SUBSET AllKeys, NEW m
      PROVE  Many(S, m) \in 0 .. 200 /\ (Many(S, m) = 0) = (KeysIn(S, m) = {})
  BY <1>3, CountOfKeys
<1>4. k.key_down \in SUBSET AllKeys /\ d.key_down \in SUBSET AllKeys
  BY <1>1 DEF KbdShape
<1>5. /\ k.k_down = [m \in Modifiers |-> Many(k.key_down, m)]
      /\ k.shift_state = {m \in Modifiers : Many(k.key_down, m) # 0}
  BY <1>3, <1>4 DEF CountsExact
<1>6. SUFFICES /\ r.k_down = [m \in Modifiers |-> Many(d.key_down, m)]
               /\ r.shift_state = {m \in Modifiers : Many(d.key_down, m) # 0}
  <2>1. \A m : (Many(d.key_down, m) = 0) = (KeysIn(d.key_down, m) = {})
    BY <1>3, <1>4
  <2>2. {m \in Modifiers : Many(d.key_down, m) # 0}
          = {m \in Modifiers : KeysIn(d.key_down, m) # {}}
    <3> HIDE DEF Many
    <3> QED  BY <2>1
  <2> QED  BY <1>1, <2>2 DEF CountsExact
<1>7. CASE SameCounts(d, r) /\ (ModifierOf(key) = "none" \/ d.rep)
  <2>1. \A m \in Modifiers : Many(d.key_down, m) = Many(k.key_down, m)
    <3> SUFFICES ASSUME NEW m \in Modifiers PROVE Many(d.key_down, m) = Many(k.key_down, m)
      OBVIOUS
    <3>1. CASE d.rep
      <4>1. d.key_down = k.key_down
        BY <1>1, <3>1
      <4> QED  BY <4>1
    <3>2. CASE ~ d.rep
      <4>1. ModifierOf(key) # m
        BY <1>7, <3>2 DEF Modifiers
      <4>2. CASE up
        BY <1>1, <1>4, <4>1, <4>2, OneKeyLess
      <4>3. CASE ~ up
        <5>1. key \in AllKeys \ k.key_down /\ d.key_down = k.key_down \cup {key}
          BY <1>1, <3>2, <4>3
        <5>2. KeysIn(k.key_down \cup {key}, m) = KeysIn(k.key_down, m)
          BY <1>4, <4>1, <5>1, OneKeyMore
        <5> QED  BY <5>1, <5>2
      <4> QED  BY <4>2, <4>3
    <3> QED  BY <3>1, <3>2
  <2>2. r.k_down = k.k_down /\ r.shift_state = k.shift_state
    BY <1>1, <1>7 DEF SameCounts
  <2> HIDE DEF Many
  <2> QED  BY <1>5, <2>1, <2>2
<1>8. CASE ~ d.rep /\ ModifierOf(key) \in Modifiers /\ Shifted(d, r, ModifierOf(key), up)
  <2> DEFINE me == ModifierOf(key)
             n == Many(k.key_down, me)
             after == Many(d.key_down, me)
  <2>1. /\ up => n = after + 1
        /\ ~ up => after = n + 1
        /\ \A m \in Modifiers \ {me} : Many(d.key_down, m) = Many(k.key_down, m)
    <3>1. CASE up
      BY <1>1, <1>4, <3>1, OneKeyLess
    <3>2. CASE ~ up
      <4>1. key \in AllKeys \ k.key_down /\ d.key_down = k.key_down \cup {key}
        BY <1>1, <1>8, <3>2
      <4>2. \A m : /\ me # m => KeysIn(k.key_down \cup {key}, m) = KeysIn(k.key_down, m)
                   /\ me = m => Many(k.key_down \cup {key}, m) = Many(k.key_down, m) + 1
        BY <1>4, <4>1, OneKeyMore
      <4> QED  BY <3>2, <4>1, <4>2
    <3> QED  BY <3>1, <3>2
  <2>2. n \in 0 .. 200 /\ after \in 0 .. 200
    BY <1>3, <1>4
  <2>3. ShiftCount(n, up) = after
    <3>0. n \in Nat /\ n <= 200 /\ after \in Nat
      BY <2>2
    <3> HIDE DEF n, after
    <3>1. CASE up = TRUE
      <4>1. n > 0 /\ n - 1 = after
        BY <2>1, <3>0, <3>1
      <4>2. ShiftCount(n, TRUE) = n - 1
        BY <3>0, <4>1, ShiftCounts
      <4> QED  BY <3>1, <4>1, <4>2
    <3>2. CASE up = FALSE
      <4>1. n + 1 = after
        BY <2>1, <3>0, <3>2
      <4>2. ShiftCount(n, FALSE) = n + 1
        BY <3>0, ShiftCounts
      <4> QED  BY <3>2, <4>1, <4>2
    <3> QED  BY <3>1, <3>2
  <2>4. k.k_down[me] = n
    BY <1>5, <1>8
  <2>5. /\ r.k_down = [k.k_down EXCEPT ![me] = after]
        /\ r.shift_state = IF after > 0 THEN k.shift_state \cup {me} ELSE k.shift_state \ {me}
    <3> HIDE DEF n, after
    <3> QED  BY <1>1, <1>8, <2>3, <2>4, Zenon DEF Shifted
  <2>6. r.k_down = [m \in Modifiers |-> Many(d.key_down, m)]
    <3> HIDE DEF Many, n, me
    <3> QED  BY <1>5, <2>1, <2>5 DEF after
  <2>7. r.shift_state = {m \in Modifiers : Many(d.key_down, m) # 0}
    <3>1. me \in Modifiers /\ (after > 0) = (after # 0)
      BY <1>8, <2>2
    <3> HIDE DEF Many, n, me
    <3> QED  BY <1>5, <2>1, <2>5, <3>1 DEF after
  <2> QED  BY <2>6, <2>7
<1>9. ModifierOf(key) \in Modifiers \cup {"none"}
  BY DEF ModifierOf, Modifiers
<1>10. CASE Recounted(d, r)
  <2>1. \A m : (Many(d.key_down, m) = 0) = (KeysIn(d.key_down, m) = {})
    BY <1>3, <1>4
  <2>2. {m \in Modifiers : Many(d.key_down, m) # 0}
          = {m \in Modifiers : KeysIn(d.key_down, m) # {}}
    <3> HIDE DEF Many
    <3> QED  BY <2>1
  <2> QED  BY <1>10, <2>2 DEF Recounted
<1>11. CASE k.shift_state \notin key_maps
  BY <1>1, <1>10, <1>11 DEF Handled
<1>12. CASE k.shift_state \in key_maps /\ ModifierOf(key) = "none"
  <2>1. SameCounts(d, r) \/ Recounted(d, r)
    BY <1>1, <1>12 DEF Handled
  <2> QED  BY <1>7, <1>10, <1>12, <2>1
<1>13. CASE k.shift_state \in key_maps /\ ModifierOf(key) # "none"
  <2>1. IF d.rep THEN SameCounts(d, r) ELSE Shifted(d, r, ModifierOf(key), up)
    BY <1>1, <1>13 DEF Handled
  <2> QED  BY <1>7, <1>8, <1>9, <1>13, <2>1
<1> QED
  BY <1>11, <1>12, <1>13

\* An event as the keyboard means it.
Exact(k, r, key, up) ==
  /\ KbdShape(r) /\ CountsExact(r) /\ PadNumberWaits(r)
  /\ r.prev_scancode = k.prev_scancode
  /\ r.key_down = IF up THEN k.key_down \ {key} ELSE k.key_down \cup {key}
  /\ r.caps = IF key = CapsLock /\ ~ up /\ key \notin k.key_down /\ k.shift_state \in key_maps
              THEN ~ k.caps ELSE k.caps

LEMMA EventExact ==
  ASSUME NEW k, KbdShape(k), CountsExact(k), PadNumberWaits(k),
         NEW key \in AllKeys, NEW up \in BOOLEAN, up => key \in k.key_down
  PROVE  Exact(k, KeyEvent(k, key, up), key, up)
<1> DEFINE r == KeyEvent(k, key, up)
<1>1. PICK d : Moved(k, d, key, up) /\ Handled(d, r, key, up)
  <2>1. (up /\ (key \in k.key_down \/ (key < SC_LIM /\ key # 85))) = up
    OBVIOUS
  <2> QED  BY <2>1, KeyEvents
<1> HIDE DEF r
<1>2. /\ d.prev_scancode = k.prev_scancode /\ d.shift_state = k.shift_state
      /\ d.npadch = k.npadch /\ d.caps = k.caps /\ d.rep = (~ up /\ key \in k.key_down)
      /\ d.key_down = IF up THEN k.key_down \ {key} ELSE k.key_down \cup {key}
      /\ KbdShape(r) /\ r.prev_scancode = d.prev_scancode /\ r.key_down = d.key_down
  BY <1>1 DEF Moved, Handled, KeepsRest
<1>3. CountsExact(r)
  BY <1>1, EventCounts
<1>4. r.caps = IF key = CapsLock /\ ~ up /\ ~ d.rep /\ d.shift_state \in key_maps
               THEN ~ d.caps ELSE d.caps
  BY <1>1, Zenon DEF Handled
<1>5. /\ k.shift_state = {m \in Modifiers : KeysIn(k.key_down, m) # {}}
      /\ r.shift_state = {m \in Modifiers : KeysIn(d.key_down, m) # {}}
  BY <1>2, <1>3 DEF CountsExact
<1>6. ASSUME NEW m \in k.shift_state, m # ModifierOf(key) \/ ~ up
      PROVE  m \in r.shift_state
  <2>1. m \in Modifiers /\ KeysIn(k.key_down, m) # {}
    BY <1>5
  <2>2. PICK x \in k.key_down : ModifierOf(x) = m
    BY <2>1 DEF KeysIn
  <2>3. x \in d.key_down
    BY <1>2, <1>6, <2>2
  <2> QED  BY <1>5, <2>1, <2>2, <2>3 DEF KeysIn
<1>7. ASSUME r.npadch # -1 PROVE r.shift_state # {}
  <2>1. CASE k.shift_state \notin key_maps
    <3>1. k.shift_state \in SUBSET Modifiers
      BY DEF KbdShape
    <3>2. PICK other \in k.shift_state : other # ModifierOf(key)
      BY <2>1, <3>1, NoMapIsSeveral
    <3> QED  BY <1>6, <3>2
  <2>2. CASE k.shift_state \in key_maps /\ ModifierOf(key) # "none"
    <3>1. r.npadch = k.npadch /\ ~ (up /\ r.shift_state # k.shift_state)
      BY <1>1, <1>2, <1>7, <2>2 DEF Handled
    <3>2. k.shift_state # {}
      BY <1>7, <3>1 DEF PadNumberWaits
    <3> QED  BY <1>6, <3>1, <3>2
  <2>3. CASE k.shift_state \in key_maps /\ ModifierOf(key) = "none"
    <3>1. r.npadch = k.npadch \/ k.shift_state # {}
      BY <1>1, <1>2, <2>3 DEF Handled
    <3>2. k.shift_state # {}
      BY <1>7, <3>1 DEF PadNumberWaits
    <3>3. \A m \in Modifiers : m # "none"
      BY DEF Modifiers
    <3>4. k.shift_state \subseteq Modifiers
      BY <1>5
    <3> QED  BY <1>6, <2>3, <3>2, <3>3, <3>4
  <2> QED  BY <2>1, <2>2, <2>3
<1>8. r.caps = IF key = CapsLock /\ ~ up /\ key \notin k.key_down /\ k.shift_state \in key_maps
               THEN ~ k.caps ELSE k.caps
  BY <1>2, <1>4
<1> QED
  BY <1>2, <1>3, <1>7, <1>8 DEF PadNumberWaits, Exact, r

-----------------------------------------------------------------------------
\* The codes of the line.
Codes == {E0, E1} \cup {key \in AllKeys : key < SC_LIM}
                  \cup {key + 128 : key \in {key \in AllKeys : key < SC_LIM}}

(* The codes of a single key are below the extended set.                   *)
LEMMA SmallKeys ==
  /\ AllKeys = {28, 29, 30, 42, 54, 56, 58, 69, 70, 79, 97, 100, 119}
  /\ {key \in AllKeys : key < SC_LIM} = {28, 29, 30, 42, 54, 56, 58, 69, 70, 79}
  /\ AllKeys \ {RightCtrl, AltGr, Pause} = {28, 29, 30, 42, 54, 56, 58, 69, 70, 79}
  /\ RightCtrl = 97 /\ AltGr = 100 /\ Pause = 119 /\ E0 = 224 /\ E1 = 225 /\ SC_LIM = 89
  /\ NoKey \notin AllKeys /\ NoKey = 0
  /\ CapsLock = 58
<1>1. AllKeys = {28, 29, 30, 42, 54, 56, 58, 69, 70, 79, 97, 100, 119}
  BY DEF AllKeys, Enter, LeftCtrl, LetterQ, LeftShift, RightShift, LeftAlt, CapsLock,
         NumLock, ScrollLock, Pad1, RightCtrl, AltGr, Pause
<1>2. /\ RightCtrl = 97 /\ AltGr = 100 /\ Pause = 119 /\ E0 = 224 /\ E1 = 225 /\ SC_LIM = 89
      /\ NoKey = 0 /\ CapsLock = 58
  BY DEF RightCtrl, AltGr, Pause, E0, E1, SC_LIM, NoKey, CapsLock
<1>3. {key \in AllKeys : key < SC_LIM} = {28, 29, 30, 42, 54, 56, 58, 69, 70, 79}
  BY <1>1, <1>2
<1>4. AllKeys \ {RightCtrl, AltGr, Pause} = {28, 29, 30, 42, 54, 56, 58, 69, 70, 79}
  BY <1>1, <1>2
<1> QED
  BY <1>1, <1>2, <1>3, <1>4

LEMMA TranslatedKey ==
  ASSUME NEW prev, NEW c \in Codes
  PROVE  LET t == kbd_translate(prev, c)
         IN  t = Translated(t.prev, t.key) /\ t.key \in AllKeys \cup {NoKey}
<1> DEFINE small == {28, 29, 30, 42, 54, 56, 58, 69, 70, 79}
           code == c % 128
           t == kbd_translate(prev, c)
<1>1. c \in {E0, E1} \/ code \in small
  BY SmallKeys DEF Codes
<1>2. e0_keys(code) \in AllKeys \cup {NoKey}
  BY SmallKeys DEF e0_keys
<1>3. /\ code \in small => code \in AllKeys
      /\ Pause \in AllKeys
  BY SmallKeys
<1> HIDE DEF code
<1>4. \E p : \E key \in AllKeys \cup {NoKey} : t = Translated(p, key)
  BY <1>1, <1>2, <1>3 DEF kbd_translate, code
<1> HIDE DEF t
<1> QED
  BY <1>4 DEF Translated, t

(* A code is taken for one of the keys that it may be.                     *)
LEMMA TakenFor ==
  ASSUME NEW prev, NEW c \in Codes
  PROVE  kbd_translate(prev, c).key \in MayBe(c) \cup {NoKey}
<1> DEFINE small == {28, 29, 30, 42, 54, 56, 58, 69, 70, 79}
           code == c % 128
           t == kbd_translate(prev, c)
<1>1. c \in {E0, E1} \/ code \in small
  BY SmallKeys DEF Codes
<1>2. /\ e0_keys(code) \in AllKeys \cup {NoKey} /\ Pause \in AllKeys
      /\ code \in small => code \in AllKeys
  BY SmallKeys DEF e0_keys
<1> HIDE DEF code, small
<1>3. MayBe(c) = {code, e0_keys(code), IF code = 69 THEN Pause ELSE NoKey} \cap AllKeys
  BY DEF MayBe, code
<1>4. \/ t.key = NoKey \/ t.key = e0_keys(code)
      \/ t.key = Pause /\ code = 69
      \/ t.key = code /\ c \notin {E0, E1}
  <2>1. \/ \E p : t = Translated(p, NoKey) \/ t = Translated(0, e0_keys(code))
        \/ t = Translated(0, Pause) /\ code = 69
        \/ t = Translated(0, code) /\ c \notin {E0, E1}
    BY DEF kbd_translate, code
  <2> HIDE DEF t
  <2> QED  BY <2>1 DEF Translated
<1> HIDE DEF t
<1> QED
  BY <1>1, <1>2, <1>3, <1>4 DEF t

(* The keys of some codes are those of the first and of the rest.          *)
LEMMA KeysOfCodes ==
  ASSUME NEW codes \in Seq(Codes)
  PROVE  /\ KeysOf(codes) \subseteq AllKeys
         /\ codes # <<>> => /\ MayBe(Head(codes)) \subseteq KeysOf(codes)
                            /\ KeysOf(Tail(codes)) \subseteq KeysOf(codes)
         /\ \A i \in 1 .. Len(codes) : MayBe(codes[i]) \subseteq KeysOf(codes)
<1>1. KeysOf(codes) \subseteq AllKeys
  BY DEF KeysOf, MayBe
<1>2. \A i \in 1 .. Len(codes) : MayBe(codes[i]) \subseteq KeysOf(codes)
  BY DEF KeysOf
<1>3. ASSUME codes # <<>>
      PROVE  /\ MayBe(Head(codes)) \subseteq KeysOf(codes)
             /\ KeysOf(Tail(codes)) \subseteq KeysOf(codes)
  <2>1. 1 \in 1 .. Len(codes) /\ Head(codes) = codes[1]
    BY <1>3
  <2>2. ASSUME NEW i \in 1 .. Len(Tail(codes))
        PROVE  Tail(codes)[i] = codes[i + 1] /\ i + 1 \in 1 .. Len(codes)
    BY <1>3
  <2>3. KeysOf(Tail(codes)) \subseteq KeysOf(codes)
    BY <1>2, <2>2 DEF KeysOf
  <2> QED  BY <1>2, <2>1, <2>3
<1> QED
  BY <1>1, <1>2, <1>3

\* What the codes that have not come will say of a key: the last code of every
\* key but Pause, which goes down and up in one stroke, ends the event.
Expects(p, codes, key, up) ==
  \/ /\ key \in AllKeys \ {RightCtrl, AltGr, Pause}
     /\ p = 0 /\ codes = <<IF up THEN key + 128 ELSE key>>
  \/ /\ key = RightCtrl
     /\ LET c == IF up THEN 29 + 128 ELSE 29
        IN  (p = 0 /\ codes = <<E0, c>>) \/ (p = E0 /\ codes = <<c>>)
  \/ /\ key = AltGr
     /\ LET c == IF up THEN 56 + 128 ELSE 56
        IN  (p = 0 /\ codes = <<E0, c>>) \/ (p = E0 /\ codes = <<c>>)
  \/ /\ key = Pause /\ ~ up
     /\ \/ p = 0 /\ codes = <<E1, 29, 69, E1, 29 + 128, 69 + 128>>
        \/ p = E1 /\ codes = <<29, 69, E1, 29 + 128, 69 + 128>>
        \/ p = 256 /\ codes = <<69, E1, 29 + 128, 69 + 128>>
  \/ /\ key = Pause /\ up
     /\ \/ p = 0 /\ codes = <<E1, 29 + 128, 69 + 128>>
        \/ p = E1 /\ codes = <<29 + 128, 69 + 128>>
        \/ p = 256 /\ codes = <<69 + 128>>

LEMMA StrokeExpected ==
  ASSUME NEW key \in AllKeys
  PROVE  Expects(0, Make(key), key, FALSE) /\ (key # Pause => Expects(0, Break(key), key, TRUE))
<1>1. CASE key \in AllKeys \ {RightCtrl, AltGr, Pause}
  <2>1. Make(key) = <<key>> /\ Break(key) = <<key + 128>>
    BY <1>1 DEF Make, Break
  <2> QED  BY <1>1, <2>1 DEF Expects
<1>2. CASE key = RightCtrl
  <2>1. Make(key) = <<E0, 29>> /\ Break(key) = <<E0, 29 + 128>>
    BY <1>2, SmallKeys DEF Make, Break
  <2> QED  BY <1>2, <2>1 DEF Expects
<1>3. CASE key = AltGr
  <2>1. Make(key) = <<E0, 56>> /\ Break(key) = <<E0, 56 + 128>>
    BY <1>3, SmallKeys DEF Make, Break
  <2> QED  BY <1>3, <2>1 DEF Expects
<1>4. CASE key = Pause
  <2>1. Make(key) = <<E1, 29, 69, E1, 29 + 128, 69 + 128>>
    BY <1>4, SmallKeys DEF Make
  <2> QED  BY <1>4, <2>1 DEF Expects
<1> QED
  BY <1>1, <1>2, <1>3, <1>4

LEMMA StrokeCodes ==
  ASSUME NEW key \in AllKeys
  PROVE  Make(key) \in Seq(Codes) /\ (key # Pause => Break(key) \in Seq(Codes))
<1>1. /\ E0 \in Codes /\ E1 \in Codes /\ 29 \in Codes /\ 56 \in Codes /\ 69 \in Codes
      /\ 29 + 128 \in Codes /\ 56 + 128 \in Codes /\ 69 + 128 \in Codes
      /\ key \notin {RightCtrl, AltGr, Pause} => key \in Codes /\ key + 128 \in Codes
  BY SmallKeys DEF Codes
<1> HIDE DEF Codes
<1>2. \A c \in Codes : <<c>> \in Seq(Codes) /\ <<E0, c>> \in Seq(Codes)
  BY <1>1
<1>3. <<E1, 29, 69, E1, 29 + 128, 69 + 128>> \in Seq(Codes)
  BY <1>1
<1> QED
  BY <1>1, <1>2, <1>3 DEF Make, Break

\* The next code is a prefix, or ends the event.
NextCode(p, codes, key, up) ==
  LET t == kbd_translate(p, Head(codes))
      rest == Tail(codes)
  IN  \/ t.key = NoKey /\ Expects(t.prev, rest, key, up)
      \/ /\ t.key = key /\ t.prev = 0 /\ (Head(codes) >= 128) = up
         /\ \/ rest = <<>> /\ (key = Pause => up)
            \/ key = Pause /\ ~ up /\ Expects(0, rest, Pause, TRUE)

LEMMA PrefixCode ==
  ASSUME NEW p, NEW codes, NEW key, NEW up \in BOOLEAN, NEW q, NEW rest,
         kbd_translate(p, Head(codes)) = Translated(q, NoKey), Tail(codes) = rest,
         Expects(q, rest, key, up)
  PROVE  NextCode(p, codes, key, up)
<1>1. /\ kbd_translate(p, Head(codes)).key = NoKey
      /\ kbd_translate(p, Head(codes)).prev = q
  BY DEF Translated
<1> QED
  BY <1>1, Zenon DEF NextCode

LEMMA LastCode ==
  ASSUME NEW p, NEW codes, NEW key, NEW up \in BOOLEAN,
         kbd_translate(p, Head(codes)) = Translated(0, key),
         (Head(codes) >= 128) = up,
         \/ Tail(codes) = <<>> /\ (key = Pause => up)
         \/ key = Pause /\ ~ up /\ Expects(0, Tail(codes), Pause, TRUE)
  PROVE  NextCode(p, codes, key, up)
<1>1. /\ kbd_translate(p, Head(codes)).key = key
      /\ kbd_translate(p, Head(codes)).prev = 0
  BY DEF Translated
<1> QED
  BY <1>1, Zenon DEF NextCode

\* The codes that are not of a single key.
LEMMA Translations ==
  /\ \A p : \A c \in {E0, E1} : kbd_translate(p, c) = Translated(c, NoKey)
  /\ \A c \in {29, 29 + 128} : kbd_translate(E0, c) = Translated(0, RightCtrl)
  /\ \A c \in {56, 56 + 128} : kbd_translate(E0, c) = Translated(0, AltGr)
  /\ \A c \in {29, 29 + 128} : kbd_translate(E1, c) = Translated(256, NoKey)
  /\ \A c \in {69, 69 + 128} : kbd_translate(256, c) = Translated(0, Pause)
<1>1. \A p : \A c \in {E0, E1} : kbd_translate(p, c) = Translated(c, NoKey)
  BY DEF kbd_translate
<1>2. ASSUME NEW c \in {29, 29 + 128, 56, 56 + 128, 69, 69 + 128}
      PROVE  /\ c \notin {E0, E1}
             /\ c \in {29, 29 + 128} => c % 128 = 29
             /\ c \in {56, 56 + 128} => c % 128 = 56
             /\ c \in {69, 69 + 128} => c % 128 = 69
  BY <1>2, SmallKeys
<1>3. E0 # E1 /\ E0 # 256 /\ 256 # E1 /\ e0_keys(29) = RightCtrl /\ e0_keys(56) = AltGr
  BY SmallKeys DEF e0_keys
<1>4. ASSUME NEW c \in {29, 29 + 128, 56, 56 + 128}
      PROVE  kbd_translate(E0, c) = Translated(0, e0_keys(c % 128))
  BY <1>2, <1>3, <1>4 DEF kbd_translate
<1>5. ASSUME NEW c \in {29, 29 + 128}
      PROVE  kbd_translate(E1, c) = Translated(256, NoKey)
  BY <1>2, <1>5 DEF kbd_translate
<1>6. ASSUME NEW c \in {69, 69 + 128}
      PROVE  kbd_translate(256, c) = Translated(0, Pause)
  <2>1. c \notin {E0, E1} /\ c % 128 = 69
    BY <1>2, <1>6
  <2> QED  BY <1>3, <2>1 DEF kbd_translate
<1> QED
  BY <1>1, <1>2, <1>3, <1>4, <1>5, <1>6

LEMMA ExpectedCode ==
  ASSUME NEW p, NEW codes, NEW key, NEW up \in BOOLEAN, Expects(p, codes, key, up)
  PROVE  NextCode(p, codes, key, up)
<1>0. ASSUME NEW a PROVE Head(<<a>>) = a /\ Tail(<<a>>) = <<>>
  OBVIOUS
<1>1. CASE key \in AllKeys \ {RightCtrl, AltGr, Pause}
  <2> DEFINE c == IF up THEN key + 128 ELSE key
  <2>1. p = 0 /\ codes = <<c>>
    BY <1>1, SmallKeys DEF Expects
  <2>2. Head(codes) = c /\ Tail(codes) = <<>>
    BY <2>1
  <2>3. key \in {28, 29, 30, 42, 54, 56, 58, 69, 70, 79}
    BY <1>1, SmallKeys
  <2>4. c \notin {E0, E1} /\ c % 128 = key /\ key < SC_LIM /\ (c >= 128) = up
    BY <2>3, SmallKeys
  <2>5. p \notin {E1, 256, E0}
    BY <2>1, SmallKeys
  <2> HIDE DEF c
  <2>6. kbd_translate(p, c) = Translated(0, key)
    BY <2>4, <2>5 DEF kbd_translate
  <2>7. kbd_translate(p, Head(codes)) = Translated(0, key) /\ (Head(codes) >= 128) = up
    BY <2>2, <2>4, <2>6, Zenon
  <2> QED
    BY <1>1, <2>2, <2>7, LastCode
<1>2. ASSUME NEW base \in {29, 56}, key = IF base = 29 THEN RightCtrl ELSE AltGr
      PROVE  NextCode(p, codes, key, up)
  <2> DEFINE c == IF up THEN base + 128 ELSE base
  <2>1. /\ (p = 0 /\ codes = <<E0, c>>) \/ (p = E0 /\ codes = <<c>>)
        /\ key # Pause
    BY <1>2, SmallKeys DEF Expects
  <2>2. kbd_translate(E0, c) = Translated(0, key) /\ (c >= 128) = up
    BY <1>2, Translations
  <2>3. Expects(E0, <<c>>, key, up)
    BY <1>2, SmallKeys DEF Expects
  <2> HIDE DEF c
  <2>4. CASE p = 0 /\ codes = <<E0, c>>
    <3>1. Head(codes) = E0 /\ Tail(codes) = <<c>>
      BY <2>4
    <3>2. kbd_translate(p, Head(codes)) = Translated(E0, NoKey)
      BY <3>1, Translations
    <3> QED  BY <2>3, <3>1, <3>2, PrefixCode, Zenon
  <2>5. CASE p = E0 /\ codes = <<c>>
    <3>1. Head(codes) = c /\ Tail(codes) = <<>>
      BY <2>5
    <3>2. kbd_translate(p, Head(codes)) = Translated(0, key) /\ (Head(codes) >= 128) = up
      BY <2>2, <2>5, <3>1, Zenon
    <3> QED  BY <2>1, <3>1, <3>2, LastCode, Zenon
  <2> QED  BY <2>1, <2>4, <2>5
<1>3. CASE key = Pause /\ up
  <2> DEFINE c == 29 + 128
             d == 69 + 128
  <2>1. /\ \/ p = 0 /\ codes = <<E1, c, d>>
           \/ p = E1 /\ codes = <<c, d>>
           \/ p = 256 /\ codes = <<d>>
        /\ Expects(E1, <<c, d>>, key, up) /\ Expects(256, <<d>>, key, up)
    BY <1>3, SmallKeys DEF Expects
  <2>2. /\ kbd_translate(p, E1) = Translated(E1, NoKey)
        /\ kbd_translate(E1, c) = Translated(256, NoKey)
        /\ kbd_translate(256, d) = Translated(0, Pause) /\ d >= 128
    BY Translations
  <2> HIDE DEF c, d
  <2>3. CASE p = 0 /\ codes = <<E1, c, d>>
    <3>1. Head(codes) = E1 /\ Tail(codes) = <<c, d>>
      BY <2>3
    <3> QED  BY <2>1, <2>2, <3>1, PrefixCode, Zenon
  <2>4. CASE p = E1 /\ codes = <<c, d>>
    <3>1. Head(codes) = c /\ Tail(codes) = <<d>>
      BY <2>4
    <3> QED  BY <2>1, <2>2, <2>4, <3>1, PrefixCode, Zenon
  <2>5. CASE p = 256 /\ codes = <<d>>
    <3>1. Head(codes) = d /\ Tail(codes) = <<>>
      BY <2>5
    <3>2. kbd_translate(p, Head(codes)) = Translated(0, key) /\ (Head(codes) >= 128) = up
      <4>1. (d >= 128) = up /\ key = Pause /\ p = 256
        BY <1>3, <2>2, <2>5
      <4> QED  BY <2>2, <3>1, <4>1, Zenon
    <3> QED  BY <1>3, <3>1, <3>2, LastCode, Zenon
  <2> QED  BY <2>1, <2>3, <2>4, <2>5
<1>4. CASE key = Pause /\ ~ up
  <2> DEFINE a == 29
             b == 69
             c == 29 + 128
             d == 69 + 128
  <2>1. /\ \/ p = 0 /\ codes = <<E1, a, b, E1, c, d>>
           \/ p = E1 /\ codes = <<a, b, E1, c, d>>
           \/ p = 256 /\ codes = <<b, E1, c, d>>
        /\ Expects(E1, <<a, b, E1, c, d>>, key, up) /\ Expects(256, <<b, E1, c, d>>, key, up)
        /\ Expects(0, <<E1, c, d>>, Pause, TRUE)
    BY <1>4, SmallKeys DEF Expects
  <2>2. /\ kbd_translate(p, E1) = Translated(E1, NoKey)
        /\ kbd_translate(E1, a) = Translated(256, NoKey)
        /\ kbd_translate(256, b) = Translated(0, Pause) /\ ~ (b >= 128)
    BY Translations
  <2> HIDE DEF a, b, c, d
  <2>3. CASE p = 0 /\ codes = <<E1, a, b, E1, c, d>>
    <3>1. Head(codes) = E1 /\ Tail(codes) = <<a, b, E1, c, d>>
      BY <2>3
    <3> QED  BY <2>1, <2>2, <3>1, PrefixCode, Zenon
  <2>4. CASE p = E1 /\ codes = <<a, b, E1, c, d>>
    <3>1. Head(codes) = a /\ Tail(codes) = <<b, E1, c, d>>
      BY <2>4
    <3> QED  BY <2>1, <2>2, <2>4, <3>1, PrefixCode, Zenon
  <2>5. CASE p = 256 /\ codes = <<b, E1, c, d>>
    <3>1. Head(codes) = b /\ Tail(codes) = <<E1, c, d>>
      BY <2>5
    <3>2. kbd_translate(p, Head(codes)) = Translated(0, key) /\ (Head(codes) >= 128) = up
      BY <1>4, <2>2, <2>5, <3>1
    <3>3. key = Pause /\ ~ up /\ Expects(0, Tail(codes), Pause, TRUE)
      BY <1>4, <2>1, <3>1, Zenon
    <3> QED  BY <3>2, <3>3, LastCode, Zenon
  <2> QED  BY <2>1, <2>3, <2>4, <2>5
<1>5. CASE key = RightCtrl
  <2>1. 29 \in {29, 56} /\ key = IF 29 = 29 THEN RightCtrl ELSE AltGr
    BY <1>5
  <2> QED  BY <1>2, <2>1
<1>6. CASE key = AltGr
  <2>1. 56 \in {29, 56} /\ key = IF 56 = 29 THEN RightCtrl ELSE AltGr
    BY <1>6
  <2> QED  BY <1>2, <2>1
<1>7. key \in AllKeys \ {RightCtrl, AltGr, Pause} \/ key \in {RightCtrl, AltGr, Pause}
  BY DEF Expects
<1> QED
  BY <1>1, <1>3, <1>5, <1>6, <1>7, <1>4

-----------------------------------------------------------------------------
\* What the codes to come will make of the driver's view of the keyboard.
Coming(k, key, up) ==
  /\ up => key \in k.key_down
  /\ key = Pause => up = (Pause \in k.key_down)
  /\ held = IF up THEN k.key_down \ {key}
            ELSE IF key = Pause THEN k.key_down ELSE k.key_down \cup {key}
  /\ locked = IF key = CapsLock /\ ~ up /\ key \notin k.key_down /\ k.shift_state \in key_maps
              THEN ~ k.caps ELSE k.caps

AtRest(k) == k.prev_scancode = 0 /\ k.key_down = held /\ k.caps = locked

\* Every code of the stroke is there, or all of them have been handled.
Along ==
  IF line = <<>> THEN AtRest(kbd)
  ELSE \E key \in AllKeys, up \in BOOLEAN :
         Expects(kbd.prev_scancode, line, key, up) /\ Coming(kbd, key, up)

\* The driver knows all the keys but some.
AgreeBut(S) == \A key \in AllKeys \ S : key \in kbd.key_down <=> key \in held

\* The codes of the line are of keys in doubt, or are the rest of a stroke that
\* came whole so far, after which its key is known.
Doubts ==
  \/ KeysOf(line) \subseteq doubted /\ AgreeBut(doubted)
  \/ \E key \in AllKeys, up \in BOOLEAN :
       /\ Expects(kbd.prev_scancode, line, key, up)
       /\ AgreeBut(doubted \cup {key})
       /\ key \in held <=> ~ up /\ key # Pause

KbdInv ==
  /\ KbdShape(kbd) /\ CountsExplained(kbd) /\ Doubts /\ doubted \in SUBSET AllKeys
  /\ line \in Seq(Codes) /\ held \in SUBSET (AllKeys \ {Pause}) /\ locked \in BOOLEAN
  /\ lost \in Nat
  /\ lost = 0 => CountsExact(kbd) /\ PadNumberWaits(kbd) /\ Along

LEMMA ExpectsSome ==
  ASSUME NEW p, NEW codes, NEW key, NEW up, Expects(p, codes, key, up)
  PROVE  codes # <<>>
<1>1. \/ \E a : codes = <<a>>
      \/ \E a, b : codes = <<a, b>>
      \/ \E a, b, c : codes = <<a, b, c>>
      \/ codes = <<69, E1, 29 + 128, 69 + 128>>
      \/ codes = <<29, 69, E1, 29 + 128, 69 + 128>>
      \/ codes = <<E1, 29, 69, E1, 29 + 128, 69 + 128>>
  BY ZenonT(60) DEF Expects
<1> QED
  BY <1>1

(* A key is one of those for which its codes can be taken.                 *)
LEMMA ExpectedKey ==
  ASSUME NEW p, NEW codes \in Seq(Codes), NEW key, NEW up \in BOOLEAN,
         Expects(p, codes, key, up)
  PROVE  key \in KeysOf(codes)
<1>1. \E i \in 1 .. Len(codes) : key \in MayBe(codes[i])
  <2>1. CASE key \in AllKeys \ {RightCtrl, AltGr, Pause}
    <3> DEFINE c == IF up THEN key + 128 ELSE key
    <3>1. codes = <<c>>
      BY <2>1, SmallKeys DEF Expects
    <3>2. c % 128 = key /\ key \in AllKeys
      BY <2>1, SmallKeys
    <3> HIDE DEF c
    <3>3. key \in MayBe(c)
      BY <3>2 DEF MayBe
    <3>4. Len(codes) = 1 /\ codes[1] = c
      BY <3>1
    <3> QED  BY <3>3, <3>4
  <2>2. ASSUME NEW base \in {29, 56}, key = IF base = 29 THEN RightCtrl ELSE AltGr
        PROVE  \E i \in 1 .. Len(codes) : key \in MayBe(codes[i])
    <3> DEFINE c == IF up THEN base + 128 ELSE base
    <3>1. codes = <<E0, c>> \/ codes = <<c>>
      BY <2>2, SmallKeys DEF Expects
    <3>2. c % 128 = base
      BY <2>2
    <3> HIDE DEF c
    <3>3. key \in MayBe(c)
      <4>1. key = e0_keys(base) /\ key \in AllKeys
        BY <2>2, SmallKeys DEF e0_keys
      <4> QED  BY <3>2, <4>1 DEF MayBe
    <3>4. (Len(codes) = 2 /\ codes[2] = c) \/ (Len(codes) = 1 /\ codes[1] = c)
      BY <3>1
    <3> QED  BY <3>3, <3>4
  <2>3. CASE key = Pause
    <3>1. \/ Len(codes) = 6 /\ codes[6] = 69 + 128
          \/ Len(codes) = 5 /\ codes[5] = 69 + 128
          \/ Len(codes) = 4 /\ codes[4] = 69 + 128
          \/ Len(codes) = 3 /\ codes[3] = 69 + 128
          \/ Len(codes) = 2 /\ codes[2] = 69 + 128
          \/ Len(codes) = 1 /\ codes[1] = 69 + 128
      <4>1. \/ codes = <<E1, 29, 69, E1, 29 + 128, 69 + 128>>
            \/ codes = <<29, 69, E1, 29 + 128, 69 + 128>>
            \/ codes = <<69, E1, 29 + 128, 69 + 128>>
            \/ codes = <<E1, 29 + 128, 69 + 128>>
            \/ codes = <<29 + 128, 69 + 128>>
            \/ codes = <<69 + 128>>
        BY <2>3, SmallKeys DEF Expects
      <4> QED  BY <4>1
    <3>2. (69 + 128) % 128 = 69
      OBVIOUS
    <3>3. Pause \in MayBe(69 + 128)
      BY <3>2, SmallKeys DEF MayBe
    <3> QED  BY <2>3, <3>1, <3>3
  <2>4. CASE key = RightCtrl
    <3>1. 29 \in {29, 56} /\ key = IF 29 = 29 THEN RightCtrl ELSE AltGr
      BY <2>4
    <3> QED  BY <2>2, <3>1
  <2>5. CASE key = AltGr
    <3>1. 56 \in {29, 56} /\ key = IF 56 = 29 THEN RightCtrl ELSE AltGr
      BY <2>5
    <3> QED  BY <2>2, <3>1
  <2>6. key \in AllKeys \ {RightCtrl, AltGr, Pause} \/ key \in {RightCtrl, AltGr, Pause}
    BY DEF Expects
  <2> QED  BY <2>1, <2>3, <2>4, <2>5, <2>6
<1> QED
  BY <1>1, KeysOfCodes

LEMMA InitKeyboard == KbdInit => KbdInv
<1> SUFFICES ASSUME KbdInit PROVE KbdInv
  OBVIOUS
<1>1. /\ kbd.prev_scancode = 0 /\ kbd.key_down = {} /\ kbd.k_down = [m \in Modifiers |-> 0]
      /\ kbd.shift_state = {} /\ kbd.npadch = -1 /\ kbd.caps = FALSE
      /\ kbd.strays = [m \in Modifiers |-> 0]
  BY DEF KbdInit
<1>2. KbdShape(kbd)
  BY DEF KbdInit, KbdShape
<1>3. \A m : KeysIn({}, m) = {} /\ Cardinality(KeysIn({}, m)) = 0
  <2>1. \A m : KeysIn({}, m) = {}
    BY DEF KeysIn
  <2> QED  BY <2>1, FS_EmptySet
<1>4. CountsExplained(kbd) /\ CountsExact(kbd) /\ PadNumberWaits(kbd)
  BY <1>1, <1>3 DEF CountsExplained, OnWhileCounted, CountsExact, PadNumberWaits
<1>5. line = <<>> /\ held = {} /\ locked = FALSE /\ lost = 0 /\ doubted = {}
  BY DEF KbdInit
<1>9. Doubts /\ doubted \in SUBSET AllKeys
  BY <1>1, <1>5 DEF Doubts, AgreeBut, KeysOf
<1>6. Along
  BY <1>1, <1>5 DEF Along, AtRest
<1>7. line \in Seq(Codes) /\ held \in SUBSET (AllKeys \ {Pause}) /\ lost \in Nat
  BY <1>5
<1>8. locked \in BOOLEAN
  BY <1>5, Zenon
<1> QED
  BY <1>2, <1>4, <1>6, <1>7, <1>8, <1>9, Zenon DEF KbdInv

\* The driver's state when it has looked at a prefix of a code.
LEMMA NextIs ==
  ASSUME NEW k, KbdShape(k), NEW p
  PROVE  LET n == [k EXCEPT !.prev_scancode = p, !.out = <<>>]
         IN  /\ KbdShape(n) /\ n.prev_scancode = p /\ n.key_down = k.key_down
             /\ n.k_down = k.k_down /\ n.shift_state = k.shift_state /\ n.npadch = k.npadch
             /\ n.caps = k.caps /\ n.strays = k.strays
BY DEF KbdShape

(* A code is handled.                                                      *)
LEMMA ScanStep == KbdInv /\ do_scancode => KbdInv'
<1> SUFFICES ASSUME KbdInv, do_scancode PROVE KbdInv'
  OBVIOUS
<1> DEFINE c == Head(line)
           t == kbd_translate(kbd.prev_scancode, c)
           n == [kbd EXCEPT !.prev_scancode = t.prev, !.out = <<>>]
<1>1. /\ line # <<>> /\ line' = Tail(line) /\ kbd' = handle_scancode(kbd, c)
      /\ UNCHANGED <<held, lost, locked, doubted>>
  BY DEF do_scancode
<1>2. /\ KbdShape(kbd) /\ CountsExplained(kbd) /\ line \in Seq(Codes) /\ lost \in Nat
      /\ lost = 0 => CountsExact(kbd) /\ PadNumberWaits(kbd) /\ Along
      /\ held \in SUBSET (AllKeys \ {Pause}) /\ locked \in BOOLEAN
      /\ Doubts /\ doubted \in SUBSET AllKeys
  BY DEF KbdInv
<1>3. c \in Codes /\ Tail(line) \in Seq(Codes)
  BY <1>1, <1>2
<1>4. t = Translated(t.prev, t.key) /\ t.key \in AllKeys \cup {NoKey}
  BY <1>3, TranslatedKey
<1>5. /\ KbdShape(n) /\ n.prev_scancode = t.prev /\ n.key_down = kbd.key_down
      /\ n.k_down = kbd.k_down /\ n.shift_state = kbd.shift_state /\ n.npadch = kbd.npadch
      /\ n.caps = kbd.caps /\ n.strays = kbd.strays
  BY <1>2, NextIs
<1>11. t.key \in MayBe(c) \cup {NoKey}
  BY <1>3, TakenFor
<1>6. kbd' = IF t.key = NoKey THEN n ELSE KeyEvent(n, t.key, c >= 128)
  BY <1>1, Zenon DEF handle_scancode
<1> HIDE DEF n, t, c
<1>7. CountsExplained(n) /\ (lost = 0 => CountsExact(n) /\ PadNumberWaits(n))
  BY <1>2, <1>5 DEF CountsExplained, OnWhileCounted, CountsExact, PadNumberWaits
<1>8. t.key # NoKey => t.key \in AllKeys
  BY <1>4
<1> DEFINE e == KeyEvent(n, t.key, c >= 128)
<1>9. KbdShape(kbd') /\ CountsExplained(kbd')
  <2>1. CASE t.key = NoKey
    BY <1>5, <1>6, <1>7, <2>1
  <2>2. CASE t.key # NoKey
    <3>1. (c >= 128) \in BOOLEAN
      OBVIOUS
    <3>2. KbdShape(e) /\ CountsExplained(e)
      BY <1>5, <1>7, <1>8, <2>2, <3>1, EventExplained
    <3> QED  BY <1>6, <2>2, <3>2
  <2> QED  BY <2>1, <2>2
<1>10. ASSUME lost = 0
       PROVE  CountsExact(kbd') /\ PadNumberWaits(kbd') /\ Along'
  <2>1. PICK key \in AllKeys, up \in BOOLEAN :
          Expects(kbd.prev_scancode, line, key, up) /\ Coming(kbd, key, up)
    BY <1>1, <1>2, <1>10 DEF Along
  <2>2. NextCode(kbd.prev_scancode, line, key, up)
    BY <2>1, ExpectedCode
  <2>3. CountsExact(n) /\ PadNumberWaits(n)
    BY <1>7, <1>10
  <2>4. NoKey \notin AllKeys
    BY SmallKeys
  <2>5. CASE t.key = NoKey /\ Expects(t.prev, Tail(line), key, up)
    <3>1. kbd' = n
      BY <1>6, <2>5
    <3>2. Tail(line) # <<>>
      BY <2>5, ExpectsSome
    <3>3. Coming(kbd, key, up)'
      BY <1>1, <1>5, <2>1, <3>1 DEF Coming
    <3>4. Expects(kbd'.prev_scancode, line', key, up)
      BY <1>1, <1>5, <2>5, <3>1
    <3>5. Along'
      BY <1>1, <3>2, <3>3, <3>4 DEF Along
    <3> QED  BY <2>3, <3>1, <3>5
  <2>6. CASE /\ t.key = key /\ t.prev = 0 /\ (c >= 128) = up
             /\ \/ Tail(line) = <<>> /\ (key = Pause => up)
                \/ key = Pause /\ ~ up /\ Expects(0, Tail(line), Pause, TRUE)
    <3>1. kbd' = KeyEvent(n, key, up)
      BY <1>6, <2>4, <2>6
    <3>2. up => key \in n.key_down
      BY <1>5, <2>1 DEF Coming
    <3>3. /\ CountsExact(kbd') /\ PadNumberWaits(kbd')
          /\ kbd'.prev_scancode = 0
          /\ kbd'.key_down = IF up THEN kbd.key_down \ {key} ELSE kbd.key_down \cup {key}
          /\ kbd'.caps = IF key = CapsLock /\ ~ up /\ key \notin kbd.key_down
                              /\ kbd.shift_state \in key_maps
                         THEN ~ kbd.caps ELSE kbd.caps
      <4> DEFINE r == KeyEvent(n, key, up)
      <4>0. key \in AllKeys /\ up \in BOOLEAN /\ KbdShape(n)
        BY <1>5
      <4>1. Exact(n, r, key, up)
        BY <2>3, <3>2, <4>0, EventExact, Zenon
      <4> HIDE DEF r
      <4>2. kbd' = r
        BY <3>1 DEF r
      <4> QED  BY <1>5, <2>6, <4>1, <4>2 DEF Exact
    <3>4. CASE Tail(line) = <<>> /\ (key = Pause => up)
      <4>1. AtRest(kbd)'
        BY <1>1, <2>1, <3>3, <3>4 DEF AtRest, Coming
      <4>2. Along'
        BY <1>1, <3>4, <4>1 DEF Along
      <4> QED  BY <3>3, <4>2
    <3>5. CASE key = Pause /\ ~ up /\ Expects(0, Tail(line), Pause, TRUE)
      <4>1. Tail(line) # <<>>
        BY <3>5, ExpectsSome
      <4>2. Pause # CapsLock /\ Pause \in AllKeys
        BY SmallKeys
      <4>3. Coming(kbd, Pause, TRUE)'
        <5>1. /\ Pause \notin kbd.key_down /\ held = kbd.key_down
              /\ kbd'.key_down = kbd.key_down \cup {Pause}
              /\ locked = kbd.caps /\ kbd'.caps = kbd.caps
          BY <2>1, <3>3, <3>5, <4>2 DEF Coming
        <5>2. held = kbd'.key_down \ {Pause}
          BY <5>1
        <5> QED  BY <1>1, <5>1, <5>2 DEF Coming
      <4>4. Along'
        BY <1>1, <3>3, <3>5, <4>1, <4>2, <4>3 DEF Along
      <4> QED  BY <3>3, <4>4
    <3> QED  BY <2>6, <3>4, <3>5
  <2> QED  BY <2>2, <2>5, <2>6, Zenon DEF NextCode, t, c
<1>12. /\ t.key = NoKey => kbd'.key_down = kbd.key_down
       /\ t.key # NoKey => kbd'.key_down = IF c >= 128 THEN kbd.key_down \ {t.key}
                                           ELSE kbd.key_down \cup {t.key}
       /\ kbd'.prev_scancode = t.prev
  <2>1. CASE t.key = NoKey
    BY <1>5, <1>6, <2>1
  <2>2. CASE t.key # NoKey
    <3> DEFINE up == c >= 128
               key == t.key
    <3>1. up \in BOOLEAN /\ key \in AllKeys /\ KbdShape(n) /\ OnWhileCounted(n)
      BY <1>5, <1>7, <1>8, <2>2 DEF CountsExplained
    <3>2. kbd' = KeyEvent(n, key, up) /\ key # NoKey
      BY <1>6, <2>2
    <3> SUFFICES /\ kbd'.key_down = IF up THEN kbd.key_down \ {key} ELSE kbd.key_down \cup {key}
                 /\ kbd'.prev_scancode = t.prev
      BY <2>2
    <3> HIDE DEF up, key
    <3>3. /\ kbd'.key_down = IF up THEN n.key_down \ {key} ELSE n.key_down \cup {key}
          /\ kbd'.prev_scancode = n.prev_scancode
      <4>1. MovesKey(n, KeyEvent(n, key, up), key, up)
        BY <3>1, EventMovesKey, Zenon
      <4> QED  BY <3>2, <4>1, Zenon DEF MovesKey
    <3> QED  BY <1>5, <3>3
  <2> QED  BY <2>1, <2>2
<1> HIDE DEF e
<1>13. ASSUME KeysOf(line) \subseteq doubted, AgreeBut(doubted)
       PROVE  Doubts'
  <2>1. KeysOf(line') \subseteq doubted' /\ MayBe(c) \subseteq doubted
    BY <1>1, <1>2, <1>13, KeysOfCodes DEF c
  <2>2. AgreeBut(doubted)'
    <3>1. ASSUME NEW key \in AllKeys \ doubted
          PROVE  key \in kbd'.key_down <=> key \in kbd.key_down
      <4>1. t.key = NoKey \/ (t.key # NoKey /\ key # t.key)
        BY <1>11, <2>1, <3>1
      <4> QED  BY <1>12, <4>1
    <3> QED  BY <1>1, <1>13, <3>1 DEF AgreeBut
  <2> QED  BY <2>1, <2>2 DEF Doubts
<1>14. ASSUME NEW key \in AllKeys, NEW up \in BOOLEAN,
              Expects(kbd.prev_scancode, line, key, up), AgreeBut(doubted \cup {key}),
              key \in held <=> ~ up /\ key # Pause
       PROVE  Doubts'
  <2>1. NextCode(kbd.prev_scancode, line, key, up)
    BY <1>14, ExpectedCode
  <2>2. NoKey \notin AllKeys /\ Pause \in AllKeys
    BY SmallKeys
  <2>3. CASE t.key = NoKey /\ Expects(t.prev, Tail(line), key, up)
    <3>1. AgreeBut(doubted \cup {key})'
      BY <1>1, <1>12, <1>14, <2>3 DEF AgreeBut
    <3> QED  BY <1>1, <1>12, <1>14, <2>3, <3>1 DEF Doubts
  <2>4. CASE /\ t.key = key /\ t.prev = 0 /\ (c >= 128) = up
             /\ \/ Tail(line) = <<>> /\ (key = Pause => up)
                \/ key = Pause /\ ~ up /\ Expects(0, Tail(line), Pause, TRUE)
    <3>1. kbd'.key_down = IF up THEN kbd.key_down \ {key} ELSE kbd.key_down \cup {key}
      BY <1>12, <2>2, <2>4
    <3>2. AgreeBut(doubted \cup {key})'
      BY <1>1, <1>14, <3>1 DEF AgreeBut
    <3>3. CASE Tail(line) = <<>> /\ (key = Pause => up)
      <4>1. key \in kbd'.key_down <=> key \in held
        BY <1>14, <3>1, <3>3
      <4>2. AgreeBut(doubted)'
        BY <1>1, <3>2, <4>1 DEF AgreeBut
      <4>3. KeysOf(line') = {}
        BY <1>1, <3>3 DEF KeysOf
      <4> QED  BY <4>2, <4>3 DEF Doubts
    <3>4. CASE key = Pause /\ ~ up /\ Expects(0, Tail(line), Pause, TRUE)
      <4>1. Pause \notin held'
        BY <1>1, <1>2
      <4> QED  BY <1>1, <1>12, <2>2, <2>4, <3>2, <3>4, <4>1 DEF Doubts
    <3> QED  BY <2>4, <3>3, <3>4
  <2> QED  BY <2>1, <2>3, <2>4, Zenon DEF NextCode, t, c
<1>15. Doubts'
  BY <1>2, <1>13, <1>14 DEF Doubts
<1> QED
  BY <1>1, <1>2, <1>3, <1>9, <1>10, <1>15 DEF KbdInv

\* The modifiers of the keys that are down, as the driver and the user see them.
LEMMA ModsAre ==
  ASSUME NEW S
  PROVE  Mods(S) = {m \in Modifiers : KeysIn(S, m) # {}}
<1>1. \A key : ModifierOf(key) \in Modifiers \cup {"none"}
  BY DEF ModifierOf, Modifiers
<1>2. "none" \notin Modifiers
  BY DEF Modifiers
<1>3. ASSUME NEW m \in Mods(S) PROVE m \in Modifiers /\ KeysIn(S, m) # {}
  BY <1>1 DEF Mods, KeysIn
<1>4. ASSUME NEW m \in Modifiers, KeysIn(S, m) # {} PROVE m \in Mods(S)
  BY <1>2, <1>4 DEF Mods, KeysIn
<1> QED
  BY <1>3, <1>4

(* A stroke begins when the driver has handled the last one.               *)
LEMMA StrokeStep ==
  ASSUME KbdInv, line = <<>>, NEW key \in AllKeys, NEW up \in BOOLEAN,
         Stroke(key, IF up THEN Break(key) ELSE Make(key)), UNCHANGED <<kbd, lost>>,
         held' \in SUBSET (AllKeys \ {Pause}), locked' \in BOOLEAN,
         held' = IF up THEN held \ {key}
                 ELSE IF key = Pause THEN held ELSE held \cup {key},
         key = Pause => ~ up,
         lost = 0 => Coming(kbd, key, up)'
  PROVE  KbdInv'
<1>1. line' \in Seq(Codes) /\ Expects(0, line', key, up)
  <2>0. line' = IF up THEN Break(key) ELSE Make(key)
    BY DEF Stroke
  <2>1. CASE up = TRUE
    BY <2>0, <2>1, StrokeCodes, StrokeExpected
  <2>2. CASE up = FALSE
    BY <2>0, <2>2, StrokeCodes, StrokeExpected
  <2> QED  BY <2>1, <2>2
<1>2. line' # <<>>
  BY <1>1, ExpectsSome
<1>3. lost = 0 => kbd.prev_scancode = 0 /\ CountsExact(kbd) /\ PadNumberWaits(kbd)
  BY DEF KbdInv, Along, AtRest
<1>4. lost = 0 => Along'
  BY <1>1, <1>2, <1>3 DEF Along
<1>5. KbdShape(kbd) /\ CountsExplained(kbd) /\ lost \in Nat
  BY DEF KbdInv
<1>6. /\ doubted' = IF kbd.prev_scancode = 0 THEN doubted \ {key}
                    ELSE doubted \cup KeysOf(line')
      /\ doubted \in SUBSET AllKeys
  BY DEF Stroke, KbdInv
<1>7. KeysOf(line') \subseteq AllKeys /\ key \in KeysOf(line')
  BY <1>1, KeysOfCodes, ExpectedKey
<1>8. AgreeBut(doubted)
  <2>1. \A k \in AllKeys, u \in BOOLEAN : ~ Expects(kbd.prev_scancode, line, k, u)
    BY ExpectsSome
  <2> QED  BY <2>1 DEF KbdInv, Doubts
<1>9. AgreeBut(doubted \cup {key})'
  <2>1. \A k \in AllKeys : k # key => (k \in held' <=> k \in held)
    OBVIOUS
  <2>2. AllKeys \ (doubted' \cup {key}) \subseteq (AllKeys \ doubted) \ {key}
    BY <1>6
  <2> QED  BY <1>8, <2>1, <2>2 DEF AgreeBut
<1>10. Doubts'
  <2>1. CASE kbd.prev_scancode = 0
    <3>1. key \in held' <=> ~ up /\ key # Pause
      OBVIOUS
    <3> QED  BY <1>1, <1>9, <2>1, <3>1 DEF Doubts
  <2>2. CASE kbd.prev_scancode # 0
    <3>1. doubted' = doubted' \cup {key} /\ KeysOf(line') \subseteq doubted'
      BY <1>6, <1>7, <2>2
    <3> QED  BY <1>9, <3>1 DEF Doubts, AgreeBut
  <2> QED  BY <2>1, <2>2
<1>11. doubted' \in SUBSET AllKeys
  BY <1>6, <1>7
<1> QED
  BY <1>1, <1>3, <1>4, <1>5, <1>10, <1>11 DEF KbdInv

LEMMA NextKeyboard == KbdInv /\ [KbdNext]_kbdVars => KbdInv'
<1> SUFFICES ASSUME KbdInv, [KbdNext]_kbdVars PROVE KbdInv'
  OBVIOUS
<1>0. /\ held \in SUBSET (AllKeys \ {Pause}) /\ locked \in BOOLEAN /\ lost \in Nat
      /\ line \in Seq(Codes)
      /\ lost = 0 /\ line = <<>> =>
           /\ kbd.key_down = held /\ kbd.caps = locked
           /\ kbd.shift_state = {m \in Modifiers : KeysIn(held, m) # {}}
  BY DEF KbdInv, Along, AtRest, CountsExact
<1>1. CASE do_scancode
  BY <1>1, ScanStep
<1>2. CASE Press
  <2>1. PICK key \in Keys \ held :
          /\ Stroke(key, Make(key))
          /\ held' = IF key = Pause THEN held ELSE held \cup {key}
          /\ locked' = (locked # (key = CapsLock /\ Mods(held) \in key_maps))
    BY <1>2 DEF Press
  <2>2. line = <<>> /\ UNCHANGED <<kbd, lost>>
    BY <1>2 DEF Press
  <2>3. key \in AllKeys
    BY KeysAssumption DEF KeysAssumption
  <2>4. held' \in SUBSET (AllKeys \ {Pause}) /\ locked' \in BOOLEAN
    BY <1>0, <2>1, <2>3
  <2>5. ASSUME lost = 0 PROVE Coming(kbd, key, FALSE)'
    <3>1. kbd.shift_state = Mods(held)
      BY <1>0, <2>2, <2>5, ModsAre
    <3>2. kbd.key_down = held /\ kbd.caps = locked
      BY <1>0, <2>2, <2>5
    <3>3. key = Pause => FALSE = (Pause \in kbd.key_down)
      BY <2>1, <3>2
    <3>4. locked' = IF key = CapsLock /\ kbd.shift_state \in key_maps
                    THEN ~ kbd.caps ELSE kbd.caps
      BY <1>0, <2>1, <3>1, <3>2
    <3> QED  BY <2>1, <2>2, <3>2, <3>3, <3>4 DEF Coming
  <2> QED  BY <2>1, <2>2, <2>3, <2>4, <2>5, StrokeStep
<1>3. CASE Repeat
  <2>1. PICK key \in held : Stroke(key, Make(key))
    BY <1>3 DEF Repeat
  <2>2. line = <<>> /\ UNCHANGED <<kbd, held, lost, locked>>
    BY <1>3 DEF Repeat
  <2>3. key \in AllKeys /\ key # Pause
    BY <1>0, <2>1
  <2>4. ASSUME lost = 0 PROVE Coming(kbd, key, FALSE)'
    <3>1. kbd.key_down = held /\ kbd.caps = locked
      BY <1>0, <2>2, <2>4
    <3>2. held = held \cup {key}
      BY <2>1
    <3> QED  BY <2>1, <2>2, <2>3, <3>1, <3>2 DEF Coming
  <2> QED  BY <1>0, <2>1, <2>2, <2>3, <2>4, StrokeStep
<1>4. CASE Release
  <2>1. PICK key \in held : Stroke(key, Break(key)) /\ held' = held \ {key}
    BY <1>4 DEF Release
  <2>2. line = <<>> /\ UNCHANGED <<kbd, lost, locked>>
    BY <1>4 DEF Release
  <2>3. key \in AllKeys /\ key # Pause
    BY <1>0, <2>1
  <2>4. held' \in SUBSET (AllKeys \ {Pause})
    BY <1>0, <2>1
  <2>5. ASSUME lost = 0 PROVE Coming(kbd, key, TRUE)'
    <3>1. kbd.key_down = held /\ kbd.caps = locked
      BY <1>0, <2>2, <2>5
    <3> QED  BY <2>1, <2>2, <2>3, <3>1 DEF Coming
  <2> QED  BY <1>0, <2>1, <2>2, <2>3, <2>4, <2>5, StrokeStep
<1>5. CASE LoseCode
  <2>1. /\ line # <<>> /\ line' = Tail(line) /\ lost' = lost + 1 /\ UNCHANGED <<kbd, held, locked>>
        /\ doubted' = doubted \cup KeysOf(line)
    BY <1>5 DEF LoseCode
  <2>2. line' \in Seq(Codes) /\ lost' \in Nat /\ lost' # 0
    BY <1>0, <2>1
  <2>3. KeysOf(line') \subseteq doubted' /\ doubted' \in SUBSET AllKeys
    BY <1>0, <2>1, KeysOfCodes DEF KbdInv
  <2>4. AgreeBut(doubted)'
    <3>1. CASE AgreeBut(doubted)
      BY <2>1, <3>1 DEF AgreeBut
    <3>2. ASSUME NEW key \in AllKeys, NEW up \in BOOLEAN,
                 Expects(kbd.prev_scancode, line, key, up), AgreeBut(doubted \cup {key})
          PROVE  AgreeBut(doubted)'
      <4>1. key \in KeysOf(line)
        BY <1>0, <3>2, ExpectedKey
      <4> QED  BY <2>1, <3>2, <4>1 DEF AgreeBut
    <3> QED  BY <3>1, <3>2 DEF KbdInv, Doubts
  <2>5. Doubts'
    BY <2>3, <2>4 DEF Doubts
  <2>6. KbdShape(kbd) /\ CountsExplained(kbd)
    BY DEF KbdInv
  <2> QED  BY <1>0, <2>1, <2>2, <2>3, <2>5, <2>6 DEF KbdInv
<1>6. CASE UNCHANGED kbdVars
  <2>1. UNCHANGED <<kbd, held, line, lost, locked, doubted>>
    BY <1>6 DEF kbdVars
  <2> QED  BY <2>1 DEF KbdInv, Along, AtRest, Coming, Doubts, AgreeBut
<1> QED
  BY <1>1, <1>2, <1>3, <1>4, <1>5, <1>6 DEF KbdNext

\* Whatever keys there are, however often they are pressed, repeated and
\* released and whichever codes are lost: the driver knows the keys, the
\* modifiers and CapsLock exactly as long as nothing was lost; after a loss it
\* differs from the keyboard only on the keys whose codes were lost, until such
\* a key is struck again, and a modifier that is on without a held key has such
\* a key or a stray release for its cause (keyboard.c:741-805,
\* scancode.c:163-256).
THEOREM TheKeysAreKnown == KbdSpec => []KeysAreKnown
<1>1. KbdInv => KeysAreKnown
  <2> SUFFICES ASSUME KbdInv PROVE KeysAreKnown
    OBVIOUS
  <2>1. ASSUME Settled
        PROVE  /\ kbd.key_down = held /\ kbd.caps = locked /\ kbd.prev_scancode = 0
               /\ kbd.shift_state = {m \in Modifiers : KeysIn(held, m) # {}}
               /\ PadNumberWaits(kbd)
    BY <2>1 DEF KbdInv, Settled, Along, AtRest, CountsExact
  <2>2. DriverKnowsTheKeys
    BY <2>1, ModsAre DEF DriverKnowsTheKeys
  <2>3. OnlyDoubtedKeysDiffer /\ StuckModifiersAreExplained
    <3>1. SUFFICES ASSUME line = <<>>
                   PROVE  /\ AgreeBut(doubted)
                          /\ \A m \in kbd.shift_state \ Mods(held) :
                               \/ \E key \in doubted \cap kbd.key_down : ModifierOf(key) = m
                               \/ kbd.strays[m] > 0
      BY Zenon DEF OnlyDoubtedKeysDiffer, StuckModifiersAreExplained, AgreeBut
    <3>2. AgreeBut(doubted)
      <4>1. \A k \in AllKeys, u \in BOOLEAN : ~ Expects(kbd.prev_scancode, line, k, u)
        BY <3>1, ExpectsSome
      <4> QED  BY <4>1 DEF KbdInv, Doubts
    <3>3. ASSUME NEW m \in kbd.shift_state \ Mods(held), ~ (kbd.strays[m] > 0)
          PROVE  \E key \in doubted \cap kbd.key_down : ModifierOf(key) = m
      <4> DEFINE n == Cardinality(KeysIn(kbd.key_down, m))
                 count == kbd.k_down[m]
                 s == kbd.strays[m]
      <4>1. /\ m \in Modifiers /\ kbd.key_down \in SUBSET AllKeys
            /\ count \in Nat /\ s \in Nat
        BY DEF KbdInv, KbdShape
      <4>2. n \in 0 .. 200 /\ (n = 0) = (KeysIn(kbd.key_down, m) = {})
        BY <4>1, CountOfKeys
      <4>3. count > 0 /\ count <= n + s
        BY <4>1 DEF KbdInv, CountsExplained, OnWhileCounted
      <4>4. n # 0
        <5> HIDE DEF n, count, s
        <5>1. s = 0
          BY <3>3, <4>1 DEF s
        <5> QED  BY <4>1, <4>2, <4>3, <5>1
      <4>5. PICK key \in kbd.key_down : ModifierOf(key) = m
        BY <4>2, <4>4 DEF KeysIn
      <4>6. key \notin held
        BY <4>1, <4>5, ModsAre DEF KeysIn
      <4> QED  BY <3>2, <4>1, <4>5, <4>6 DEF AgreeBut
    <3> QED  BY <3>2, <3>3
  <2>4. LockChangesOncePerPress
    BY <2>1 DEF LockChangesOncePerPress
  <2>5. PadNumberWillBeSent
    BY <2>1 DEF PadNumberWillBeSent, PadNumberWaits
  <2> QED
    BY <2>2, <2>3, <2>4, <2>5 DEF KeysAreKnown
<1> QED
  BY <1>1, InitKeyboard, NextKeyboard, PTL DEF KbdSpec
=============================================================================
