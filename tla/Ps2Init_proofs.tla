--------------------------- MODULE Ps2Init_proofs ---------------------------
(***************************************************************************)
(* Theorems about Ps2Init: what the answers to init_ps2 are taken for.     *)
(***************************************************************************)
EXTENDS Ps2Init, TLAPS

LEMMA Concatenation ==
  ASSUME NEW S, NEW s \in Seq(S), NEW t \in Seq(S)
  PROVE  /\ s \o t \in Seq(S) /\ Len(s \o t) = Len(s) + Len(t)
         /\ \A i \in 1..(Len(s) + Len(t)) :
               (s \o t)[i] = IF i <= Len(s) THEN s[i] ELSE t[i - Len(s)]
OBVIOUS

(* The script, step by step.                                               *)
LEMMA ScriptSteps ==
  /\ Len(Script) = 20
  /\ Script[1] = Cmd("DISABLE_PORT1")
  /\ Script[2] = Cmd("DISABLE_PORT2")
  /\ Script[3] = Drain
  /\ Script[4] = Cmd("READ_CONFIG")
  /\ Script[5] = ReadConfig
  /\ Script[6] = Cmd("WRITE_CONFIG")
  /\ Script[7] = Data("config")
  /\ Script[8] = Cmd("TEST_CONTROLLER")
  /\ Script[9] = Expect(ControllerOk)
  /\ Script[10] = Cmd("TEST_PORT1")
  /\ Script[11] = Expect(PortOk)
  /\ Script[12] = Cmd("ENABLE_PORT1")
  /\ Script[13] = Keyboard("RESET")
  /\ Script[14] = Expect(KB_RESPONSE_TEST_PASS)
  /\ Script[15] = Keyboard("SET_SCANCODE")
  /\ Script[16] = Data("set 1")
  /\ Script[17] = Keyboard("ENABLE")
  /\ Script[18] = Keyboard("SET_LEDS")
  /\ Script[19] = Data("leds")
  /\ Script[20] = Drain
<1> DEFINE s1 == << Cmd("DISABLE_PORT1"), Cmd("DISABLE_PORT2") >>
           s2 == << Cmd("READ_CONFIG"), ReadConfig, Cmd("WRITE_CONFIG"), Data("config"),
                    Cmd("TEST_CONTROLLER"), Expect(ControllerOk) >>
           s3 == << Cmd("ENABLE_PORT1"),
                    Keyboard("RESET"), Expect(KB_RESPONSE_TEST_PASS),
                    Keyboard("SET_SCANCODE"), Data("set 1"), Keyboard("ENABLE"),
                    Keyboard("SET_LEDS"), Data("leds"), Drain >>
           S  == {Cmd("DISABLE_PORT1"), Cmd("DISABLE_PORT2"), Drain, Cmd("READ_CONFIG"),
                  ReadConfig, Cmd("WRITE_CONFIG"), Data("config"), Cmd("TEST_CONTROLLER"),
                  Expect(ControllerOk), Cmd("TEST_PORT1"), Expect(PortOk),
                  Cmd("ENABLE_PORT1"), Keyboard("RESET"), Expect(KB_RESPONSE_TEST_PASS),
                  Keyboard("SET_SCANCODE"), Data("set 1"), Keyboard("ENABLE"),
                  Keyboard("SET_LEDS"), Data("leds")}
<1>1. /\ s1 \in Seq(S) /\ Len(s1) = 2
      /\ s1[1] = Cmd("DISABLE_PORT1") /\ s1[2] = Cmd("DISABLE_PORT2")
  OBVIOUS
<1>2. /\ s2 \in Seq(S) /\ Len(s2) = 6
      /\ s2[1] = Cmd("READ_CONFIG") /\ s2[2] = ReadConfig /\ s2[3] = Cmd("WRITE_CONFIG")
      /\ s2[4] = Data("config") /\ s2[5] = Cmd("TEST_CONTROLLER") /\ s2[6] = Expect(ControllerOk)
  OBVIOUS
<1>3. /\ s3 \in Seq(S) /\ Len(s3) = 9
      /\ s3[1] = Cmd("ENABLE_PORT1") /\ s3[2] = Keyboard("RESET")
      /\ s3[3] = Expect(KB_RESPONSE_TEST_PASS) /\ s3[4] = Keyboard("SET_SCANCODE")
      /\ s3[5] = Data("set 1") /\ s3[6] = Keyboard("ENABLE") /\ s3[7] = Keyboard("SET_LEDS")
      /\ s3[8] = Data("leds") /\ s3[9] = Drain
  OBVIOUS
<1>4. /\ Flush \in Seq(S) /\ Len(Flush) = 1 /\ Flush[1] = Drain
      /\ TestPort \in Seq(S) /\ Len(TestPort) = 2
      /\ TestPort[1] = Cmd("TEST_PORT1") /\ TestPort[2] = Expect(PortOk)
  BY DEF Flush, TestPort
<1>5. Script = (((s1 \o Flush) \o s2) \o TestPort) \o s3
  BY DEF Script
<1> HIDE DEF s1, s2, s3, S
<1> DEFINE a1 == s1 \o Flush
           a2 == a1 \o s2
           a3 == a2 \o TestPort
           a4 == a3 \o s3
<1>6. /\ a1 \in Seq(S) /\ Len(a1) = 3
      /\ \A i \in 1..3 : a1[i] = IF i <= 2 THEN s1[i] ELSE Flush[i - 2]
  <2>1. s1 \in Seq(S) /\ Flush \in Seq(S)
    BY <1>1, <1>4
  <2>2. /\ a1 \in Seq(S) /\ Len(a1) = Len(s1) + Len(Flush)
        /\ \A i \in 1..(Len(s1) + Len(Flush)) :
              a1[i] = IF i <= Len(s1) THEN s1[i] ELSE Flush[i - Len(s1)]
    BY <2>1, Concatenation
  <2>3. Len(s1) = 2 /\ Len(Flush) = 1
    BY <1>1, <1>4
  <2>4. Len(s1) + Len(Flush) = 3
    BY <2>3
  <2> QED
    BY <2>2, <2>3, <2>4
<1> HIDE DEF a1
<1>7. /\ a2 \in Seq(S) /\ Len(a2) = 9
      /\ \A i \in 1..9 : a2[i] = IF i <= 3 THEN a1[i] ELSE s2[i - 3]
  <2>1. a1 \in Seq(S) /\ s2 \in Seq(S)
    BY <1>2, <1>6
  <2>2. /\ a2 \in Seq(S) /\ Len(a2) = Len(a1) + Len(s2)
        /\ \A i \in 1..(Len(a1) + Len(s2)) :
              a2[i] = IF i <= Len(a1) THEN a1[i] ELSE s2[i - Len(a1)]
    BY <2>1, Concatenation
  <2>3. Len(a1) = 3 /\ Len(s2) = 6
    BY <1>2, <1>6
  <2>4. Len(a1) + Len(s2) = 9
    BY <2>3
  <2> QED
    BY <2>2, <2>3, <2>4
<1> HIDE DEF a2
<1>8. /\ a3 \in Seq(S) /\ Len(a3) = 11
      /\ \A i \in 1..11 : a3[i] = IF i <= 9 THEN a2[i] ELSE TestPort[i - 9]
  <2>1. a2 \in Seq(S) /\ TestPort \in Seq(S)
    BY <1>4, <1>7
  <2>2. /\ a3 \in Seq(S) /\ Len(a3) = Len(a2) + Len(TestPort)
        /\ \A i \in 1..(Len(a2) + Len(TestPort)) :
              a3[i] = IF i <= Len(a2) THEN a2[i] ELSE TestPort[i - Len(a2)]
    BY <2>1, Concatenation
  <2>3. Len(a2) = 9 /\ Len(TestPort) = 2
    BY <1>4, <1>7
  <2>4. Len(a2) + Len(TestPort) = 11
    BY <2>3
  <2> QED
    BY <2>2, <2>3, <2>4
<1> HIDE DEF a3
<1>9. /\ a4 \in Seq(S) /\ Len(a4) = 20
      /\ \A i \in 1..20 : a4[i] = IF i <= 11 THEN a3[i] ELSE s3[i - 11]
  <2>1. a3 \in Seq(S) /\ s3 \in Seq(S)
    BY <1>3, <1>8
  <2>2. /\ a4 \in Seq(S) /\ Len(a4) = Len(a3) + Len(s3)
        /\ \A i \in 1..(Len(a3) + Len(s3)) :
              a4[i] = IF i <= Len(a3) THEN a3[i] ELSE s3[i - Len(a3)]
    BY <2>1, Concatenation
  <2>3. Len(a3) = 11 /\ Len(s3) = 9
    BY <1>3, <1>8
  <2>4. Len(a3) + Len(s3) = 20
    BY <2>3
  <2> QED
    BY <2>2, <2>3, <2>4
<1> HIDE DEF a4
<1>10. Script = a4
  BY <1>5 DEF a1, a2, a3, a4
<1>11. Script[12] = s3[1] /\ Script[13] = s3[2] /\ Script[14] = s3[3] /\ Script[15] = s3[4] /\ Script[16] = s3[5]
       /\ Script[17] = s3[6] /\ Script[18] = s3[7] /\ Script[19] = s3[8] /\ Script[20] = s3[9]
  BY <1>9, <1>10
<1>12. \A i \in 1..11 : Script[i] = a3[i]
  BY <1>9, <1>10
<1>13. Script[10] = TestPort[1] /\ Script[11] = TestPort[2]
  BY <1>8, <1>12
<1>14. \A i \in 1..9 : Script[i] = a2[i]
  BY <1>8, <1>12
<1>15. Script[4] = s2[1] /\ Script[5] = s2[2] /\ Script[6] = s2[3] /\ Script[7] = s2[4] /\ Script[8] = s2[5] /\ Script[9] = s2[6]
  BY <1>7, <1>14
<1>16. Script[1] = s1[1] /\ Script[2] = s1[2] /\ Script[3] = Flush[1]
  <2>1. \A i \in 1..3 : Script[i] = a1[i]
    BY <1>7, <1>14
  <2> QED
    BY <1>6, <2>1
<1> QED
  BY <1>1, <1>2, <1>3, <1>4, <1>9, <1>10, <1>11, <1>13, <1>15, <1>16, Zenon

LEMMA Fields ==
  /\ \A c : Cmd(c).op = "command" /\ Cmd(c).byte = c
  /\ \A c : Keyboard(c).op = "keyboard" /\ Keyboard(c).byte = c
  /\ \A b : Data(b).op = "data"
  /\ \A b : Expect(b).op = "expect" /\ Expect(b).byte = b
  /\ ReadConfig.op = "config"
  /\ Drain.op = "drain"
BY DEF Cmd, Keyboard, Data, Expect, ReadConfig, Drain

LEMMA ScriptTable ==
  /\ Len(Script) = 20
  /\ Script[1].op = "command" /\ Script[1].byte = "DISABLE_PORT1"
  /\ Script[2].op = "command" /\ Script[2].byte = "DISABLE_PORT2"
  /\ Script[3].op = "drain"
  /\ Script[4].op = "command" /\ Script[4].byte = "READ_CONFIG"
  /\ Script[5].op = "config"
  /\ Script[6].op = "command" /\ Script[6].byte = "WRITE_CONFIG"
  /\ Script[7].op = "data"
  /\ Script[8].op = "command" /\ Script[8].byte = "TEST_CONTROLLER"
  /\ Script[9].op = "expect" /\ Script[9].byte = ControllerOk
  /\ Script[10].op = "command" /\ Script[10].byte = "TEST_PORT1"
  /\ Script[11].op = "expect" /\ Script[11].byte = PortOk
  /\ Script[12].op = "command" /\ Script[12].byte = "ENABLE_PORT1"
  /\ Script[13].op = "keyboard" /\ Script[13].byte = "RESET"
  /\ Script[14].op = "expect" /\ Script[14].byte = KB_RESPONSE_TEST_PASS
  /\ Script[15].op = "keyboard" /\ Script[15].byte = "SET_SCANCODE"
  /\ Script[16].op = "data"
  /\ Script[17].op = "keyboard" /\ Script[17].byte = "ENABLE"
  /\ Script[18].op = "keyboard" /\ Script[18].byte = "SET_LEDS"
  /\ Script[19].op = "data"
  /\ Script[20].op = "drain"
<1>1. Script[1].op = "command" /\ Script[1].byte = "DISABLE_PORT1"
  <2>1. Script[1] = Cmd("DISABLE_PORT1")
    BY ScriptSteps
  <2> QED
    BY <2>1, Fields
<1>2. Script[2].op = "command" /\ Script[2].byte = "DISABLE_PORT2"
  <2>1. Script[2] = Cmd("DISABLE_PORT2")
    BY ScriptSteps
  <2> QED
    BY <2>1, Fields
<1>3. Script[3].op = "drain"
  <2>1. Script[3] = Drain
    BY ScriptSteps
  <2> QED
    BY <2>1, Fields
<1>4. Script[4].op = "command" /\ Script[4].byte = "READ_CONFIG"
  <2>1. Script[4] = Cmd("READ_CONFIG")
    BY ScriptSteps
  <2> QED
    BY <2>1, Fields
<1>5. Script[5].op = "config"
  <2>1. Script[5] = ReadConfig
    BY ScriptSteps
  <2> QED
    BY <2>1, Fields
<1>6. Script[6].op = "command" /\ Script[6].byte = "WRITE_CONFIG"
  <2>1. Script[6] = Cmd("WRITE_CONFIG")
    BY ScriptSteps
  <2> QED
    BY <2>1, Fields
<1>7. Script[7].op = "data"
  <2>1. Script[7] = Data("config")
    BY ScriptSteps
  <2> QED
    BY <2>1, Fields
<1>8. Script[8].op = "command" /\ Script[8].byte = "TEST_CONTROLLER"
  <2>1. Script[8] = Cmd("TEST_CONTROLLER")
    BY ScriptSteps
  <2> QED
    BY <2>1, Fields
<1>9. Script[9].op = "expect" /\ Script[9].byte = ControllerOk
  <2>1. Script[9] = Expect(ControllerOk)
    BY ScriptSteps
  <2> QED
    BY <2>1, Fields
<1>10. Script[10].op = "command" /\ Script[10].byte = "TEST_PORT1"
  <2>1. Script[10] = Cmd("TEST_PORT1")
    BY ScriptSteps
  <2> QED
    BY <2>1, Fields
<1>11. Script[11].op = "expect" /\ Script[11].byte = PortOk
  <2>1. Script[11] = Expect(PortOk)
    BY ScriptSteps
  <2> QED
    BY <2>1, Fields
<1>12. Script[12].op = "command" /\ Script[12].byte = "ENABLE_PORT1"
  <2>1. Script[12] = Cmd("ENABLE_PORT1")
    BY ScriptSteps
  <2> QED
    BY <2>1, Fields
<1>13. Script[13].op = "keyboard" /\ Script[13].byte = "RESET"
  <2>1. Script[13] = Keyboard("RESET")
    BY ScriptSteps
  <2> QED
    BY <2>1, Fields
<1>14. Script[14].op = "expect" /\ Script[14].byte = KB_RESPONSE_TEST_PASS
  <2>1. Script[14] = Expect(KB_RESPONSE_TEST_PASS)
    BY ScriptSteps
  <2> QED
    BY <2>1, Fields
<1>15. Script[15].op = "keyboard" /\ Script[15].byte = "SET_SCANCODE"
  <2>1. Script[15] = Keyboard("SET_SCANCODE")
    BY ScriptSteps
  <2> QED
    BY <2>1, Fields
<1>16. Script[16].op = "data"
  <2>1. Script[16] = Data("set 1")
    BY ScriptSteps
  <2> QED
    BY <2>1, Fields
<1>17. Script[17].op = "keyboard" /\ Script[17].byte = "ENABLE"
  <2>1. Script[17] = Keyboard("ENABLE")
    BY ScriptSteps
  <2> QED
    BY <2>1, Fields
<1>18. Script[18].op = "keyboard" /\ Script[18].byte = "SET_LEDS"
  <2>1. Script[18] = Keyboard("SET_LEDS")
    BY ScriptSteps
  <2> QED
    BY <2>1, Fields
<1>19. Script[19].op = "data"
  <2>1. Script[19] = Data("leds")
    BY ScriptSteps
  <2> QED
    BY <2>1, Fields
<1>20. Script[20].op = "drain"
  <2>1. Script[20] = Drain
    BY ScriptSteps
  <2> QED
    BY <2>1, Fields
<1> QED
  BY ScriptSteps, <1>1, <1>2, <1>3, <1>4, <1>5, <1>6, <1>7, <1>8, <1>9, <1>10, <1>11, <1>12, <1>13, <1>14, <1>15, <1>16, <1>17, <1>18, <1>19, <1>20

(* What follows from the operation of a step.                              *)
LEMMA StepOf ==
  ASSUME NEW i \in 1..20
  PROVE  /\ Script[i].op = "command"  => i \in {1, 2, 4, 6, 8, 10, 12}
         /\ Script[i].op = "keyboard" => i \in {13, 15, 17, 18}
         /\ Script[i].op = "data"     => i \in {7, 16, 19}
         /\ Script[i].op = "expect"   => i \in {9, 11, 14}
         /\ Script[i].op = "drain"    => i \in {3, 20}
         /\ Script[i].op = "config"   => i = 5
<1>1. i \in {1, 2, 4, 6, 8, 10, 12} \cup {13, 15, 17, 18} \cup {7, 16, 19} \cup {9, 11, 14}
             \cup {3, 20} \cup {5}
  OBVIOUS
<1> QED
  BY <1>1, ScriptTable


LEMMA AdvanceStep ==
  ASSUME step \in 1..20, Advance
  PROVE  \/ step = 20 /\ step' = 20 /\ result' = "true" /\ at' = at
         \/ step < 20 /\ step' = step + 1 /\ result' = result /\ at' = "send"
BY ScriptTable DEF Advance, Return

-----------------------------------------------------------------------------
(* Where init_ps2 is, and the input buffer: its byte is that of a step     *)
(* before, or of the keyboard step it waits in.                            *)
StepInv ==
  /\ step \in 1..20
  /\ result \in {"running", "true", "false"}
  /\ result = "true" => step = 20
  /\ input # Taken =>
       /\ input.to \in 1..step
       /\ input.val = Script[input.to].byte
       /\ Script[input.to].op \in {"command", "keyboard", "data"}
       /\ input.to = step => Script[step].op = "keyboard"

LEMMA WriteIs ==
  ASSUME step \in 1..20, Write, Op \in {"command", "keyboard", "data"}
  PROVE  input' # Taken /\ input'.to = step /\ input'.val = Script[step].byte
BY DEF Write, That, Taken, NoCommand

LEMMA StepCorrect == Spec => []StepInv
<1>1. Init => StepInv
  BY DEF Init, StepInv
<1>2. StepInv /\ [Next]_vars => StepInv'
  <2> SUFFICES ASSUME StepInv, [Next]_vars
               PROVE  StepInv'
    OBVIOUS
  <2> USE DEF StepInv
  <2>1. CASE ps2_send_command
    <3>1. step # 20
      BY <2>1, ScriptTable DEF ps2_send_command, Op
    <3>2. step' = step + 1 /\ result' = result
      BY <2>1, <3>1, AdvanceStep DEF ps2_send_command
    <3>3. CASE Write
      BY <2>1, <3>1, <3>2, <3>3, WriteIs DEF ps2_send_command, Op
    <3>4. CASE UNCHANGED input
      BY <2>1, <3>1, <3>2, <3>4 DEF ps2_send_command
    <3> QED
      BY <2>1, <3>3, <3>4 DEF ps2_send_command
  <2>2. CASE outb_data
    <3>1. step # 20
      BY <2>2, ScriptTable DEF outb_data, Op
    <3>2. step' = step + 1 /\ result' = result
      BY <2>2, <3>1, AdvanceStep DEF outb_data
    <3> QED
      BY <2>2, <3>1, <3>2, WriteIs DEF outb_data, Op
  <2>3. CASE keyboard_send
    <3>1. step # 20
      BY <2>3, ScriptTable DEF keyboard_send, Op
    <3>2. CASE Write /\ UNCHANGED <<step, result>>
      BY <2>3, <3>1, <3>2, WriteIs DEF keyboard_send, Op
    <3>3. CASE KeyboardFailed /\ UNCHANGED input
      BY <3>1, <3>3, AdvanceStep DEF KeyboardFailed, Return
    <3> QED
      BY <2>3, <3>2, <3>3 DEF keyboard_send
  <2>4. CASE keyboard_poll
    <3>1. step # 20 /\ UNCHANGED input
      BY <2>4, ScriptTable DEF keyboard_poll, Op
    <3> QED
      BY <2>4, <3>1, AdvanceStep DEF keyboard_poll, KeyboardFailed, Return
  <2>5. CASE keyboard_ack
    <3>1. step # 20 /\ UNCHANGED input
      BY <2>5, ScriptTable DEF keyboard_ack, Op
    <3> QED
      BY <2>5, <3>1, AdvanceStep DEF keyboard_ack, KeyboardFailed, Return
  <2>6. CASE ps2_wait_output
    BY <2>6 DEF ps2_wait_output
  <2>7. CASE read_config
    <3>1. step # 20 /\ UNCHANGED input
      BY <2>7, ScriptTable DEF read_config, Op
    <3> QED
      BY <2>7, <3>1, AdvanceStep DEF read_config
  <2>8. CASE check_answer
    <3>1. step # 20 /\ UNCHANGED input
      BY <2>8, ScriptTable DEF check_answer, Op
    <3> QED
      BY <2>8, <3>1, AdvanceStep DEF check_answer, Return
  <2>9. CASE drain
    <3>1. UNCHANGED input /\ (UNCHANGED <<step, result>> \/ Advance)
      BY <2>9 DEF drain
    <3> QED
      BY <3>1, AdvanceStep, ScriptTable
  <2>10. CASE TakeCommand \/ TakeConfig \/ TakeKeyboard
    BY <2>10 DEF TakeCommand, TakeConfig, TakeKeyboard, program
  <2>11. CASE Deliver \/ Press \/ UNCHANGED vars
    BY <2>11 DEF Deliver, Press, vars, program
  <2> QED
    BY <2>1, <2>2, <2>3, <2>4, <2>5, <2>6, <2>7, <2>8, <2>9, <2>10, <2>11 DEF Next, init_ps2
<1> QED
  BY <1>1, <1>2, PTL DEF Spec

-----------------------------------------------------------------------------
(* Without a controller nothing is sent, and the first drain never ends.   *)
AbsentInv ==
  ~Present => /\ step \in 1..3 /\ at = "send" /\ result = "running"
              /\ input = Taken /\ answers = <<>>

LEMMA AbsentCorrect == Spec => []AbsentInv
<1>1. Init => AbsentInv
  BY DEF Init, AbsentInv
<1>2. AbsentInv /\ [Next]_vars => AbsentInv'
  <2> SUFFICES ASSUME ~Present, AbsentInv, [Next]_vars
               PROVE  AbsentInv'
    BY DEF AbsentInv
  <2>1. step \in 1..3 /\ at = "send" /\ result = "running" /\ input = Taken /\ answers = <<>>
    BY DEF AbsentInv
  <2>2. Op \in {"command", "drain"} /\ (Op = "command" => step \in 1..2)
    BY <2>1, ScriptTable DEF Op
  <2>3. CASE ps2_send_command
    <3>1. UNCHANGED <<input, answers>> /\ Advance
      BY <2>3 DEF ps2_send_command, Busy, devices
    <3> QED
      BY <2>1, <2>2, <2>3, <3>1, AdvanceStep DEF ps2_send_command, AbsentInv
  <2>4. CASE drain
    BY <2>1, <2>4 DEF drain, Full, devices, AbsentInv
  <2>5. CASE UNCHANGED vars
    BY <2>1, <2>5 DEF vars, program, devices, AbsentInv
  <2>6. \/ ps2_send_command \/ drain \/ UNCHANGED vars
    BY <2>1, <2>2 DEF Next, init_ps2, outb_data, keyboard_send, keyboard_poll, keyboard_ack,
       ps2_wait_output, read_config, check_answer, TakeCommand, TakeConfig, TakeKeyboard,
       Deliver, Press
  <2> QED
    BY <2>3, <2>4, <2>5, <2>6
<1> QED
  BY <1>1, <1>2, PTL DEF Spec

-----------------------------------------------------------------------------
(***************************************************************************)
(* True means tested.  A byte that reads like a passed test was sent for   *)
(* one: the configuration byte, which is read before the tests, is told    *)
(* from them by its bits 4 and 5, unless it is 0x55 with port 1 off; a     *)
(* byte from before is taken for the controller's answer only if it is     *)
(* 0x55 too, as the other tests' answers are read after that one.          *)
(***************************************************************************)
NoLookalike == BootConfigs \cap {69, 85} = {} /\ ControllerOk \notin LeftOver

Distinct(b) == b \in Byte /\ Bit(b, 4) = 1 /\ b # ControllerOk

LEMMA DistinctBytes ==
  ASSUME NEW b \in Byte
  PROVE  /\ b \notin {69, 85} => Distinct(SetBit(b, 4))
         /\ Distinct(b) => Distinct(SetBit(b, 5)) /\ b # PortOk /\ b # KB_RESPONSE_TEST_PASS
<1>1. 2^4 = 16 /\ 2^5 = 32
  OBVIOUS
<1> QED
  BY <1>1 DEF Byte, Distinct, SetBit, Bit, ControllerOk, PortOk, KB_RESPONSE_TEST_PASS

(* The first command is taken before anything else is, and the             *)
(* configuration byte the controller answers with is not like the answer   *)
(* of a test.                                                              *)
ConfigInv ==
  /\ step = 1 => input = Taken
  /\ step = 1 \/ (input # Taken /\ input.to = 1) => status \in BootConfigs
  /\ step \in 2..4 /\ (input = Taken \/ input.to # 1) => Distinct(status)
  /\ input # Taken /\ input.to = 4 => Distinct(status)

(* What the program's steps leave alone, and how far they go.              *)
LEMMA ProgramStep ==
  ASSUME step \in 1..20, init_ps2
  PROVE  /\ UNCHANGED devices
         /\ step' \in {step, step + 1}
         /\ \/ UNCHANGED input
            \/ input' # Taken /\ input'.to = step
<1>1. UNCHANGED devices
  BY DEF init_ps2, devices, ps2_send_command, outb_data,
         keyboard_send, keyboard_poll, keyboard_ack, ps2_wait_output, read_config,
         check_answer, drain
<1>2. UNCHANGED step \/ Advance
  BY DEF init_ps2, ps2_send_command, outb_data, KeyboardFailed, Return,
         keyboard_send, keyboard_poll, keyboard_ack, ps2_wait_output, read_config,
         check_answer, drain
<1>3. UNCHANGED input \/ Write
  BY DEF init_ps2, ps2_send_command, outb_data,
         keyboard_send, keyboard_poll, keyboard_ack, ps2_wait_output, read_config,
         check_answer, drain
<1>4. Write => input' # Taken /\ input'.to = step
  BY DEF Write, That, Taken, NoCommand
<1> QED
  BY <1>1, <1>2, <1>3, <1>4, AdvanceStep

LEMMA FirstSteps ==
  ASSUME Present, step \in 1..4, init_ps2
  PROVE  /\ step # 3 => step' = step + 1
         /\ input' # input => input = Taken
         /\ step # 3 /\ input = Taken => input' # Taken /\ input'.to = step
<1>1. Op \in {"command", "drain"} /\ (Op = "drain" => step = 3)
  BY ScriptTable DEF Op
<1>2. ps2_send_command \/ (drain /\ Op = "drain")
  BY <1>1 DEF init_ps2, outb_data, drain,
         keyboard_send, keyboard_poll, keyboard_ack, ps2_wait_output, read_config,
         check_answer
<1>3. CASE ps2_send_command
  BY <1>3, AdvanceStep DEF ps2_send_command, Busy, Write, That, Taken, NoCommand
<1>4. CASE drain /\ Op = "drain"
  BY <1>1, <1>4, AdvanceStep DEF drain
<1> QED
  BY <1>2, <1>3, <1>4

LEMMA ConfigCorrect ==
  ASSUME Present, NoLookalike
  PROVE  Spec => []ConfigInv
<1>1. Init => ConfigInv
  BY DEF Init, ConfigInv
<1>2. StepInv /\ StepInv' /\ ConfigInv /\ [Next]_vars => ConfigInv'
  <2> SUFFICES ASSUME StepInv, StepInv', ConfigInv, [Next]_vars
               PROVE  ConfigInv'
    OBVIOUS
  <2>1. CASE init_ps2
    <3>1. /\ step' \in {step, step + 1} /\ status' = status
          /\ UNCHANGED input \/ (input' # Taken /\ input'.to = step)
      BY <2>1, ProgramStep DEF StepInv, devices
    <3>2. CASE step \in 1..4
      <4>1. /\ step # 3 => step' = step + 1
            /\ input' # input => input = Taken
            /\ step # 3 /\ input = Taken => input' # Taken /\ input'.to = step
        BY <2>1, <3>2, FirstSteps
      <4> QED
        BY <3>1, <3>2, <4>1 DEF ConfigInv
    <3>3. CASE step \in 5..20
      BY <3>1, <3>3 DEF ConfigInv
    <3> QED
      BY <3>2, <3>3 DEF StepInv
  <2>2. CASE UNCHANGED vars
    BY <2>2 DEF vars, program, devices, ConfigInv
  <2>3. CASE TakeCommand
    <3>1. input # Taken /\ input' = Taken /\ step' = step
      BY <2>3 DEF TakeCommand, Busy, program
    <3>2. step # 1 /\ input.to \in 1..step
      BY <3>1 DEF ConfigInv, StepInv
    <3>3. CASE step \in 2..4
      <4>1. CASE input.to = 1
        <5>1. status \in BootConfigs
          BY <3>1, <4>1 DEF ConfigInv
        <5>2. input.val = "DISABLE_PORT1"
          BY <3>1, <4>1, ScriptTable DEF StepInv
        <5>3. status' = SetBit(status, 4)
          BY <2>3, <5>2 DEF TakeCommand
        <5>4. Distinct(status')
          BY <5>1, <5>3, DistinctBytes, Ps2Assumption DEF NoLookalike, Byte
        <5> QED
          BY <3>1, <3>3, <5>4 DEF ConfigInv
      <4>2. CASE input.to \in {2, 3, 4}
        <5>1. Distinct(status)
          BY <3>1, <3>3, <4>2 DEF ConfigInv
        <5>2. input.val \notin {"DISABLE_PORT1", "ENABLE_PORT1"}
          <6>1. input.val = Script[input.to].byte /\ input.to # 3
            BY <3>1, ScriptTable DEF StepInv
          <6> QED
            BY <4>2, <6>1, ScriptTable
        <5>3. status' = SetBit(status, 5) \/ status' = status
          BY <2>3, <5>2 DEF TakeCommand
        <5>4. Distinct(status')
          BY <5>1, <5>3, DistinctBytes DEF Distinct
        <5> QED
          BY <3>1, <3>3, <5>4 DEF ConfigInv
      <4> QED
        BY <3>2, <3>3, <4>1, <4>2
    <3>4. CASE step \notin 2..4
      BY <3>1, <3>2, <3>4 DEF ConfigInv
    <3> QED
      BY <3>3, <3>4
  <2>4. CASE TakeConfig \/ TakeKeyboard
    <3>1. input # Taken /\ input.to > 4 /\ step >= 5 /\ input' = Taken /\ step' = step
      <4>1. input # Taken /\ Script[input.to].op # "command" /\ input' = Taken /\ step' = step
        BY <2>4 DEF TakeConfig, TakeKeyboard, Busy, program
      <4>2. input.to \notin {1, 2, 3, 4}
        BY <4>1, ScriptTable DEF StepInv
      <4> QED
        BY <4>1, <4>2 DEF StepInv
    <3> QED
      BY <3>1 DEF ConfigInv
  <2>5. CASE Deliver \/ Press
    BY <2>5 DEF Deliver, Press, program, ConfigInv
  <2> QED
    BY <2>1, <2>2, <2>3, <2>4, <2>5 DEF Next
<1> QED
  BY <1>1, <1>2, StepCorrect, PTL DEF Spec

-----------------------------------------------------------------------------
Tells(v) ==
  /\ v = ControllerOk          => "controller" \in passed
  /\ v = PortOk                => "port" \in passed
  /\ v = KB_RESPONSE_TEST_PASS => "keyboard" \in passed

Telling == {b \in Bytes : Tells(b.val)}

(* All that a byte from before init_ps2 cannot be.                         *)
TellsController(v) == v = ControllerOk => "controller" \in passed

(* Bytes on their way tell the truth; what the data port shows does so     *)
(* from the controller's test on, and what is in the output buffer once it *)
(* was drained.  A step behind a test has its answer.                      *)
OutputInv ==
  output # Empty => /\ output \in Bytes /\ TellsController(output.val)
                    /\ step >= 4 => Tells(output.val)

BytesInv ==
  /\ answers \in Seq(Telling)
  /\ OutputInv
  /\ TellsController(last)
  /\ passed \subseteq {"controller", "port", "keyboard"}
  /\ step >= 10 => Tells(last) /\ "controller" \in passed
  /\ step >= 12 => "port" \in passed
  /\ step >= 15 => "keyboard" \in passed

LEMMA SeqOfMore ==
  ASSUME NEW S, NEW T, S \subseteq T, NEW s \in Seq(S)
  PROVE  s \in Seq(T)
OBVIOUS

(* More tests passed: every byte that told the truth still does.           *)
LEMMA StillTelling ==
  ASSUME BytesInv, passed \subseteq passed'
  PROVE  /\ Telling \subseteq Telling'
         /\ answers \in Seq(Telling')
         /\ UNCHANGED last => TellsController(last)' /\ (step >= 10 => Tells(last)')
         /\ UNCHANGED <<output, step>> => OutputInv'
<1>1. Telling \subseteq Telling'
  BY DEF Telling, Tells, Bytes
<1>2. UNCHANGED last => TellsController(last)' /\ (step >= 10 => Tells(last)')
  BY DEF BytesInv, Tells, TellsController
<1>3. answers \in Seq(Telling')
  BY <1>1, SeqOfMore DEF BytesInv
<1>4. UNCHANGED <<output, step>> => OutputInv'
  BY DEF BytesInv, OutputInv, Tells, TellsController
<1> QED
  BY <1>1, <1>2, <1>3, <1>4

(* The devices' answers to a byte.                                         *)
LEMMA AnswersTell ==
  ASSUME StepInv, BytesInv, input # Taken, passed \subseteq passed', UNCHANGED step,
         NEW values \in Seq(Byte), \A i \in DOMAIN values : Tells(values[i])',
         Answers(values)
  PROVE  answers' \in Seq(Telling')
<1> DEFINE new == [i \in DOMAIN values |-> [val |-> values[i], to |-> input.to]]
<1>1. new \in Seq(Telling')
  <2>1. \A i \in DOMAIN values : [val |-> values[i], to |-> input.to] \in Telling'
    BY DEF StepInv, Telling, Tells, Bytes
  <2>2. DOMAIN values = 1..Len(values) /\ Len(values) \in Nat
    OBVIOUS
  <2> HIDE DEF Telling
  <2> QED
    BY <2>1, <2>2
<1>2. answers \in Seq(Telling')
  BY StillTelling
<1>3. answers' = answers \o new
  BY DEF Answers
<1> QED
  BY <1>1, <1>2, <1>3, Concatenation

(* A byte that the program reads.                                          *)
LEMMA ReadsTell ==
  ASSUME Present, StepInv, BytesInv, UNCHANGED passed, inb
  PROVE  /\ last' = Seen /\ output' = Empty
         /\ TellsController(Seen) /\ TellsController(last)'
         /\ step >= 10 => Tells(Seen) /\ Tells(last)'
<1>1. last' = Seen /\ output' = Empty
  BY DEF inb
<1>2. Seen = IF output # Empty THEN output.val ELSE last
  BY DEF Seen, Full
<1>3. TellsController(Seen) /\ (step >= 10 => Tells(Seen))
  <2>1. CASE output # Empty
    BY <1>2, <2>1 DEF StepInv, BytesInv, OutputInv
  <2>2. CASE output = Empty
    BY <1>2, <2>2 DEF BytesInv
  <2> QED
    BY <2>1, <2>2
<1> QED
  BY <1>1, <1>3 DEF Tells, TellsController

LEMMA BytesCorrect ==
  ASSUME Present, NoLookalike
  PROVE  Spec => []BytesInv
<1>1. Init => BytesInv
  <2> SUFFICES ASSUME Init
               PROVE  BytesInv
    OBVIOUS
  <2>1. OutputInv /\ TellsController(last)
    BY Ps2Assumption DEF Init, NoLookalike, OutputInv, Bytes, Byte, TellsController, NoCommand
  <2>2. answers \in Seq(Telling)
    BY DEF Init
  <2> QED
    BY <2>1, <2>2 DEF Init, BytesInv
<1>2. StepInv /\ StepInv' /\ ConfigInv /\ BytesInv /\ [Next]_vars => BytesInv'
  <2> SUFFICES ASSUME StepInv, StepInv', ConfigInv, BytesInv, [Next]_vars
               PROVE  BytesInv'
    OBVIOUS
  <2>1. CASE init_ps2
    <3>1. UNCHANGED <<answers, passed>> /\ step' \in {step, step + 1}
      BY <2>1, ProgramStep DEF StepInv, devices
    <3>2. /\ answers' \in Seq(Telling') /\ passed' \subseteq {"controller", "port", "keyboard"}
      BY <3>1, StillTelling DEF BytesInv
    <3>3. UNCHANGED <<output, last>> \/ inb
      BY <2>1 DEF init_ps2, ps2_send_command, outb_data, keyboard_send, keyboard_poll,
         keyboard_ack, ps2_wait_output, read_config, check_answer, drain
    <3>4. step = 3 /\ step' = 4 => output' = Empty
      <4> SUFFICES ASSUME step = 3, step' = 4
                   PROVE  output' = Empty
        OBVIOUS
      <4>1. drain
        <5>1. Op = "drain"
          BY ScriptTable DEF Op
        <5> QED
          BY <2>1, <5>1 DEF init_ps2, ps2_send_command, outb_data, keyboard_send, keyboard_poll,
             keyboard_ack, ps2_wait_output, read_config, check_answer
      <4> QED
        BY <4>1 DEF drain, Full
    <3>5. OutputInv'
      <4>1. CASE output' = Empty
        BY <4>1 DEF OutputInv, Empty
      <4>2. CASE UNCHANGED output /\ output' # Empty
        BY <3>1, <3>4, <4>2 DEF StepInv, BytesInv, OutputInv, Tells, TellsController
      <4> QED
        BY <3>1, <3>3, <4>1, <4>2, ReadsTell
    <3>6. TellsController(last)' /\ (step >= 10 => Tells(last)')
      <4>1. CASE UNCHANGED last
        BY <3>1, <4>1, StillTelling
      <4> QED
        BY <3>1, <3>3, <4>1, ReadsTell
    <3>7. step \in {9, 11, 14} /\ step' = step + 1 =>
            check_answer /\ Seen = Script[step].byte
      <4> SUFFICES ASSUME step \in {9, 11, 14}, step' = step + 1
                   PROVE  check_answer /\ Seen = Script[step].byte
        OBVIOUS
      <4>1. Op = "expect"
        BY ScriptTable DEF Op
      <4>2. ps2_wait_output \/ check_answer
        BY <2>1, <4>1 DEF init_ps2, ps2_send_command, outb_data, keyboard_send, keyboard_poll,
           keyboard_ack, read_config, drain
      <4>3. ~ps2_wait_output
        BY DEF ps2_wait_output, StepInv
      <4>4. Seen = That
        BY <4>2, <4>3 DEF check_answer, Return, StepInv
      <4> QED
        BY <4>2, <4>3, <4>4 DEF That
    <3>8. check_answer => TellsController(Seen) /\ (step >= 10 => Tells(Seen))
      BY <3>1, ReadsTell DEF check_answer
    <3>9. step = 9 /\ step' = 10 => "controller" \in passed' /\ Tells(last)'
      <4> SUFFICES ASSUME step = 9, step' = 10
                   PROVE  "controller" \in passed' /\ Tells(last)'
        OBVIOUS
      <4>1. check_answer /\ Seen = ControllerOk
        BY <3>7, ScriptTable
      <4>2. "controller" \in passed
        BY <3>8, <4>1 DEF TellsController
      <4>3. last' = ControllerOk
        BY <4>1 DEF check_answer, inb
      <4> QED
        BY <3>1, <4>2, <4>3 DEF Tells, ControllerOk, PortOk, KB_RESPONSE_TEST_PASS
    <3>10. step = 11 /\ step' = 12 => "port" \in passed'
      BY <3>1, <3>7, <3>8, ScriptTable DEF Tells
    <3>11. step = 14 /\ step' = 15 => "keyboard" \in passed'
      BY <3>1, <3>7, <3>8, ScriptTable DEF Tells
    <3>12. /\ step' >= 10 => "controller" \in passed'
           /\ step' >= 12 => "port" \in passed'
           /\ step' >= 15 => "keyboard" \in passed'
      BY <3>1, <3>9, <3>10, <3>11 DEF StepInv, BytesInv
    <3>13. step' >= 10 => Tells(last)'
      BY <3>1, <3>9, <3>6 DEF StepInv
    <3> QED
      BY <3>2, <3>5, <3>12, <3>13, <3>6 DEF BytesInv
  <2>2. CASE UNCHANGED vars
    BY <2>2 DEF vars, program, devices, BytesInv, OutputInv, Telling, Tells, TellsController
  <2>3. ASSUME input # Taken, passed \subseteq passed', UNCHANGED <<program, output>>,
               passed' \subseteq {"controller", "port", "keyboard"},
               answers' \in Seq(Telling')
        PROVE  BytesInv'
    <3>1. UNCHANGED <<step, last, output>>
      BY <2>3 DEF program
    <3>2. TellsController(last)' /\ (step >= 10 => Tells(last)')
      BY <2>3, <3>1, StillTelling
    <3>3. OutputInv'
      BY <2>3, <3>1, StillTelling
    <3> QED
      BY <2>3, <3>1, <3>2, <3>3 DEF BytesInv
  <2>4. CASE TakeCommand
    <3>1. input # Taken /\ UNCHANGED <<program, output, step>>
      BY <2>4 DEF TakeCommand, Busy, program
    <3>2. CASE Silent
      BY <2>3, <3>1, <3>2, StillTelling DEF Silent, BytesInv
    <3>3. CASE input.val = "READ_CONFIG" /\ Answers(<<status>>) /\ UNCHANGED passed
      <4>1. input.to = 4
        <5>1. input.val = Script[input.to].byte /\ input.to \in 1..20
          BY <3>1 DEF StepInv
        <5>2. Script[input.to].op = "command"
          BY <2>4 DEF TakeCommand
        <5> QED
          BY <3>3, <5>1, <5>2, StepOf, ScriptTable
      <4>2. Distinct(status)
        BY <3>1, <4>1 DEF ConfigInv
      <4>3. answers' \in Seq(Telling')
        <5> PICK b : b = status
          OBVIOUS
        <5> DEFINE values == <<b>>
        <5>1. values \in Seq(Byte) /\ \A i \in DOMAIN values : Tells(values[i])'
          BY <4>2, DistinctBytes DEF Tells, Distinct
        <5>2. Answers(values)
          BY <3>3 
        <5> HIDE DEF values
        <5> QED
          BY <3>1, <3>3, <5>1, <5>2, AnswersTell
      <4> QED
        BY <2>3, <3>1, <3>3, <4>3 DEF BytesInv
    <3>4. CASE Test("controller", ControllerOk)
      <4>1. PICK b : /\ b \in {ControllerOk, Failed} /\ Answers(<<b>>)
                     /\ passed' = IF b = ControllerOk THEN passed \cup {"controller"} ELSE passed
        BY <3>4 DEF Test, ControllerOk, Failed
      <4> DEFINE values == <<b>>
      <4>2. values \in Seq(Byte) /\ \A i \in DOMAIN values : Tells(values[i])'
        BY <4>1 DEF Tells, Byte, Failed, ControllerOk, PortOk, KB_RESPONSE_TEST_PASS
      <4>3. Answers(values)
        BY <4>1
      <4> HIDE DEF values
      <4>4. answers' \in Seq(Telling')
        BY <3>1, <4>1, <4>2, <4>3, AnswersTell
      <4> QED
        BY <2>3, <3>1, <4>1, <4>4 DEF BytesInv
    <3>5. CASE Test("port", PortOk)
      <4>1. PICK b : /\ b \in {PortOk, Failed} /\ Answers(<<b>>)
                     /\ passed' = IF b = PortOk THEN passed \cup {"port"} ELSE passed
        BY <3>5 DEF Test, PortOk, Failed
      <4> DEFINE values == <<b>>
      <4>2. values \in Seq(Byte) /\ \A i \in DOMAIN values : Tells(values[i])'
        BY <4>1 DEF Tells, Byte, Failed, ControllerOk, PortOk, KB_RESPONSE_TEST_PASS
      <4>3. Answers(values)
        BY <4>1
      <4> HIDE DEF values
      <4>4. answers' \in Seq(Telling')
        BY <3>1, <4>1, <4>2, <4>3, AnswersTell
      <4> QED
        BY <2>3, <3>1, <4>1, <4>4 DEF BytesInv
    <3> QED
      BY <2>4, <3>2, <3>3, <3>4, <3>5 DEF TakeCommand
  <2>5. CASE TakeConfig
    <3>1. answers \in Seq(Telling')
      BY <2>5, StillTelling DEF TakeConfig
    <3> QED
      BY <2>3, <2>5, <3>1 DEF TakeConfig, Busy, BytesInv
  <2>6. CASE TakeKeyboard
    <3>1. input # Taken /\ UNCHANGED <<program, output, step>>
      BY <2>6 DEF TakeKeyboard, Busy, program
    <3>2. CASE Silent
      BY <2>3, <3>1, <3>2, StillTelling DEF Silent, BytesInv
    <3>3. CASE \E b : /\ b \in {KB_RESPONSE_TEST_PASS, Failed}
                      /\ Answers(<<KB_RESPONSE_ACK, b>>)
                      /\ passed' = IF b = KB_RESPONSE_TEST_PASS THEN passed \cup {"keyboard"}
                                   ELSE passed
      <4>1. PICK b : /\ b \in {KB_RESPONSE_TEST_PASS, Failed}
                     /\ Answers(<<KB_RESPONSE_ACK, b>>)
                     /\ passed' = IF b = KB_RESPONSE_TEST_PASS THEN passed \cup {"keyboard"}
                                  ELSE passed
        BY <3>3
      <4> DEFINE values == <<KB_RESPONSE_ACK, b>>
      <4>2. values \in Seq(Byte) /\ \A i \in DOMAIN values : Tells(values[i])'
        BY <4>1 DEF Tells, Byte, Failed, ControllerOk, PortOk, KB_RESPONSE_TEST_PASS,
           KB_RESPONSE_ACK
      <4>3. Answers(values)
        BY <4>1
      <4> HIDE DEF values
      <4>4. answers' \in Seq(Telling')
        BY <3>1, <4>1, <4>2, <4>3, AnswersTell
      <4> QED
        BY <2>3, <3>1, <4>1, <4>4 DEF BytesInv
    <3>4. CASE Answers(<<KB_RESPONSE_ACK>>) /\ UNCHANGED passed
      <4> DEFINE values == <<KB_RESPONSE_ACK>>
      <4>1. values \in Seq(Byte) /\ \A i \in DOMAIN values : Tells(values[i])'
        BY DEF Tells, Byte, ControllerOk, PortOk, KB_RESPONSE_TEST_PASS, KB_RESPONSE_ACK
      <4>2. Answers(values)
        BY <3>4
      <4> HIDE DEF values
      <4>3. answers' \in Seq(Telling')
        BY <3>1, <3>4, <4>1, <4>2, AnswersTell
      <4> QED
        BY <2>3, <3>1, <3>4, <4>3 DEF BytesInv
    <3>5. \/ Silent
          \/ Answers(<<KB_RESPONSE_ACK, KB_RESPONSE_TEST_PASS>>)
             /\ passed' = passed \cup {"keyboard"}
          \/ Answers(<<KB_RESPONSE_ACK, Failed>>) /\ UNCHANGED passed
          \/ Answers(<<KB_RESPONSE_ACK>>) /\ UNCHANGED passed
      BY <2>6 DEF TakeKeyboard
    <3> QED
      BY <3>2, <3>3, <3>4, <3>5 DEF Failed, KB_RESPONSE_TEST_PASS
  <2>7. CASE Deliver
    <3>1. answers # <<>> /\ output' = Head(answers) /\ answers' = Tail(answers)
          /\ UNCHANGED <<program, passed>>
      BY <2>7 DEF Deliver
    <3>2. answers' \in Seq(Telling) /\ output' \in Telling
      <4> HIDE DEF Telling
      <4> QED
        BY <3>1 DEF BytesInv
    <3>3. Telling' = Telling
      BY <3>1 DEF Telling, Tells
    <3> QED
      BY <3>1, <3>2, <3>3 DEF BytesInv, OutputInv, program, Tells, Telling, TellsController
  <2>8. CASE Press
    <3>1. /\ answers' = Append(answers, [val |-> ScanCode, to |-> NoCommand])
          /\ UNCHANGED <<program, output, passed>>
      BY <2>8 DEF Press
    <3>2. [val |-> ScanCode, to |-> NoCommand] \in Telling
      BY DEF Telling, Bytes, Byte, Tells, ScanCode, NoCommand, ControllerOk, PortOk,
         KB_RESPONSE_TEST_PASS
    <3>3. answers' \in Seq(Telling)
      <4> HIDE DEF Telling
      <4> QED
        BY <3>1, <3>2 DEF BytesInv
    <3>4. Telling' = Telling
      BY <3>1 DEF Telling, Tells
    <3> QED
      BY <3>1, <3>3, <3>4 DEF BytesInv, OutputInv, program, Tells, TellsController
  <2> QED
    BY <2>1, <2>2, <2>4, <2>5, <2>6, <2>7, <2>8 DEF Next
<1> QED
  BY <1>1, <1>2, StepCorrect, ConfigCorrect, PTL DEF Spec

(* init_ps2 returns true only when controller, port and keyboard have      *)
(* reported that their tests passed, late answers and key presses or not,  *)
(* when neither the configuration byte nor the byte left over from before  *)
(* reads like an answer.                                                   *)
THEOREM TrueMeansTestedHolds ==
  ASSUME NoLookalike
  PROVE  Spec => []TrueMeansTested
<1>1. StepInv /\ BytesInv => TrueMeansTested
  <2> SUFFICES ASSUME StepInv, BytesInv, result = "true"
               PROVE  passed = {"controller", "port", "keyboard"}
    BY DEF TrueMeansTested
  <2>1. step = 20
    BY DEF StepInv
  <2>2. "controller" \in passed /\ "port" \in passed /\ "keyboard" \in passed
    BY <2>1 DEF BytesInv
  <2> QED
    BY <2>2 DEF BytesInv
<1>2. CASE Present
  BY <1>1, <1>2, StepCorrect, BytesCorrect, PTL
<1>3. CASE ~Present
  <2>1. AbsentInv => TrueMeansTested
    BY <1>3 DEF AbsentInv, TrueMeansTested
  <2> QED
    BY <2>1, AbsentCorrect, PTL
<1> QED
  BY <1>2, <1>3

-----------------------------------------------------------------------------
(***************************************************************************)
(* Tests in turn.  When answers come in time and nobody types, the devices *)
(* hold nothing but the exchange of the step that init_ps2 waits in.       *)
(***************************************************************************)
Calm == answers = <<>> /\ ~Full

(* The byte in the input buffer, if there is one, is that of step c.       *)
Only(S) == input # Taken => input.to \in S

(* One byte was sent at step c and has one answer.                         *)
Exchange(c) ==
  \/ Calm /\ input # Taken /\ input.to = c
  \/ input = Taken /\ ~Full /\ \E b : answers = <<b>> /\ b.to = c
  \/ input = Taken /\ Full /\ answers = <<>> /\ output.to = c

(* All there is answers the keyboard's reset.                              *)
ResetBytes == [val : Byte, to : {13}]

ResetAnswers ==
  /\ input = Taken
  /\ answers \in Seq(ResetBytes)
  /\ Full => output.to = 13

Dialogue ==
  /\ step \in 1..3 => answers = <<>> /\ Only({1, 2}) /\ at = "send"
  /\ step = 4      => Calm /\ Only({1, 2})
  /\ step = 5      => Exchange(4)
  /\ step = 6      => Calm /\ input = Taken
  /\ step = 7      => Calm /\ Only({6}) /\ (input = Taken => awaits = "config")
  /\ step = 8      => Calm /\ Only({7}) /\ (input # Taken => awaits = "config")
  /\ step = 9      => Exchange(8)
  /\ step = 10     => Calm /\ input = Taken
  /\ step = 11     => Exchange(10)
  /\ step = 12     => Calm /\ input = Taken
  /\ step = 13     => IF at = "send" THEN Calm /\ Only({12})
                      ELSE ResetAnswers \/ (Calm /\ input # Taken /\ input.to = 13)
  /\ step = 14     => ResetAnswers
  /\ step \in {5, 9, 11, 13} /\ at = "read" => Full

InTime == ~late /\ keys = 0 /\ result = "running"

TurnInv == keys \in Nat /\ (InTime => Dialogue)

LEMMA TurnByProgram ==
  ASSUME Present, StepInv, InTime, InTime', Dialogue, init_ps2
  PROVE  Dialogue'
<1>1. UNCHANGED <<answers, awaits>> /\ step' \in {step, step + 1} /\ step \in 1..20 /\ result = "running" /\ result' = "running"
  BY ProgramStep DEF StepInv, devices, InTime
<1>2. input # Taken => ~GivesUp
  BY DEF GivesUp, InTime
<1>3. ~Full /\ (input # Taken \/ answers # <<>>) => ~GivesUp
  BY DEF GivesUp, InTime
<1> USE <1>1
<1>4. CASE step \in {1, 2, 4, 6, 8, 10, 12}
  <2>1. Op = "command"
    BY <1>4, ScriptTable DEF Op
  <2>2. ps2_send_command
    BY <2>1 DEF init_ps2, outb_data, drain, keyboard_send, keyboard_poll, keyboard_ack,
       ps2_wait_output, read_config, check_answer
  <2>3. /\ input' # Taken /\ input'.to = step /\ UNCHANGED output /\ input = Taken
        /\ Advance
    BY <1>2, <2>1, <2>2, WriteIs DEF ps2_send_command, Busy
  <2>4. step' = step + 1 /\ at' = "send"
    BY <1>4, <2>3, AdvanceStep
  <2> QED
    BY <1>4, <2>3, <2>4 DEF Dialogue, Calm, Only, Exchange, Full
<1>5. CASE step = 3
  <2>1. Op = "drain"
    BY <1>5, ScriptTable DEF Op
  <2>2. drain
    BY <2>1 DEF init_ps2, outb_data, ps2_send_command, keyboard_send, keyboard_poll, keyboard_ack,
       ps2_wait_output, read_config, check_answer
  <2>3. UNCHANGED input
    BY <2>2 DEF drain
  <2>4. CASE Full
    BY <1>5, <2>2, <2>3, <2>4 DEF drain, inb, Dialogue, Only, Full
  <2>5. CASE ~Full
    <3>1. step' = 4 /\ at' = "send" /\ UNCHANGED output
      BY <1>5, <2>2, <2>5, AdvanceStep DEF drain
    <3> QED
      BY <1>5, <2>3, <2>5, <3>1 DEF Dialogue, Only, Calm, Full
  <2> QED
    BY <2>4, <2>5
<1>6. CASE step \in {5, 9, 11}
  <2>1. Op \in {"config", "expect"}
    BY <1>6, ScriptTable DEF Op
  <2>2. ps2_wait_output \/ read_config \/ check_answer
    BY <2>1 DEF init_ps2, outb_data, drain, keyboard_send, keyboard_poll, keyboard_ack,
       ps2_send_command
  <2>3. PICK c : Exchange(c) /\ c = IF step = 5 THEN 4 ELSE IF step = 9 THEN 8 ELSE 10
    BY <1>6 DEF Dialogue
  <2>4. CASE ps2_wait_output
    <3>1. Full
      BY <1>3, <2>3, <2>4 DEF ps2_wait_output, Exchange, Calm
    <3>2. UNCHANGED <<step, input, output>>
      BY <2>4 DEF ps2_wait_output
    <3> QED
      BY <1>6, <3>1, <3>2 DEF Dialogue, Exchange, Full, Calm
  <2>5. CASE read_config \/ check_answer
    <3>1. at = "read" /\ output' = Empty /\ UNCHANGED input /\ Advance
      BY <2>5 DEF read_config, check_answer, inb, Return
    <3>2. Full
      BY <1>6, <3>1 DEF Dialogue
    <3>3. input = Taken /\ answers = <<>>
      BY <2>3, <3>2 DEF Exchange, Calm
    <3>4. step' = step + 1 /\ at' = "send"
      BY <1>6, <3>1, AdvanceStep
    <3> QED
      BY <1>6, <3>1, <3>3, <3>4 DEF Dialogue, Calm, Full
  <2> QED
    BY <2>2, <2>4, <2>5
<1>7. CASE step = 7
  <2>1. Op = "data"
    BY <1>7, ScriptTable DEF Op
  <2>2. outb_data
    BY <2>1 DEF init_ps2, drain, ps2_send_command, keyboard_send, keyboard_poll, keyboard_ack,
       ps2_wait_output, read_config, check_answer
  <2>3. input = Taken /\ input' # Taken /\ input'.to = 7 /\ UNCHANGED output /\ Advance
    BY <1>2, <1>7, <2>1, <2>2, WriteIs DEF outb_data, Busy
  <2>4. step' = 8 /\ at' = "send"
    BY <1>7, <2>3, AdvanceStep
  <2> QED
    BY <1>7, <2>3, <2>4 DEF Dialogue, Calm, Only, Full
<1>8. CASE step = 13
  <2>1. Op = "keyboard" /\ That = "RESET"
    BY <1>8, ScriptTable DEF Op, That
  <2>2. keyboard_send \/ keyboard_poll \/ keyboard_ack
    BY <2>1 DEF init_ps2, drain, ps2_send_command, outb_data,
       ps2_wait_output, read_config, check_answer
  <2>3. ~KeyboardFailed
    BY <2>1 DEF KeyboardFailed, Return
  <2>4. CASE keyboard_send
    <3>1. input' # Taken /\ input'.to = 13 /\ at' = "poll" /\ UNCHANGED <<step, output>> /\ at = "send"
      BY <1>8, <2>1, <2>3, <2>4, WriteIs DEF keyboard_send
    <3> QED
      BY <1>8, <3>1 DEF Dialogue, Calm, Full
  <2>5. CASE keyboard_poll
    <3>1. Full /\ at' = "read" /\ UNCHANGED <<step, input, output>> /\ at = "poll"
      BY <2>3, <2>5 DEF keyboard_poll
    <3> QED
      BY <1>8, <3>1 DEF Dialogue, Calm, Full, ResetAnswers
  <2>6. CASE keyboard_ack
    <3>1. at = "read" /\ output' = Empty /\ UNCHANGED input /\ Advance
      BY <2>3, <2>6 DEF keyboard_ack, inb
    <3>2. step' = 14
      BY <1>8, <3>1, AdvanceStep
    <3> QED
      BY <1>8, <3>1, <3>2 DEF Dialogue, Calm, Full, ResetAnswers
  <2> QED
    BY <2>2, <2>4, <2>5, <2>6
<1>9. CASE step = 14
  <2>1. Op = "expect"
    BY <1>9, ScriptTable DEF Op
  <2>2. ps2_wait_output \/ check_answer
    BY <2>1 DEF init_ps2, drain, ps2_send_command, outb_data, keyboard_send, keyboard_poll,
       keyboard_ack, read_config
  <2>3. UNCHANGED input /\ (output' = Empty \/ UNCHANGED output)
    BY <2>2 DEF ps2_wait_output, check_answer, inb
  <2> QED
    BY <1>9, <2>3 DEF Dialogue, ResetAnswers, Full
<1>10. CASE step \in 15..20
  BY <1>10 DEF Dialogue
<1> QED
  BY <1>4, <1>5, <1>6, <1>7, <1>8, <1>9, <1>10

(* What a command does when it is taken.                                   *)
LEMMA CommandTaken ==
  ASSUME StepInv, TakeCommand
  PROVE  /\ input' = Taken /\ input # Taken /\ UNCHANGED <<step, at, output>>
         /\ input.to \in {1, 2, 4, 6, 8, 10, 12}
         /\ input.to \in {1, 2, 6, 12} => UNCHANGED answers
         /\ input.to \in {4, 8, 10} => \E b : Answers(<<b>>)
         /\ input.to = 6 => awaits' = "config"
<1>1. input' = Taken /\ input # Taken /\ UNCHANGED <<step, at, output>>
  BY DEF TakeCommand, Busy, program
<1>2. input.val = Script[input.to].byte /\ input.to \in 1..20
  BY <1>1 DEF StepInv
<1>3. Script[input.to].op = "command"
  BY DEF TakeCommand
<1>4. input.to \in {1, 2, 4, 6, 8, 10, 12}
  BY <1>2, <1>3, StepOf
<1>5. input.to \in {1, 2, 6, 12} => UNCHANGED answers
  <2>1. input.to \in {1, 2, 6, 12} =>
          input.val \notin {"READ_CONFIG", "TEST_CONTROLLER", "TEST_PORT1"}
    BY <1>2, ScriptTable
  <2> QED
    BY <2>1 DEF TakeCommand, Silent
<1>6. input.to \in {4, 8, 10} => \E b : Answers(<<b>>)
  <2>1. input.to \in {4, 8, 10} =>
          input.val \in {"READ_CONFIG", "TEST_CONTROLLER", "TEST_PORT1"}
    BY <1>2, ScriptTable
  <2> QED
    BY <2>1 DEF TakeCommand, Test
<1>7. input.to = 6 => awaits' = "config"
  BY <1>2, ScriptTable DEF TakeCommand
<1> QED
  BY <1>1, <1>4, <1>5, <1>6, <1>7

LEMMA OneAnswer ==
  ASSUME answers = <<>>, NEW b, Answers(<<b>>)
  PROVE  answers' = <<[val |-> b, to |-> input.to]>>
<1> DEFINE values == <<b>>
           new == [i \in DOMAIN values |-> [val |-> values[i], to |-> input.to]]
<1>1. new = <<[val |-> b, to |-> input.to]>>
  OBVIOUS
<1>2. answers' = answers \o new
  BY DEF Answers
<1> QED
  BY <1>1, <1>2

LEMMA ResetAnswered ==
  ASSUME answers = <<>>, input.to = 13, NEW values \in Seq(Byte), Answers(values)
  PROVE  answers' \in Seq(ResetBytes)
<1> DEFINE new == [i \in DOMAIN values |-> [val |-> values[i], to |-> input.to]]
<1>1. new \in Seq(ResetBytes)
  <2>1. \A i \in DOMAIN values : [val |-> values[i], to |-> input.to] \in ResetBytes
    BY DEF ResetBytes
  <2>2. DOMAIN values = 1..Len(values) /\ Len(values) \in Nat
    OBVIOUS
  <2> QED
    BY <2>1, <2>2
<1>2. answers' = answers \o new
  BY DEF Answers
<1> HIDE DEF new
<1>3. answers \in Seq(ResetBytes)
  OBVIOUS
<1> QED
  BY <1>1, <1>2, <1>3, Concatenation

LEMMA TurnByDevices ==
  ASSUME Present, StepInv, Dialogue,
         TakeCommand \/ TakeConfig \/ TakeKeyboard \/ Deliver
  PROVE  Dialogue'
<1>1. UNCHANGED <<step, at>> /\ step \in 1..20
  BY DEF TakeCommand, TakeConfig, TakeKeyboard, Deliver, program, StepInv
<1> USE <1>1
<1>2. CASE TakeCommand
  <2>1. CASE input.to \in {1, 2, 6, 12}
    <3>1. /\ UNCHANGED <<output, answers>> /\ input' = Taken /\ input # Taken
          /\ input.to = 6 => awaits' = "config"
      BY <1>2, <2>1, CommandTaken
    <3> QED
      BY <2>1, <3>1 DEF Dialogue, Calm, Only, Exchange, Full, ResetAnswers
  <2>2. CASE input.to \in {4, 8, 10}
    <3>1. UNCHANGED output /\ input' = Taken /\ input # Taken
      BY <1>2, CommandTaken
    <3>2. CASE Calm
      <4>1. \E b : answers' = <<b>> /\ b.to = input.to
        <5>1. PICK b : Answers(<<b>>)
          BY <1>2, <2>2, CommandTaken
        <5>2. answers' = <<[val |-> b, to |-> input.to]>>
          BY <3>2, <5>1, OneAnswer DEF Calm
        <5> QED
          BY <5>2
      <4> QED
        BY <2>2, <3>1, <3>2, <4>1 DEF Dialogue, Calm, Only, Exchange, Full, ResetAnswers
    <3>3. CASE ~Calm
      BY <2>2, <3>1, <3>3 DEF Dialogue, Calm, Only, Exchange, Full, ResetAnswers
    <3> QED
      BY <3>2, <3>3
  <2> QED
    BY <1>2, <2>1, <2>2, CommandTaken
<1>3. CASE TakeConfig
  <2>1. UNCHANGED <<output, answers>> /\ input' = Taken /\ input # Taken /\ Script[input.to].op # "command"
    BY <1>3 DEF TakeConfig, program, Busy
  <2>2. input.to \notin {1, 2, 4, 6, 8, 10, 12}
    BY <2>1, ScriptTable
  <2>3. CASE step = 13
    <3>1. answers = <<>> => answers \in Seq(ResetBytes)
      OBVIOUS
    <3> QED
      BY <2>1, <2>2, <2>3, <3>1 DEF Dialogue, Calm, Only, Full, ResetAnswers
  <2>4. CASE step # 13
    BY <2>1, <2>2, <2>4 DEF Dialogue, Calm, Only, Exchange, Full, ResetAnswers
  <2> QED
    BY <2>3, <2>4
<1>4. CASE TakeKeyboard
  <2>1. /\ UNCHANGED output /\ input' = Taken /\ input # Taken /\ Script[input.to].op # "command"
        /\ awaits # "config"
    BY <1>4 DEF TakeKeyboard, program, Busy
  <2>2. input.to \notin {1, 2, 4, 6, 8, 10, 12}
    BY <2>1, ScriptTable
  <2>3. CASE step = 13 /\ input.to = 13 /\ Calm /\ at # "send"
    <3>1. answers' \in Seq(ResetBytes)
      <4>1. CASE Silent
        BY <2>3, <4>1 DEF Silent, Calm
      <4>2. CASE \E values \in Seq(Byte) : Answers(values)
        BY <2>3, <4>2, ResetAnswered DEF Calm
      <4>3. /\ <<KB_RESPONSE_ACK>> \in Seq(Byte)
            /\ <<KB_RESPONSE_ACK, KB_RESPONSE_TEST_PASS>> \in Seq(Byte)
            /\ <<KB_RESPONSE_ACK, Failed>> \in Seq(Byte)
        BY DEF Byte, KB_RESPONSE_ACK, KB_RESPONSE_TEST_PASS, Failed
      <4> QED
        BY <1>4, <4>1, <4>2, <4>3 DEF TakeKeyboard
    <3> QED
      BY <2>1, <2>3, <3>1 DEF Dialogue, Calm, Full, ResetAnswers
  <2>4. CASE ~(step = 13 /\ input.to = 13 /\ Calm /\ at # "send")
    BY <2>1, <2>2, <2>4 DEF Dialogue, Calm, Only, Exchange, Full, ResetAnswers
  <2> QED
    BY <2>3, <2>4
<1>5. CASE Deliver
  <2>1. /\ ~Full /\ answers # <<>> /\ output' = Head(answers) /\ answers' = Tail(answers)
        /\ UNCHANGED <<input, awaits>>
    BY <1>5 DEF Deliver
  <2>2. CASE step \in {5, 9, 11}
    <3>1. PICK c : Exchange(c) /\ c = IF step = 5 THEN 4 ELSE IF step = 9 THEN 8 ELSE 10
      BY <2>2 DEF Dialogue
    <3>2. PICK b : answers = <<b>> /\ b.to = c /\ input = Taken
      BY <2>1, <3>1 DEF Exchange, Calm
    <3>3. answers' = <<>> /\ output' = b
      BY <2>1, <3>2
    <3>4. Full'
      BY <2>2, <3>1, <3>2, <3>3 DEF Full, Empty, NoCommand
    <3> QED
      BY <2>1, <2>2, <3>1, <3>2, <3>3, <3>4 DEF Dialogue, Exchange
  <2>3. CASE step \in {13, 14}
    <3>1. ResetAnswers
      BY <2>1, <2>3 DEF Dialogue, Calm
    <3>2. answers' \in Seq(ResetBytes) /\ output'.to = 13
      <4>1. output' \in ResetBytes /\ answers' \in Seq(ResetBytes)
        BY <2>1, <3>1 DEF ResetAnswers
      <4> QED
        BY <4>1 DEF ResetBytes
    <3>3. Full'
      BY <3>2 DEF Full, Empty, NoCommand
    <3> QED
      BY <2>1, <2>3, <3>1, <3>2, <3>3 DEF Dialogue, ResetAnswers, Calm
  <2>4. CASE step \notin {5, 9, 11, 13, 14}
    BY <2>1, <2>4 DEF Dialogue, Calm
  <2> QED
    BY <2>2, <2>3, <2>4
<1> QED
  BY <1>2, <1>3, <1>4, <1>5

LEMMA TurnCorrect ==
  ASSUME Present
  PROVE  Spec => []TurnInv
<1>1. Init => TurnInv
  BY DEF Init, TurnInv, Dialogue, Only
<1>2. StepInv /\ TurnInv /\ [Next]_vars => TurnInv'
  <2> SUFFICES ASSUME StepInv, TurnInv, [Next]_vars
               PROVE  TurnInv'
    OBVIOUS
  <2>1. CASE init_ps2
    <3>1. UNCHANGED <<keys, late>> /\ result = "running"
      BY <2>1, ProgramStep DEF StepInv, devices, init_ps2, ps2_send_command, outb_data, drain,
         keyboard_send, keyboard_poll, keyboard_ack, ps2_wait_output, read_config, check_answer
    <3> QED
      BY <2>1, <3>1, TurnByProgram DEF TurnInv, InTime
  <2>2. CASE TakeCommand \/ TakeConfig \/ TakeKeyboard \/ Deliver
    <3>1. UNCHANGED <<keys, late, result>>
      BY <2>2 DEF TakeCommand, TakeConfig, TakeKeyboard, Deliver, program
    <3> QED
      BY <2>2, <3>1, TurnByDevices DEF TurnInv, InTime
  <2>3. CASE Press
    BY <2>3 DEF Press, TurnInv, InTime
  <2>4. CASE UNCHANGED vars
    BY <2>4 DEF vars, program, devices, TurnInv, InTime, Dialogue, Calm, Only, Exchange, Full,
       ResetAnswers
  <2> QED
    BY <2>1, <2>2, <2>3, <2>4 DEF Next
<1> QED
  BY <1>1, <1>2, StepCorrect, PTL DEF Spec

LEMMA AskedSteps ==
  Asked(5) = 4 /\ Asked(9) = 8 /\ Asked(11) = 10 /\ Asked(13) = 13 /\ Asked(14) = 13
<1>1. Asked(13) = 13
  BY ScriptTable DEF Asked
<1>2. ASSUME NEW i \in {5, 9, 11, 14}
      PROVE  Asked(i) = i - 1
  <2> DEFINE P(j) == /\ Script[j].op \in {"command", "keyboard"}
                     /\ \A k \in (j + 1)..(i - 1) : Script[k].op \notin {"command", "keyboard"}
  <2>1. i - 1 \in 1..(i - 1) /\ P(i - 1)
    BY ScriptTable
  <2>2. \A j \in 1..(i - 1) : P(j) => j = i - 1
    <3> SUFFICES ASSUME NEW j \in 1..(i - 1), P(j), j # i - 1
                 PROVE  FALSE
      OBVIOUS
    <3>1. i - 1 \in (j + 1)..(i - 1)
      OBVIOUS
    <3> QED
      BY <2>1, <3>1
  <2>3. Script[i].op # "keyboard"
    BY ScriptTable
  <2>4. Asked(i) = CHOOSE j \in 1..(i - 1) : P(j)
    BY <2>3 DEF Asked
  <2> HIDE DEF P
  <2> QED
    BY <2>1, <2>2, <2>4
<1> QED
  BY <1>1, <1>2

(* When answers come in time and nobody types, what init_ps2 reads up to   *)
(* the keyboard's self-test is the answer to what it sent last.            *)
THEOREM AnswersComeInTurn == Spec => []TestsInTurn
<1>1. StepInv /\ TurnInv => TestsInTurn
  <2> SUFFICES ASSUME StepInv, TurnInv, ~late, keys = 0,
                      \A i \in 1..(step - 1) : Script[i].op = "keyboard" => i + 1 = step,
                      result = "running", at = "read", Full
               PROVE  output.to = Asked(step)
    BY DEF TestsInTurn, InTurn
  <2>1. Dialogue /\ step \in 1..20
    BY DEF TurnInv, InTime, StepInv
  <2>2. step <= 14
    <3> SUFFICES ASSUME step >= 15
                 PROVE  FALSE
      BY <2>1
    <3>1. 13 \in 1..(step - 1) /\ Script[13].op = "keyboard"
      BY <2>1, ScriptTable
    <3> QED
      BY <3>1
  <2>3. step \in {5, 9, 11, 13, 14}
    BY <2>1, <2>2 DEF Dialogue, Calm
  <2>4. output.to = IF step \in {13, 14} THEN 13 ELSE step - 1
    BY <2>1, <2>3 DEF Dialogue, Calm, Exchange, ResetAnswers
  <2> QED
    BY <2>3, <2>4, AskedSteps
<1>2. CASE Present
  BY <1>1, <1>2, StepCorrect, TurnCorrect, PTL
<1>3. CASE ~Present
  <2>1. AbsentInv => TestsInTurn
    BY <1>3 DEF AbsentInv, TestsInTurn, InTurn
  <2> QED
    BY <2>1, AbsentCorrect, PTL
<1> QED
  BY <1>2, <1>3
=============================================================================
