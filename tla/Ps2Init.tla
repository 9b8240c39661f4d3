------------------------------ MODULE Ps2Init ------------------------------
(***************************************************************************)
(* init_ps2 of arch/ps2.cc against an i8042 controller and a keyboard that *)
(* take and answer bytes in their own time.  The code polls the status     *)
(* port a bounded number of times and mostly ignores that it gave up, so   *)
(* how late an answer may come decides what the code takes it for.         *)
(*                                                                         *)
(* The dialogue of init_ps2 is a script of sends and reads; one action     *)
(* each gives what its helper functions do at a step of the script.        *)
(***************************************************************************)
EXTENDS Integers, Sequences

CONSTANTS
  Present,       \* whether there is a controller at all
  LeftOver,      \* bytes that may be the last that came from the keyboard before
  BootConfigs,   \* configuration bytes the firmware may have left
  SecondPort,    \* whether the controller has a second port
  Lateness,      \* may answers come after the code gave up: {FALSE}, {TRUE}, both
  MaxKeys        \* bound: key presses during the set-up

ASSUME Ps2Assumption ==
  /\ Present \in BOOLEAN
  /\ LeftOver \cup BootConfigs \subseteq 0..255
  /\ SecondPort \in BOOLEAN
  /\ Lateness \subseteq BOOLEAN
  /\ MaxKeys \in Nat

Byte  == 0..255
NoCommand == 0
Empty     == [val |-> -1, to |-> NoCommand]      \* the empty output buffer
Taken     == [val |-> "none", to |-> NoCommand]  \* the empty input buffer

KB_RESPONSE_ACK       == 250
KB_RESPONSE_TEST_PASS == 170
ControllerOk          == 85
PortOk                == 0
Failed                == 252
Floating              == 255  \* what ports nobody drives read as
ScanCode              == 28

VARIABLES
  late,      \* whether answers may come late this time
  step,      \* where init_ps2 is in the script
  at,        \* and in that step: "send", "poll", "read"
  config,    \* its variable of that name
  result,    \* "running", "true", "false"
  last,      \* what the data port shows when there is nothing to read
  input,     \* the controller's input buffer: a byte for it, and its step
  output,    \* its output buffer: a byte, and the step it answers
  answers,   \* bytes on their way to the output buffer
  awaits,    \* the command whose data byte the devices wait for
  status,    \* the controller's configuration byte
  keys,      \* key presses so far
  passed,    \* tests the devices have reported as passed
  found      \* the configuration byte the controller reported

program == <<step, at, config, result, last>>
devices == <<late, answers, awaits, status, keys, passed, found>>
vars    == <<program, input, output, devices>>

-----------------------------------------------------------------------------
Cmd(c)       == [op |-> "command", byte |-> c]
Keyboard(c)  == [op |-> "keyboard", byte |-> c]
Data(b)      == [op |-> "data", byte |-> b]
Expect(b)    == [op |-> "expect", byte |-> b]
ReadConfig   == [op |-> "config"]
Drain        == [op |-> "drain"]

(* Mutants: the output buffer is not flushed; the port test's answer is    *)
(* thrown away.                                                            *)
Flush_Skipped    == << >>
TestPort_Ignored == << Cmd("TEST_PORT1"), Drain >>

Flush    == << Drain >>
TestPort == << Cmd("TEST_PORT1"), Expect(PortOk) >>

Script ==
  << Cmd("DISABLE_PORT1"), Cmd("DISABLE_PORT2") >> \o Flush \o
  << Cmd("READ_CONFIG"), ReadConfig, Cmd("WRITE_CONFIG"), Data("config"),
     Cmd("TEST_CONTROLLER"), Expect(ControllerOk) >> \o TestPort \o
  << Cmd("ENABLE_PORT1"),
     Keyboard("RESET"), Expect(KB_RESPONSE_TEST_PASS),
     Keyboard("SET_SCANCODE"), Data("set 1"), Keyboard("ENABLE"),
     Keyboard("SET_LEDS"), Data("leds"), Drain >>

Op   == Script[step].op
That == Script[step].byte

Bit(b, k) == (b \div 2^k) % 2

(* config &= ~(bits 0, 1 and 6), then bit 0 is set.                        *)
Configured(b) == b - Bit(b, 0) - 2 * Bit(b, 1) - 64 * Bit(b, 6) + 1

SetBit(b, k)   == b + (1 - Bit(b, k)) * 2^k
ClearBit(b, k) == b - Bit(b, k) * 2^k

Init ==
  /\ late \in Lateness
  /\ step = 1 /\ at = "send"
  /\ config = 0 /\ result = "running" /\ last \in LeftOver
  /\ input = Taken
  /\ output \in {Empty} \cup [val : LeftOver, to : {NoCommand}]
  /\ answers = <<>>
  /\ awaits = "none"
  /\ status \in BootConfigs
  /\ keys = 0
  /\ passed = {}
  /\ found = 0

-----------------------------------------------------------------------------
(* ps2_wait_input and ps2_wait_output give up when nothing happens, or,    *)
(* when answers are late, while something still will.                      *)
GivesUp == late \/ (input = Taken /\ answers = <<>>)

(* Without a controller the status port has all its bits set.              *)
Busy == ~Present \/ input # Taken
Full == ~Present \/ output # Empty

Return(value) ==
  /\ result' = value
  /\ UNCHANGED <<step, at>>

(* On to the next step; the last one registers the handler and is true.    *)
Advance ==
  IF step = Len(Script) THEN Return("true")
  ELSE step' = step + 1 /\ at' = "send" /\ UNCHANGED result

Write == input' = [val |-> That, to |-> step]

(* ps2_send_command: a command that cannot be sent is skipped.             *)
ps2_send_command ==
  /\ result = "running" /\ Op = "command"
  /\ \/ ~Busy /\ Write
     \/ Busy /\ GivesUp /\ UNCHANGED input
  /\ Advance
  /\ UNCHANGED <<config, last, output, devices>>

(* ps2_wait_input, then outb whatever it says.                             *)
outb_data ==
  /\ result = "running" /\ Op = "data"
  /\ Busy => GivesUp
  /\ Write
  /\ Advance
  /\ UNCHANGED <<config, last, output, devices>>

(* keyboard_send_command: RESET is the only command whose failure counts.  *)
KeyboardFailed == IF That = "RESET" THEN Return("false") ELSE Advance

keyboard_send ==
  /\ result = "running" /\ Op = "keyboard" /\ at = "send"
  /\ \/ ~Busy /\ Write /\ at' = "poll" /\ UNCHANGED <<step, result>>
     \/ Busy /\ GivesUp /\ KeyboardFailed /\ UNCHANGED input
  /\ UNCHANGED <<config, last, output, devices>>

keyboard_poll ==
  /\ result = "running" /\ Op = "keyboard" /\ at = "poll"
  /\ \/ Full /\ at' = "read" /\ UNCHANGED <<step, result>>
     \/ ~Full /\ GivesUp /\ KeyboardFailed
  /\ UNCHANGED <<config, last, input, output, devices>>

Seen == CASE ~Present -> Floating
          [] Present /\ Full -> output.val
          [] OTHER -> last
inb  == last' = Seen /\ output' = Empty

keyboard_ack ==
  /\ result = "running" /\ Op = "keyboard" /\ at = "read"
  /\ inb
  /\ IF Seen = KB_RESPONSE_ACK THEN Advance ELSE KeyboardFailed
  /\ UNCHANGED <<config, input, devices>>

(* ps2_wait_output, then inb whatever it says.                             *)
ps2_wait_output ==
  /\ result = "running" /\ Op \in {"config", "expect"} /\ at = "send"
  /\ ~Full => GivesUp
  /\ at' = "read"
  /\ UNCHANGED <<step, config, result, last, input, output, devices>>

read_config ==
  /\ result = "running" /\ Op = "config" /\ at = "read"
  /\ inb
  /\ config' = Configured(Seen)
  /\ Advance
  /\ UNCHANGED <<input, devices>>

check_answer ==
  /\ result = "running" /\ Op = "expect" /\ at = "read"
  /\ inb
  /\ IF Seen = That THEN Advance ELSE Return("false")
  /\ UNCHANGED <<config, input, devices>>

(* Mutant: the buffer's byte is looked at and left.                        *)
drain_NoRead ==
  /\ result = "running" /\ Op = "drain"
  /\ IF Full THEN UNCHANGED <<output, last, step, at, result>>
     ELSE UNCHANGED <<output, last>> /\ Advance
  /\ UNCHANGED <<config, input, devices>>

(* while there is something in the output buffer, read it.                 *)
drain ==
  /\ result = "running" /\ Op = "drain"
  /\ IF Full THEN inb /\ UNCHANGED <<step, at, result>>
     ELSE UNCHANGED <<output, last>> /\ Advance
  /\ UNCHANGED <<config, input, devices>>

init_ps2 ==
  \/ ps2_send_command \/ outb_data
  \/ keyboard_send \/ keyboard_poll \/ keyboard_ack
  \/ ps2_wait_output \/ read_config \/ check_answer \/ drain

-----------------------------------------------------------------------------
(* The devices.  The answers to the byte in the input buffer.              *)
Answers(values) ==
  answers' = answers \o [i \in DOMAIN values |-> [val |-> values[i], to |-> input.to]]

Test(name, good) ==
  \/ Answers(<<good>>) /\ passed' = passed \cup {name}
  \/ Answers(<<Failed>>) /\ UNCHANGED passed

PortOn == Bit(status, 4) = 0

Silent == UNCHANGED <<answers, passed>>

(* The controller takes a command of its own.                              *)
TakeCommand ==
  /\ input # Taken /\ Script[input.to].op = "command"
  /\ input' = Taken
  /\ awaits' = IF input.val = "WRITE_CONFIG" THEN "config" ELSE "none"
  /\ \/ /\ input.val \in {"DISABLE_PORT1", "DISABLE_PORT2", "ENABLE_PORT1", "WRITE_CONFIG"}
        /\ Silent
        /\ UNCHANGED found
     \/ /\ input.val = "READ_CONFIG"
        /\ Answers(<<status>>)
        /\ found' = status
        /\ UNCHANGED passed
     \/ /\ input.val = "TEST_CONTROLLER" /\ Test("controller", ControllerOk)
        /\ UNCHANGED found
     \/ /\ input.val = "TEST_PORT1" /\ Test("port", PortOk)
        /\ UNCHANGED found
  /\ status' = CASE input.val = "DISABLE_PORT1" -> SetBit(status, 4)
                 [] input.val = "DISABLE_PORT2" /\ SecondPort -> SetBit(status, 5)
                 [] input.val = "ENABLE_PORT1"  -> ClearBit(status, 4)
                 [] OTHER -> status
  /\ UNCHANGED <<program, output, late, keys>>

(* A data byte for the controller's WRITE_CONFIG.                          *)
TakeConfig ==
  /\ input # Taken /\ Script[input.to].op # "command" /\ awaits = "config"
  /\ input' = Taken
  /\ status' = config
  /\ awaits' = "none"
  /\ UNCHANGED <<program, output, late, answers, keys, passed, found>>

(* Other data bytes go to the keyboard, which acknowledges them, if its    *)
(* port is on.                                                             *)
TakeKeyboard ==
  /\ input # Taken /\ Script[input.to].op # "command" /\ awaits # "config"
  /\ input' = Taken
  /\ \/ ~PortOn /\ Silent
     \/ /\ PortOn /\ input.val = "RESET"
        /\ \/ /\ Answers(<<KB_RESPONSE_ACK, KB_RESPONSE_TEST_PASS>>)
              /\ passed' = passed \cup {"keyboard"}
           \/ Answers(<<KB_RESPONSE_ACK, Failed>>) /\ UNCHANGED passed
     \/ /\ PortOn /\ input.val # "RESET"
        /\ Answers(<<KB_RESPONSE_ACK>>)
        /\ UNCHANGED passed
  /\ UNCHANGED <<program, output, late, awaits, status, keys, found>>

Deliver ==
  /\ ~Full /\ answers # <<>>
  /\ output' = Head(answers)
  /\ answers' = Tail(answers)
  /\ UNCHANGED <<program, input, late, awaits, status, keys, passed, found>>

Press ==
  /\ Present /\ PortOn /\ keys < MaxKeys
  /\ keys' = keys + 1
  /\ answers' = Append(answers, [val |-> ScanCode, to |-> NoCommand])
  /\ UNCHANGED <<program, input, output, late, awaits, status, passed, found>>

Next == init_ps2 \/ TakeCommand \/ TakeConfig \/ TakeKeyboard \/ Deliver \/ Press

Spec == Init /\ [][Next]_vars

(* The CPU goes on; the devices take what they are sent and deliver.       *)
FairSpec ==
  /\ Spec
  /\ WF_vars(init_ps2) /\ WF_vars(TakeCommand) /\ WF_vars(TakeConfig)
  /\ WF_vars(TakeKeyboard) /\ WF_vars(Deliver)

-----------------------------------------------------------------------------
Bytes   == [val : Byte, to : Nat]
Commands == {Script[i].byte : i \in {j \in DOMAIN Script :
                  Script[j].op \in {"command", "keyboard", "data"}}}

TypeOK ==
  /\ late \in BOOLEAN
  /\ step \in DOMAIN Script
  /\ at \in {"send", "poll", "read"}
  /\ {config, last, status, found} \subseteq Byte
  /\ result \in {"running", "true", "false"}
  /\ input = Taken \/ (input.val \in Commands /\ input.to \in 1..Len(Script))
  /\ output = Empty \/ output \in Bytes
  /\ answers \in Seq(Bytes)
  /\ awaits \in {"none", "config"}
  /\ keys \in 0..MaxKeys
  /\ passed \subseteq {"controller", "port", "keyboard"}

(* The step whose byte an answer read at step i should answer.             *)
Asked(i) == IF Script[i].op = "keyboard" THEN i
            ELSE CHOOSE j \in 1..(i - 1) :
                   /\ Script[j].op \in {"command", "keyboard"}
                   /\ \A k \in (j + 1)..(i - 1) : Script[k].op \notin {"command", "keyboard"}

InTurn == result = "running" /\ at = "read" /\ Full => output.to = Asked(step)

(* "Wait for ACK" (ps2.cc:191): what is read is the answer to the byte     *)
(* that was sent last.                                                     *)
AnswersInTurn == InTurn

(* So it is, when answers come in time and nobody types, up to the         *)
(* keyboard's self-test: the answers that decide what init_ps2 returns.    *)
TestsInTurn ==
  /\ ~late /\ keys = 0
  /\ \A i \in 1..(step - 1) : Script[i].op = "keyboard" => i + 1 = step
  => InTurn

(* "Clear bits 0, 1, and 6 (enable IRQ1, disable IRQ12, disable            *)
(* translation)" (ps2.cc:240): when answers come in time the controller    *)
(* ends up with these as set, port 1 on, and the other bits as they were.  *)
ConfigKept ==
  ~late /\ result = "true" /\ ~Busy =>
    /\ Bit(status, 0) = 1
    /\ \A k \in {1, 4, 6}    : Bit(status, k) = 0
    /\ \A k \in {2, 3, 5, 7} : Bit(status, k) = Bit(found, k)

(* init_ps2 returns true only when controller, port and keyboard have      *)
(* reported that their tests passed: "return false; // Controller test     *)
(* failed" (ps2.cc:252).                                                   *)
TrueMeansTested == result = "true" => passed = {"controller", "port", "keyboard"}

(* "Clear any pending data" (ps2.cc:287): no answer to init_ps2 is left in *)
(* the buffer for the handler, which reads nothing.                        *)
NothingPending == result = "true" => output.to = NoCommand

(* Where there is a controller, init_ps2 returns, whatever the devices     *)
(* answer.                                                                 *)
SetUpReturns == <>(result # "running")
=============================================================================
