---------------------------- MODULE SerialConsole --------------------------
(***************************************************************************)
(* Reading a line from the console: the application's ACTION_RECEIVE       *)
(* through handle_logging_service, console_read, uart_read                 *)
(* (kernel/device/console/usart/usart_console.c) and arch_uart_read.       *)
(***************************************************************************)
EXTENDS Integers

CONSTANTS
    Char,           \* characters, EOL among them
    EOL,            \* carriage return or newline
    NUL,            \* the string terminator, none of Char
    MaxLen          \* the application's buffer

VARIABLES
    buf,        \* the buffer in the RAM of the application
    i,          \* the loop's index
    pc,
    result,     \* what console_read has returned
    received    \* history: the characters the UART has stored during the call

vars == <<buf, i, pc, result, received>>

TypeOK ==
    /\ buf \in [0..(MaxLen - 1) -> Char \cup {NUL}]
    /\ i \in 0..MaxLen
    /\ pc \in {"poll", "loop"}
    /\ result \in -1..MaxLen
    /\ received \in 0..MaxLen

Init ==
    /\ buf = [k \in 0..(MaxLen - 1) |-> NUL]
    /\ i = 0 /\ pc = "poll" /\ result = 0 /\ received = 0

\* The shell asks for a line.
ConsoleRead ==
    /\ pc = "poll" /\ pc' = "loop"
    /\ i' = 0 /\ received' = 0
    /\ UNCHANGED <<buf, result>>

\* arch_uart_read of one byte: 0 when UART1_Read has stored it, else -1.
arch_uart_read(ok) == IF ok THEN 0 ELSE -1

Return(n) == pc' = "poll" /\ result' = n

\* One turn of uart_read's loop; c is what the UART has, ok what it answers.
Turn(c, ok) ==
    /\ pc = "loop" /\ i < MaxLen
    /\ received' = received + (IF ok THEN 1 ELSE 0)
    /\ LET stored == IF ok THEN [buf EXCEPT ![i] = c] ELSE buf
       IN  IF arch_uart_read(ok) # 1
           THEN buf' = stored /\ Return(i) /\ UNCHANGED i
           ELSE IF stored[i] = EOL
                THEN buf' = [stored EXCEPT ![i] = NUL] /\ Return(i) /\ UNCHANGED i
                ELSE buf' = stored /\ i' = i + 1 /\ UNCHANGED <<pc, result>>

Full ==
    /\ pc = "loop" /\ i = MaxLen
    /\ Return(i)
    /\ UNCHANGED <<buf, i, received>>

Next ==
    \/ ConsoleRead \/ Full
    \/ \E c \in Char, ok \in BOOLEAN : Turn(c, ok)

Spec == Init /\ [][Next]_vars

\* console_read returns the number of bytes read, without the terminator (the
\* comment on console_ops_t.read in console.h, and on console_read): all that
\* the UART stored, but for the end of the line.
ReadReturnsBytesRead ==
    [][pc = "loop" /\ pc' = "poll" =>
            \/ result' = received'
            \/ result' + 1 = received' /\ buf'[result'] = NUL]_vars
=============================================================================
