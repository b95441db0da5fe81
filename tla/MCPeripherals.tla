--------------------------- MODULE MCPeripherals ---------------------------
(* Constants of Peripherals for TLC: the pin of the UART and one more; a   *)
(* message with a line feed, one with a hexadecimal escape and one with    *)
(* another escape; servo settings for the clock there is at the start and  *)
(* for 8 MHz divided by 8, with a pulse of about 1 ms or 2 ms, a period    *)
(* whose successor overflows, and the bits that start and clear the timer. *)
EXTENDS Peripherals

MCPins == {0, 2}
MCCharacters == {"a", "b", "6", "1", "BACKSLASH", "h", "H", "NUL", "LF", "CR"}
MCKinds == {<<"a", "LF">>, <<"BACKSLASH", "h", "6", "1", "CR">>,
            <<"BACKSLASH", "a", "b", "CR">>}
MCMessages == <<MCKinds, {<<"a", "LF">>}>>
MCHex == [h \in MCCharacters \X MCCharacters |->
            IF h = <<"6", "1">> THEN "a" ELSE "NUL"]
MCMeaning == [m \in MCKinds |->
    CASE m[1] = "a" -> <<"a", "CR">>
      [] m[2] = "h" -> <<"a", "CR">>
      [] m[2] = "a" -> <<"BACKSLASH", "b", "CR">>]
MCTexts == {"a", "NUL"}

MCClockStores ==
    {<<"DCOCTL", 146>>, <<"BCSCTL1", 141>>, <<"BCSCTL2", 48>>, <<"BCSCTL2", 128>>,
     <<"TA0CCR0", 19999>>, <<"TA0CCR0", 65535>>, <<"TA0CCR1", 1000>>, <<"TA0CCR1", 2000>>,
     <<"TA0CTL", 528>>, <<"TA0CTL", 532>>}

MCMaxStores == [f \in Programs |-> CASE f = "servo" -> 7 [] f = "leds" -> 4 [] f = "uart" -> 2]
=============================================================================
