------------------------------- MODULE Clock -------------------------------
(***************************************************************************)
(* The basic clock module (bcm.c) and Timer_A with the servo motor         *)
(* (timer_a.c).  Both handlers read the guest's registers once per turn    *)
(* and touch nothing another thread uses but the packet queue, so each is  *)
(* one action.                                                             *)
(*                                                                         *)
(* Frequencies are in units of 1250 Hz: every one the code knows, and its  *)
(* quotient by 2, 4 or 8, is a whole number of them.                       *)
(***************************************************************************)
EXTENDS MainLoop, Naturals

CONSTANT ClockStores    \* the stores of the guest: <<register, value>>

VARIABLES
    reg,            \* the guest's clock and timer registers
    dco_freq, mclk_source, mclk_div, mclk_freq,   \* struct Bcm
    last,           \* last_period and last_pulse_width, see Now
    servo,          \* history: the angle of the last SERVO_MOTOR packet
    quiet           \* history: turns since the last store, up to 2

clockVars == <<reg, dco_freq, mclk_source, mclk_div, mclk_freq, last, servo, quiet>>

ByteRegisters == {"DCOCTL", "BCSCTL1", "BCSCTL2"}
ClockRegisters == ByteRegisters \cup {"TA0CTL", "TA0CCTL1", "TA0CCR0", "TA0CCR1"}
MaxWord == 65535
Words == 0..MaxWord
ASSUME ClockAssumption ==
    /\ ClockStores \subseteq ClockRegisters \X Words
    /\ \A s \in ClockStores : s[1] \in ByteRegisters => s[2] < 256

NoAngle == 999
Sources == {"DCOCLK", "XT2CLK", "VLOCLK"}

\* setup_bcm and setup_timer_a; the fields they leave are zero (calloc).
ClockInit ==
    /\ reg = [r \in ClockRegisters |->
                CASE r = "DCOCTL" -> 96 [] r = "BCSCTL1" -> 135 [] OTHER -> 0]
    /\ dco_freq = 824
    /\ mclk_source = "DCOCLK" /\ mclk_div = 0 /\ mclk_freq = 0
    /\ last = [count |-> 0, pulse |-> 0, freq |-> 1]
    /\ servo = NoAngle
    /\ quiet = 0

\* An instruction of the guest stores to a register.
ClockStore ==
    /\ \E s \in ClockStores : reg' = [reg EXCEPT ![s[1]] = s[2]]
    /\ quiet' = 0
    /\ UNCHANGED <<dco_freq, mclk_source, mclk_div, mclk_freq, last, servo>>

-----------------------------------------------------------------------------
(* handle_bcm                                                              *)

\* The settings the code knows: DCOx, RSELx and the frequency.
KnownDco == {<<3, 7, 824>>, <<4, 15, 12800>>, <<4, 14, 9600>>,
             <<4, 13, 6400>>, <<6, 6, 800>>}

DCOx == reg["DCOCTL"] \div 32
RSELx == reg["BCSCTL1"] % 16
SELMx == reg["BCSCTL2"] \div 64
DIVMx == (reg["BCSCTL2"] \div 16) % 4

Selected == {k \in KnownDco : k[1] = DCOx /\ k[2] = RSELx}

\* In the first turn the division is by zero: infinity converted to uint64_t
\* is 0 or beyond any clock.  The period is then outside the servo's range and
\* differs from every later one; 0 stands for both.
Quotient(freq, div) == IF div = 0 THEN 0 ELSE freq \div div

\* mclk_freq is computed before mclk_div and dco_freq are brought up to date.
handle_bcm ==
    /\ Main("bcm", "timer_a")
    /\ mclk_source' = CASE SELMx \in {0, 1} -> "DCOCLK"
                        [] SELMx = 2 -> "XT2CLK"
                        [] SELMx = 3 -> "VLOCLK"
    /\ mclk_freq' = IF SELMx \in {0, 1} THEN Quotient(dco_freq, mclk_div) ELSE mclk_freq
    /\ mclk_div' = <<1, 2, 4, 8>>[DIVMx + 1]
    /\ dco_freq' \in IF Selected = {} THEN {dco_freq} ELSE {k[3] : k \in Selected}
    /\ UNCHANGED <<reg, last, servo, quiet>>

-----------------------------------------------------------------------------
(* handle_timer_a                                                          *)

UP_MODE == 1
MC0 == (reg["TA0CTL"] \div 16) % 4
TA0CLR == (reg["TA0CTL"] \div 4) % 2
CAP == (reg["TA0CCTL1"] \div 256) % 2

\* TA0CTL & 0xFF0B
Cleared(ctl) == (ctl \div 256) * 256 + (ctl % 4) + 8 * ((ctl \div 8) % 2)

\* Mutant: the successor of the period register is wider than the register.
MutantTicks(freq) == [count |-> reg["TA0CCR0"] + 1, pulse |-> reg["TA0CCR1"], freq |-> freq]

\* The period and the pulse width in ticks, and the ticks' frequency.  The
\* period register is 16 bits wide: its successor wraps.
Ticks(freq) == [count |-> (reg["TA0CCR0"] + 1) % 65536, pulse |-> reg["TA0CCR1"],
                freq |-> freq]

\* Mutant: only the period is compared with the turn before.
MutantDiffers(t, u) == t.freq = 0 \/ u.freq = 0 \/ t.count * u.freq # u.count * t.freq

\* last_period != period || last_pulse_width != pulse_width, in seconds.
Differs(t, u) ==
    \/ t.freq = 0 \/ u.freq = 0
    \/ t.count * u.freq # u.count * t.freq
    \/ t.pulse * u.freq # u.pulse * t.freq

\* A period between 0.015 and 0.025 seconds moves the servo ...
InRange(t) == t.freq # 0 /\ 4 * t.count >= 75 * t.freq /\ 4 * t.count <= 125 * t.freq

\* ... to the angle of the pulse: less than 0.0009 seconds, 0.0012, ...
Angle(t) ==
    CASE 8 * t.pulse < 9 * t.freq -> 0
      [] 8 * t.pulse >= 9 * t.freq /\ 8 * t.pulse < 12 * t.freq -> 30
      [] 8 * t.pulse >= 12 * t.freq /\ 8 * t.pulse < 15 * t.freq -> 60
      [] 8 * t.pulse >= 15 * t.freq /\ 8 * t.pulse < 18 * t.freq -> 90
      [] 8 * t.pulse >= 18 * t.freq /\ 8 * t.pulse < 21 * t.freq -> 120
      [] OTHER -> 150

\* The timer drives the servo in compare and up mode only.
Driving == CAP = 0 /\ MC0 = UP_MODE

handle_timer_a ==
    LET now == Ticks(mclk_freq) IN
    /\ Main("timer_a", "port_1")
    /\ reg' = IF TA0CLR = 1 THEN [reg EXCEPT !["TA0CTL"] = Cleared(@)] ELSE reg
    /\ servo' = IF Driving /\ Differs(last, now) /\ InRange(now) THEN Angle(now) ELSE servo
    /\ last' = IF Driving THEN now ELSE last
    /\ quiet' = IF quiet < 2 THEN quiet + 1 ELSE 2
    /\ UNCHANGED <<dco_freq, mclk_source, mclk_div, mclk_freq>>

-----------------------------------------------------------------------------
\* The loop of mclk_wait_cycles has an end for one clock source only; with
\* another it prints and goes on for ever.
mclk_wait_cycles == turn = "wait" /\ turn' = IF mclk_source = "DCOCLK" THEN "decode" ELSE "wait"

-----------------------------------------------------------------------------
\* The calibration bytes in info memory: for DCOCTL, for BCSCTL1, and the
\* frequency they are for.
Calibration == {<<149, 143, 12800>>, <<158, 142, 9600>>,
                <<146, 141, 6400>>, <<209, 134, 800>>}

Calibrated == {c \in Calibration : c[1] = reg["DCOCTL"] /\ c[2] = reg["BCSCTL1"]}

\* The clock the guest has asked for; other settings than the calibrated ones
\* keep the frequency there is.
AskedFrequency ==
    Quotient(IF Calibrated = {} THEN dco_freq ELSE (CHOOSE c \in Calibrated : TRUE)[3],
             <<1, 2, 4, 8>>[DIVMx + 1])

ClockTypeOK ==
    /\ reg \in [ClockRegisters -> Words]
    /\ \A r \in ByteRegisters : reg[r] < 256
    /\ dco_freq \in {k[3] : k \in KnownDco}
    /\ mclk_source \in Sources
    /\ mclk_div \in {0, 1, 2, 4, 8}
    /\ mclk_freq \in Nat
    /\ last \in [count : Words, pulse : Words, freq : Nat]
    /\ servo \in {0, 30, 60, 90, 120, 150, NoAngle}
    /\ quiet \in 0..2

(* Two turns after the guest's last store the servo stands where the       *)
(* registers put it, whatever packets the stores in between produced:      *)
(* handle_bcm works with the divider and the frequency of the turn before, *)
(* handle_timer_a sends only what differs from the turn before, and the    *)
(* calibration bytes of memspace.c must mean to bcm.c what they say.       *)
ServoShowsSettings ==
    quiet = 2 /\ Driving /\ InRange(Ticks(AskedFrequency))
        => servo = Angle(Ticks(AskedFrequency))
=============================================================================
