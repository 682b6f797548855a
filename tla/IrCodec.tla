------------------------------ MODULE IrCodec ------------------------------
(***************************************************************************)
(* The code on the infrared light: how ir_codec.c of "ESP32 - IR Receiver"   *)
(* lays out the settings, sends them, and reads a captured frame back.       *)
(*                                                                         *)
(* A signal is a sequence of levels, one for each DATA_UNIT_DURATION; a      *)
(* captured symbol is a mark and the space behind it.  Durations are exact:   *)
(* the tolerance only absorbs jitter.                                      *)
(***************************************************************************)
EXTENDS Integers, Sequences

DATA_BITS == 34

Word == [1..DATA_BITS -> {0, 1}]        \* in the order they are sent

Binary(x, n) == [i \in 1..n |-> (x \div 2^(n - i)) % 2]

(* set_jetpoint_settings truncates to the bit-fields.  It writes neither the  *)
(* zeros nor anything else around them: "reserved" is what the structure held *)
(* before.                                                                  *)
SettingsWord(s, reserved) ==
  LET zeros(n) == [i \in 1..n |-> reserved]
  IN <<s.power>> \o Binary(s.mode, 3) \o Binary(s.fan, 2) \o zeros(2) \o <<s.swing>>
     \o zeros(2) \o Binary(s.temperature - 16, 4) \o <<s.sleep>>
     \o zeros(16) \o <<1>> \o zeros(1)

(* "1" is sent as a space and a mark, "0" as a mark and a space. *)
HalfBits(word) ==
  [i \in 1..2 * DATA_BITS |-> IF i % 2 = 1 THEN 1 - word[(i + 1) \div 2] ELSE word[i \div 2]]

Code(word) == <<1, 1, 1, 0, 0, 0>> \o HalfBits(word)

(* The three repetitions and the trailing mark of encode_jetpoint_settings. *)
Signal(word) == Code(word) \o Code(word) \o Code(word) \o <<1, 1, 1, 1>>

(* What the RMT receiver measures: how long the level at a place lasts. *)
Lasts(signal, at) ==
  CHOOSE n \in 1..Len(signal) :
    /\ \A i \in at..(at + n - 1) : signal[i] = signal[at]
    /\ at + n > Len(signal) \/ signal[at + n] # signal[at]

Halves(level, duration) == IF duration = 2 THEN <<level, level>> ELSE <<level>>

(* A plausible slip: the leading symbol is skipped whole. *)
LeadingSkipped(space) == <<>>

(* A leading space of four units holds the first half of the first bit. *)
LeadingHalf(space) == IF space = 4 THEN <<0>> ELSE <<>>

(* rmt_decode_manchester: the halves read so far, and the place behind them. *)
ReadLeading(signal) ==
  LET mark == Lasts(signal, 1)
      space == Lasts(signal, 1 + mark)
  IN [bits |-> LeadingHalf(space), at |-> 1 + mark + space]

(* Symbol by symbol until the first repetition is read. *)
ReadSymbol(signal, r) ==
  LET duration0 == Lasts(signal, r.at)
      duration1 == Lasts(signal, r.at + duration0)
  IN IF Len(r.bits) >= 2 * DATA_BITS THEN r
     ELSE [bits |-> r.bits \o Halves(1, duration0) \o Halves(0, duration1),
           at |-> r.at + duration0 + duration1]

Reading(signal) ==
  LET read[i \in 0..DATA_BITS] ==
        IF i = 0 THEN ReadLeading(signal) ELSE ReadSymbol(signal, read[i - 1])
  IN read

(* The first half of each bit is taken for the bit. *)
Decode(signal) ==
  LET read == Reading(signal)[DATA_BITS]
  IN [j \in 1..DATA_BITS |-> read.bits[2 * j - 1]]

Complement(word) == [j \in 1..DATA_BITS |-> 1 - word[j]]
=============================================================================
