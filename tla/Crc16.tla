-------------------------------- MODULE Crc16 --------------------------------
(***************************************************************************)
(* The hash-slot function of the cluster as fqdn_slots.py computes it:     *)
(* CRC-16/XMODEM of a byte string, folded to NUM_SLOTS, and the decimal    *)
(* text of a counter as the bytes that are hashed.                         *)
(***************************************************************************)
EXTENDS Integers, Sequences

NUM_SLOTS == 16384

\* x with bit 2^b flipped.
Flip(x, w) == IF (x \div w) % 2 = 1 THEN x - w ELSE x + w

\* Exclusive or with the polynomial 0x1021, whose bits are 12, 5 and 0.
XorPoly(x) == Flip(Flip(Flip(x, 4096), 32), 1)

\* One of the eight shifts the code makes for a byte.
M_ShiftWrongPoly(crc) ==
  IF crc >= 32768 THEN Flip(Flip((crc * 2) % 65536, 4096), 1) ELSE crc * 2

Shift(crc) ==
  IF crc >= 32768 THEN XorPoly((crc * 2) % 65536) ELSE crc * 2

\* crc ^= byte << 8, bit by bit.
XorHighByte(crc, byte) ==
  LET x[b \in 0..8] ==
        IF b = 0 THEN crc
        ELSE IF (byte \div 2^(b-1)) % 2 = 1 THEN Flip(x[b-1], 2^(b+7)) ELSE x[b-1]
  IN  x[8]

CrcByte(crc, byte) ==
  LET c[i \in 0..8] == IF i = 0 THEN XorHighByte(crc, byte) ELSE Shift(c[i-1])
  IN  c[8]

crc16(data) ==
  LET crc[i \in 0..Len(data)] ==
        IF i = 0 THEN 0 ELSE CrcByte(crc[i-1], data[i])
  IN  crc[Len(data)]

slot(data) == crc16(data) % NUM_SLOTS

\* The positions of a byte in a key, from position i on.
Positions(key, byte, i) == {p \in i..Len(key) : key[p] = byte}

First(positions) == CHOOSE p \in positions : \A q \in positions : p <= q

M_key_slot_whole(key) == slot(key)

\* The slot of a whole key: only what stands between the first "{" and the
\* "}" after it is hashed, if there is something.
key_slot(key) ==
  LET opens == Positions(key, 123, 1)
      start == First(opens)
      closes == Positions(key, 125, start + 1)
  IN  IF opens # {} /\ closes # {} /\ First(closes) # start + 1
      THEN slot(SubSeq(key, start + 1, First(closes) - 1))
      ELSE slot(key)

\* str(k).encode(): the ASCII codes of the decimal digits of a counter.
DecimalDigits[n \in Nat] ==
  IF n < 10 THEN <<48 + n>> ELSE Append(DecimalDigits[n \div 10], 48 + (n % 10))

CounterSlot(n) == slot(DecimalDigits[n])
==============================================================================
