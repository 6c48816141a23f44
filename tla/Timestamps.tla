----------------------------- MODULE Timestamps -----------------------------
(***************************************************************************)
(* The timestamps of the DynamoDB adapter: RFC3339Nano strings, compared   *)
(* by DynamoDB as strings.  RFC3339Nano drops trailing zeros of the        *)
(* fraction, and with them the point, so that the order of the strings is  *)
(* not the order of the instants within a second.                          *)
(***************************************************************************)
EXTENDS Integers, Sequences

CONSTANT Precision   \* decimals of a second that the clock shows

ASSUME PrecisionAssumption == Precision \in Nat

(* Clock units in a second.                                                *)
Second == 10 ^ Precision

(* How many decimals of the fraction are left.                             *)
Decimals(t) ==
    CHOOSE d \in 0..Precision :
        /\ t % 10 ^ (Precision - d) = 0
        /\ \A c \in 0..(d - 1) : t % 10 ^ (Precision - c) # 0

(* Character codes; everything down to the seconds has a fixed width and   *)
(* is one number here.                                                     *)
Point == 46
Digit(n) == 48 + n
Zulu  == 90

(* Mutant of timestamp: all decimals but the last are lost.                *)
timestampShortened(t) ==
    <<t \div Second>>
      \o (IF Decimals(t) = 0 THEN <<>>
          ELSE <<Point, Digit((t \div 10 ^ (Precision - Decimals(t))) % 10)>>)
      \o <<Zulu>>

timestamp(t) ==
    <<t \div Second>>
      \o (IF Decimals(t) = 0 THEN <<>> ELSE <<Point>>)
      \o [k \in 1..Decimals(t) |-> Digit((t \div 10 ^ (Precision - k)) % 10)]
      \o <<Zulu>>

(* DynamoDB's "s <= t" on timestamps: the first difference decides.        *)
NotAfter(t, u) ==
    LET a == timestamp(t)
        b == timestamp(u)
    IN  \/ a = b
        \/ \E k \in DOMAIN a \cap DOMAIN b :
              /\ a[k] < b[k]
              /\ \A j \in 1..(k - 1) : a[j] = b[j]

=============================================================================
