------------------------------- MODULE Times -------------------------------
(* GeneralizedTime.c and UTCTime.c: a time is kept as the text that came,   *)
(* and understood when an application asks for it or DER is to be written.  *)
(* A moment is [day, second], counted from 1970 in GMT, with the fraction   *)
(* of a second as a number, fv, of fd figures.                              *)
EXTENDS Prim

CONSTANT LocalZone      \* seconds that the process is ahead of GMT

(* -- timegm() and gmtime_r(): days that do not exist run on ----------------*)
IsLeap(y) == (y % 4 = 0 /\ y % 100 # 0) \/ y % 400 = 0
DaysOf(y) == <<31, IF IsLeap(y) THEN 29 ELSE 28, 31, 30, 31, 30, 31, 31, 30, 31, 30, 31>>
YearStart(y) == 365 * (y - 1970) + (y - 1) \div 4 - (y - 1) \div 100 + (y - 1) \div 400 - 477
MonthStart(y, m) == FoldLeft(LAMBDA n, k : n + DaysOf(y)[k], YearStart(y), [k \in 1..(m - 1) |-> k])

timegm(date, seconds) ==
  [day |-> MonthStart(date[1], date[2]) + date[3] - 1 + seconds \div 86400,
   second |-> seconds % 86400]
gmtime(day) ==
  LET y == Max({k \in (1969 + day \div 366)..(1971 + day \div 365) : YearStart(k) <= day})
      m == Max({k \in 1..12 : MonthStart(y, k) <= day})
  IN <<y, m, day - MonthStart(y, m) + 1>>

(* -- reading: AAAAMMJJhh[mm[ss[(.|,)ffff]]][Z|(+|-)hh[mm]] ---------------- *)
Figures(b, i, n) == i + n - 1 <= Len(b) /\ \A k \in i..(i + n - 1) : b[k] \in 48..57
Figured(b, i, n) == Number(10, [k \in 1..n |-> b[i + k - 1] - 48])

Pairs(b) ==        \* 1 with minutes, 2 with seconds, too
  IF ~Figures(b, 11, 1) THEN 0 ELSE IF ~Figures(b, 13, 1) THEN 1 ELSE 2
(* Of a fraction fv takes what an int has room for: nine figures here.      *)
HasFraction(b) == Pairs(b) = 2 /\ Len(b) >= 15 /\ b[15] \in {44, 46}
FractionFigures(b) == Max({k \in 0..(Len(b) - 15) : Figures(b, 16, k)})
Zone(b) ==
  LET stop == IF HasFraction(b) THEN 15 + FractionFigures(b) ELSE 10 + 2 * Pairs(b)
  IN SubSeq(b, stop + 1, Len(b))

(* What comes after a Z is not looked at.                                   *)
IsZone(z) ==
  \/ z = <<>> \/ z[1] = 90
  \/ z[1] \in {43, 45} /\ Len(z) \in {3, 5} /\ Figures(z, 2, Len(z) - 1)
gmtoff(z) ==
  LET ahead == 3600 * Figured(z, 2, 2) + IF Len(z) = 5 THEN 60 * Figured(z, 4, 2) ELSE 0
  IN IF z = <<>> THEN LocalZone
     ELSE IF z[1] = 90 THEN 0 ELSE IF z[1] = 45 THEN -ahead ELSE ahead

asn_GT2time_frac(b) ==
  LET date == <<Figured(b, 1, 4), Figured(b, 5, 2), Figured(b, 7, 2)>>
      hour == Figured(b, 9, 2)
      pair(k) == IF Pairs(b) >= k THEN Figured(b, 9 + 2 * k, 2) ELSE 0
      fd == IF HasFraction(b) THEN Min({9, FractionFigures(b)}) ELSE 0
      moment == timegm(date, 3600 * hour + 60 * pair(1) + pair(2) - gmtoff(Zone(b)))
  IN IF \/ Len(b) < 10 \/ ~Figures(b, 1, 10 + 2 * Pairs(b)) \/ ~IsZone(Zone(b))
        \/ date[2] \notin 1..12 \/ date[3] \notin 1..31 \/ hour > 23 \/ pair(2) > 60
        \/ moment = [day |-> -1, second |-> 86399]      \* tloc == -1
     THEN Failed
     ELSE [day |-> moment.day, second |-> moment.second, fv |-> Figured(b, 16, fd), fd |-> fd]

asn_UT2time(b) ==
  IF Len(b) \notin 11..21 THEN Failed
  ELSE asn_GT2time_frac((IF b[1] > 53 THEN <<49, 57>> ELSE <<50, 48>>) \o b)

(* -- writing, with force_gmt: six figures of a fraction at most, no zeroes *)
(*    at its end --------------------------------------------------------- *)
Padded(v, n) == [i \in 1..n |-> 48 + ((v \div 10^(n - i)) % 10)]
FractionText(fv, fd) ==
  LET figures == IF fd > 6 THEN Padded(fv \div 10^(fd - 6), 6) ELSE Padded(fv, fd)
      ends == {i \in DOMAIN figures : figures[i] # 48}
  IN IF ends = {} THEN <<>> ELSE <<46>> \o SubSeq(figures, 1, Max(ends))

asn_time2GT_frac(t) ==
  LET date == gmtime(t.day)
  IN Padded(date[1], 4) \o Padded(date[2], 2) \o Padded(date[3], 2)
       \o Padded(t.second \div 3600, 2) \o Padded((t.second \div 60) % 60, 2)
       \o Padded(t.second % 60, 2) \o FractionText(t.fv, t.fd) \o <<90>>
asn_time2UT(t) == SubSeq(asn_time2GT_frac([t EXCEPT !.fv = 0]), 3, 15)
=============================================================================
