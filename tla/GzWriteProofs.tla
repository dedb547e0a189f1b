---------------------------- MODULE GzWriteProofs ----------------------------
(***************************************************************************)
(* The other steps of GzWrite keep the invariant of GzWriteLemmas, and     *)
(* what follows for every application that uses a file with care: nothing  *)
(* that was accepted is lost, repeated or put in another order on its way  *)
(* to the file.                                                            *)
(***************************************************************************)
EXTENDS GzWriteSteps

-----------------------------------------------------------------------------
(* gz_zero.                                                                *)

\* What is buffered goes before the gap.
LEMMA ZeroFirstKeeps ==
  ASSUME Inv, Zero, g.in # <<>>
  PROVE  Inv'
<1>1. c.pc = "zero" /\ c' = Comp(c, "NO", "zeros") /\ g.in # <<>>
  BY DEF Zero
<1>2. /\ file' = file /\ g' = g /\ nin' = nin /\ out' = out /\ d' = d /\ ret' = ret /\ acc' = acc
      /\ acked' = acked /\ faults' = faults /\ app' = app
  BY DEF Zero
<1>3. TypeInv /\ ControlInv /\ EmptyInv /\ HurtInv /\ InputInv /\ CallInv /\ DataInv /\ FinInv
      /\ ShapeInv /\ DrainInv
  BY DEF Inv
<1>4. c \in CallStates
  BY <1>1, <1>3 DEF TypeInv, ControlInv, PlaceInv, ArgInv, Zeroing, CallStates
<1>5. /\ c' \in CallStates /\ c'.pc = "comp" /\ c'.op = c.op /\ c'.main = c.main
      /\ c'.back = "zeros" /\ c'.left = c.left /\ c'.all = c.all /\ c'.arg = c.arg
      /\ c'.flush = "NO" /\ c'.dret = "OK" /\ c'.zeroed = c.zeroed /\ c'.rest = c.rest
      /\ c'.ret = c.ret /\ c'.par = c.par
  BY <1>1, <1>4, CompOK DEF CompFacts, FlushValues, Backs
<1>6. Sent' = Sent /\ Data' = Data
  BY <1>2 DEF Sent, Data
<1>7. TypeInv'
  BY <1>1, <1>2, <1>3, <1>5 DEF TypeInv, MaxCalls, MaxFaults
<1>8. ControlInv'
  <2>1. IdleInv'
    BY <1>1, <1>4, <1>5 DEF IdleInv, Mains
  <2>2. PlaceInv'
    BY <1>1, <1>2, <1>3, <1>4, <1>5 DEF ControlInv, PlaceInv, Zeroing, At, Mains
  <2>3. ArgInv'
    BY <1>1, <1>2, <1>3, <1>4, <1>5
       DEF ControlInv, ArgInv, PlaceInv, Zeroing, At, Mains, Flushes, Seeks
  <2> QED  BY <2>1, <2>2, <2>3 DEF ControlInv
<1>9. EmptyInv'
  BY <1>2, <1>3 DEF EmptyInv
<1>10. HurtInv'
  BY <1>1, <1>2, <1>3, <1>4, <1>5 DEF HurtInv, Faults
<1>11. InputInv'
  BY <1>1, <1>2, <1>3, <1>4, <1>5 DEF InputInv, Zeroing, At, Mains
<1>12. CallInv'
  BY <1>1, <1>2, <1>3, <1>4, <1>5, SMTT(40)
     DEF CallInv, EndsIn, At, CallStates, TypeInv, ControlInv, PlaceInv, ArgInv, Zeroing, Mains
<1>13. DataInv'
  BY <1>1, <1>2, <1>3, <1>4, <1>5, <1>6 DEF DataInv, Broken, Closing_, At
<1>14. FinInv'
  BY <1>1, <1>2, <1>3, <1>4, <1>5 DEF FinInv, EmptyInv, Flushes
<1>15. ShapeInv'
  BY <1>1, <1>2, <1>3, <1>4, <1>5, <1>6 DEF ShapeInv, Within, WellFormed
<1>16. DrainInv'
  BY <1>1, <1>2, <1>3, <1>4, <1>5, <1>6
     DEF DrainInv, Drained, Finished, FlushOK, EmptyInv, Flushes, Mains
<1> QED  BY <1>7, <1>8, <1>9, <1>10, <1>11, <1>12, <1>13, <1>14, <1>15, <1>16 DEF Inv

\* Nothing is buffered before the gap.
LEMMA ZeroEmptyKeeps ==
  ASSUME Inv, Zero, g.in = <<>>
  PROVE  Inv'
<1>1. c.pc = "zero" /\ c' = [c EXCEPT !.pc = "zeros"]
  BY DEF Zero
<1>2. /\ file' = file /\ g' = g /\ nin' = nin /\ out' = out /\ d' = d /\ ret' = ret /\ acc' = acc
      /\ acked' = acked /\ faults' = faults /\ app' = app
  BY DEF Zero
<1>3. TypeInv /\ ControlInv /\ EmptyInv /\ HurtInv /\ InputInv /\ CallInv /\ DataInv /\ FinInv
      /\ ShapeInv /\ DrainInv
  BY DEF Inv
<1>4. c \in CallStates
  BY <1>1, <1>3 DEF TypeInv, ControlInv, PlaceInv, ArgInv, Zeroing, CallStates
<1>5. /\ c' \in CallStates /\ c'.pc = "zeros" /\ c'.op = c.op /\ c'.main = c.main
      /\ c'.back = c.back /\ c'.left = c.left /\ c'.all = c.all /\ c'.arg = c.arg
      /\ c'.flush = c.flush /\ c'.dret = c.dret /\ c'.zeroed = c.zeroed /\ c'.rest = c.rest
      /\ c'.ret = c.ret /\ c'.par = c.par
  BY <1>1, <1>4, ZenonT(60) DEF CallStates, Pcs, Mains, Backs
<1>6. Sent' = Sent /\ Data' = Data
  BY <1>2 DEF Sent, Data
<1>7. TypeInv'
  BY <1>1, <1>2, <1>3, <1>5 DEF TypeInv, MaxCalls, MaxFaults
<1>8. ControlInv'
  <2>1. IdleInv'
    BY <1>1, <1>4, <1>5 DEF IdleInv, Mains
  <2>2. PlaceInv'
    BY <1>1, <1>2, <1>3, <1>4, <1>5 DEF ControlInv, PlaceInv, Zeroing, At, Mains
  <2>3. ArgInv'
    BY <1>1, <1>2, <1>3, <1>4, <1>5
       DEF ControlInv, ArgInv, PlaceInv, Zeroing, At, Mains, Flushes, Seeks
  <2> QED  BY <2>1, <2>2, <2>3 DEF ControlInv
<1>9. EmptyInv'
  BY <1>2, <1>3 DEF EmptyInv
<1>10. HurtInv'
  BY <1>1, <1>2, <1>3, <1>4, <1>5 DEF HurtInv, Faults
<1>11. InputInv'
  BY <1>1, <1>2, <1>3, <1>4, <1>5 DEF InputInv, Zeroing, At, Mains
<1>12. CallInv'
  BY <1>1, <1>2, <1>3, <1>4, <1>5
     DEF CallInv, EndsIn, At, CallStates, TypeInv, ControlInv, PlaceInv, ArgInv, Zeroing, Mains
<1>13. DataInv'
  BY <1>1, <1>2, <1>3, <1>4, <1>5, <1>6 DEF DataInv, Broken, Closing_, At
<1>14. FinInv'
  BY <1>1, <1>2, <1>3, <1>4, <1>5 DEF FinInv, EmptyInv, Flushes
<1>15. ShapeInv'
  BY <1>1, <1>2, <1>3, <1>4, <1>5, <1>6 DEF ShapeInv, Within, WellFormed
<1>16. DrainInv'
  BY <1>1, <1>2, <1>3, <1>4, <1>5, <1>6
     DEF DrainInv, Drained, Finished, FlushOK, EmptyInv, Flushes, Mains
<1> QED  BY <1>7, <1>8, <1>9, <1>10, <1>11, <1>12, <1>13, <1>14, <1>15, <1>16 DEF Inv

\* What fills a gap comes behind the data.
Gap(a, n, z) ==
  /\ z \in Seq(Int) /\ Len(z) = n /\ a \o z \in Seq(Int) /\ Len(a \o z) = Len(a) + n
  /\ \A i \in 1 .. Len(a) : (a \o z)[i] = a[i]
  /\ \A i \in Len(a) + 1 .. Len(a) + n : (a \o z)[i] <= 0

LEMMA ZerosOK ==
  ASSUME NEW a \in Seq(Int), NEW n \in Nat, NEW z \in [1 .. n -> Int], \A i \in 1 .. n : z[i] <= 0
  PROVE  Gap(a, n, z)
<1>1. z \in Seq(Int) /\ Len(z) = n /\ \A i \in 1 .. n : z[i] <= 0
  OBVIOUS
<1>2. a \o z \in Seq(Int) /\ Len(a \o z) = Len(a) + n /\ Len(a) \in Nat
      /\ \A i \in 1 .. Len(a) + n : (a \o z)[i] = IF i <= Len(a) THEN a[i] ELSE z[i - Len(a)]
  <2>1. /\ a \o z \in Seq(Int) /\ Len(a \o z) = Len(a) + Len(z)
        /\ \A i \in 1 .. Len(a) + Len(z) : (a \o z)[i] = IF i <= Len(a) THEN a[i] ELSE z[i - Len(a)]
    BY <1>1, ConcatProperties, Zenon
  <2>2. Len(z) = n
    BY <1>1
  <2> QED  BY <2>1, <2>2, EmptyInt
<1>3. ASSUME NEW i \in Len(a) + 1 .. Len(a) + n
      PROVE  (a \o z)[i] <= 0
  <2>1. i \in 1 .. Len(a) + n /\ ~(i <= Len(a)) /\ i - Len(a) \in 1 .. n
    BY <1>2
  <2> QED  BY <1>1, <1>2, <2>1
<1>4. ASSUME NEW i \in 1 .. Len(a)
      PROVE  (a \o z)[i] = a[i]
  <2>1. i \in 1 .. Len(a) + n /\ i <= Len(a)
    BY <1>2
  <2> QED  BY <1>2, <2>1
<1> QED  BY <1>1, <1>2, <1>3, <1>4 DEF Gap

\* The next buffer of zeros, or of what malloc has left.
LEMMA ZerosKeeps ==
  ASSUME Inv, NEW n, NEW z, n = Least(g.size, g.skip), z \in [1 .. n -> Int],
         \A i \in 1 .. n : z[i] <= 0, c.pc = "zeros", g.skip # 0,
         g' = [g EXCEPT !.in = z, !.pos = g.pos + n, !.skip = g.skip - n],
         acc' = acc \o z, c' = Comp([c EXCEPT !.zeroed = ZeroRun(n)], "NO", "zeros"),
         nin' = Own, UNCHANGED <<file, out, d, ret, acked, faults, app>>
  PROVE  Inv'
<1>1. /\ c.pc = "zeros" /\ g.skip # 0 /\ n = Least(g.size, g.skip) /\ z \in [1 .. n -> Int]
      /\ (\A i \in 1 .. n : z[i] <= 0)
      /\ g' = [g EXCEPT !.in = z, !.pos = g.pos + n, !.skip = g.skip - n]
      /\ acc' = acc \o z /\ c' = Comp([c EXCEPT !.zeroed = ZeroRun(n)], "NO", "zeros") /\ nin' = Own
  BY DEF Own
<1>2. /\ file' = file /\ out' = out /\ d' = d /\ ret' = ret /\ acked' = acked /\ faults' = faults
      /\ app' = app
  BY DEF Own
<1>3. TypeInv /\ ControlInv /\ EmptyInv /\ HurtInv /\ InputInv /\ CallInv /\ DataInv /\ FinInv
      /\ ShapeInv /\ DrainInv
  BY DEF Inv
<1>4. c \in CallStates /\ c.zeroed \in Int
  BY <1>1, <1>3 DEF TypeInv, ControlInv, PlaceInv, ArgInv, Zeroing, CallStates
<1>5. /\ g' = [g EXCEPT !.in = g'.in, !.pos = g'.pos, !.skip = g'.skip]
      /\ g'.in \in Seq(Int) /\ Len(g'.in) <= g.size /\ g'.pos \in Int /\ g'.pos = Len(acc')
         /\ g'.skip \in Nat
      /\ n \in Nat /\ nin' = Own /\ Data' \in Seq(Int) /\ Data' = acc' /\ Data = acc
      /\ acc' \in Seq(Int) /\ Len(acc') = Len(acc) + n /\ Len(acc) \in Nat
      /\ (\A i \in 1 .. Len(acc) : acc'[i] = acc[i])
      /\ (\A i \in Len(acc) + 1 .. Len(acc) + n : acc'[i] <= 0)
      /\ (g.size = 0 => g'.in = <<>>)
  <2>1. ~Broken
    BY <1>1 DEF Broken, Closing_, At
  <2>2. c.rest = <<>> /\ g.in = <<>>
    BY <1>1, <1>3 DEF ControlInv, ArgInv, InputInv, At
  <2>3. acc \in Seq(Int) /\ Len(acc) \in Nat /\ g.pos = Len(acc) /\ g \in States
        /\ g.size \in Nat /\ g.skip \in Nat
    BY <1>3, EmptyInt, GzSizes DEF TypeInv, States
  <2>4. n \in Nat /\ n <= g.size /\ g.skip - n \in Nat
    BY <1>1, <2>3 DEF Least
  <2>5. z \in Seq(Int) /\ Len(z) = n /\ acc \o z \in Seq(Int) /\ Len(acc \o z) = Len(acc) + n
        /\ (\A i \in 1 .. Len(acc) : (acc \o z)[i] = acc[i])
        /\ (\A i \in Len(acc) + 1 .. Len(acc) + n : (acc \o z)[i] <= 0)
    <3>1. Gap(acc, n, z)
      BY <1>1, <2>3, <2>4, ZerosOK, Zenon
    <3> QED  BY <3>1 DEF Gap
  <2>6. g' = [g EXCEPT !.in = z, !.pos = g.pos + n, !.skip = g.skip - n] /\ acc' = acc \o z
    BY <1>1
  <2>7. g.pos + n \in Int /\ g.pos + n = Len(acc')
    BY <2>3, <2>4, <2>5, <2>6
  <2>8. g'.in = z /\ g'.pos = g.pos + n /\ g'.skip = g.skip - n
    BY <2>3, <2>4, <2>5, <2>6, <2>7 DEF States
  <2>9. g' = [g EXCEPT !.in = g'.in, !.pos = g'.pos, !.skip = g'.skip]
    BY <2>6, <2>8
  <2>10. Data = acc
    <3>1. PICK s \in Seq(Int) : Data \o s = acc /\ (s = c.rest \/ Broken)
      BY <1>3 DEF DataInv
    <3>2. Data \in Seq(Int)
      BY <1>3, DataType
    <3> QED  BY <2>1, <2>2, <3>1, <3>2, EmptyInt
  <2>11. (Decoded(Sent) \o d.held) \o (g.in \o z) = Data \o z
    BY <1>3, <2>5, DataLonger
  <2>12. <<>> \o z = z
    BY <2>5, EmptyInt
  <2>13. Sent' = Sent
    BY <1>2 DEF Sent
  <2>14. Data' = acc'
    BY <1>2, <2>2, <2>6, <2>8, <2>10, <2>11, <2>12, <2>13 DEF Data
  <2>15. g.size = 0 => z = <<>>
    BY <2>3, <2>4, <2>5, EmptyInt
  <2>16. nin' = Own
    BY <1>1
  <2> QED  BY <2>3, <2>4, <2>5, <2>6, <2>7, <2>8, <2>9, <2>10, <2>14, <2>15, <2>16
<1>6. /\ c' \in CallStates /\ c'.pc = "comp" /\ c'.op = c.op /\ c'.main = c.main
      /\ c'.back = "zeros" /\ c'.left = c.left /\ c'.all = c.all /\ c'.arg = c.arg
      /\ c'.flush = "NO" /\ c'.dret = "OK" /\ c'.zeroed = c'.zeroed /\ c'.rest = c.rest
      /\ c'.ret = c.ret /\ c'.par = c.par
  <2> DEFINE k == [c EXCEPT !.zeroed = ZeroRun(n)]
  <2>1. ZeroRun(n) \in Int
    BY <1>4, <1>5 DEF ZeroRun
  <2>2. k \in CallStates /\ "NO" \in FlushValues /\ "zeros" \in Backs
    BY <1>4, <2>1 DEF CallStates, FlushValues, Backs
  <2>3. CompFacts(Comp(k, "NO", "zeros"), k, "NO", "zeros")
    BY <2>2, CompOK, Zenon
  <2>4. /\ k.op = c.op /\ k.main = c.main /\ k.left = c.left /\ k.all = c.all /\ k.arg = c.arg
        /\ k.rest = c.rest /\ k.ret = c.ret /\ k.par = c.par
    BY <1>4 DEF CallStates
  <2>5. c' = Comp(k, "NO", "zeros")
    BY <1>1
  <2> HIDE DEF k
  <2> QED  BY <2>3, <2>4, <2>5 DEF CompFacts
<1>7. Sent' = Sent
  BY <1>2 DEF Sent
<1>8. /\ acked' \subseteq 1 .. Len(Data') /\ \A j \in acked' : acc'[j] = j
      /\ \A i \in 1 .. Len(acc') : (acc'[i] <= 0 \/ acc'[i] = i)
  <2>1. acked \subseteq 1 .. Len(acc) /\ (\A j \in acked : acc[j] = j)
        /\ \A i \in 1 .. Len(acc) : (acc[i] <= 0 \/ acc[i] = i)
    BY <1>3, <1>5 DEF DataInv
  <2> DEFINE k == Len(acc)
             m == Len(acc')
  <2> DEFINE b == acc'
  <2>2. k \in Nat /\ n \in Nat /\ m = k + n /\ (\A i \in 1 .. k : b[i] = acc[i])
        /\ (\A i \in k + 1 .. k + n : b[i] <= 0)
    BY <1>5
  <2>3. acked \subseteq 1 .. k /\ (\A j \in acked : acc[j] = j)
        /\ \A i \in 1 .. k : (acc[i] <= 0 \/ acc[i] = i)
    BY <2>1
  <2> HIDE DEF k, m, b
  <2>4. acked \subseteq 1 .. m /\ \A j \in acked : b[j] = j
    <3>1. \A j \in acked : j \in 1 .. k
      BY <2>3
    <3>2. 1 .. k \subseteq 1 .. m
      BY <2>2
    <3> QED  BY <2>2, <2>3, <3>1, <3>2
  <2>5. ASSUME NEW i \in 1 .. m
        PROVE  b[i] <= 0 \/ b[i] = i
    <3>1. CASE i <= k
      <4>1. i \in 1 .. k
        BY <2>2, <3>1
      <4> QED  BY <2>2, <2>3, <4>1
    <3>2. CASE ~(i <= k)
      <4>1. i \in k + 1 .. k + n
        BY <2>2, <3>2
      <4> QED  BY <2>2, <4>1
    <3> QED  BY <3>1, <3>2
  <2> QED  BY <1>2, <1>5, <2>4, <2>5 DEF m, b
<1>9. /\ g' \in States /\ g'.mode = g.mode /\ g'.size = g.size /\ g'.want = g.want
      /\ g'.direct = g.direct /\ g'.level = g.level /\ g'.strategy = g.strategy /\ g'.how = g.how
      /\ g'.eof = g.eof /\ g'.past = g.past /\ g'.seek = g.seek /\ g'.err = g.err
      /\ g'.data = g.data /\ g'.next = g.next
  BY <1>3, <1>5 DEF TypeInv, States
<1>10. TypeInv'
  <2>1. nin' \in [user : BOOLEAN, off : Nat]
    BY <1>5 DEF Own
  <2> QED  BY <1>2, <1>3, <1>6, <1>5, <1>9, <2>1 DEF TypeInv, MaxCalls, MaxFaults
<1>11. ControlInv'
  <2>1. IdleInv'
    BY <1>6 DEF IdleInv
  <2>2. PlaceInv'
    <3>1. c.pc = "zeros" /\ g'.seek = g.seek
      BY <1>1, <1>9
    <3> QED  BY <1>3, <1>6, <3>1 DEF ControlInv, PlaceInv, Zeroing, At, Mains
  <2>3. ArgInv'
    <3>1. c.pc = "zeros" /\ g'.seek = g.seek /\ app' = app
      BY <1>1, <1>2, <1>9
    <3> QED  BY <1>3, <1>6, <3>1 DEF ControlInv, ArgInv, PlaceInv, Zeroing, At, Flushes, Seeks
  <2> QED  BY <2>1, <2>2, <2>3 DEF ControlInv
<1>12. EmptyInv'
  <2>1. g.size = 0 => g'.in = <<>>
    BY <1>5
  <2> QED  BY <1>2, <1>3, <1>9, <2>1 DEF EmptyInv
<1>13. HurtInv'
  BY <1>1, <1>2, <1>3, <1>6, <1>9 DEF HurtInv, Faults
<1>14. InputInv'
  BY <1>6, <1>5, <1>9 DEF InputInv
<1>15. CallInv'
  <2>1. c.left = c.all /\ c.all \in Nat
    BY <1>1, <1>3 DEF ControlInv, PlaceInv, Zeroing, TypeInv, CallStates
  <2>2. EndsIn(acc', 0)
    BY <1>5, EmptyInt DEF EndsIn
  <2>3. Len(c.rest) <= c.all /\ Len(c.rest) <= g.size
    BY <1>3 DEF CallInv
  <2>4. c'.left <= c'.all /\ Len(c'.rest) <= c'.all /\ Len(c'.rest) <= g'.size
    BY <1>6, <1>9, <2>1, <2>3
  <2>5. c'.all - c'.left = 0
    BY <1>6, <2>1
  <2> QED  BY <1>6, <2>2, <2>4, <2>5 DEF CallInv, At
<1>16. DataInv'
  <2>1. c.rest = <<>>
    BY <1>1, <1>3 DEF ControlInv, ArgInv, At
  <2>2. Data' \o <<>> = acc' /\ <<>> \in Seq(Int)
    BY <1>5, EmptyInt
  <2>3. \E s \in Seq(Int) : Data' \o s = acc' /\ (s = c'.rest \/ Broken')
    BY <1>6, <2>1, <2>2
  <2> QED  BY <1>5, <1>8, <2>3 DEF DataInv
<1>17. FinInv'
  BY <1>1, <1>2, <1>3, <1>6 DEF FinInv, Flushes
<1>18. ShapeInv'
  BY <1>2, <1>3, <1>7, <1>9 DEF ShapeInv, Within, WellFormed
<1>19. DrainInv'
  BY <1>6 DEF DrainInv
<1> QED  BY <1>10, <1>11, <1>12, <1>13, <1>14, <1>15, <1>16, <1>17, <1>18, <1>19 DEF Inv

\* A gap gets zeros, or what malloc has left in the buffer, and no data.
LEMMA ZeroTurnKeeps ==
  ASSUME Inv, ZeroTurn
  PROVE  Inv'
<1>1. PICK n \in {Least(g.size, g.skip)} : \E junk \in Malloc :
         /\ g' = [g EXCEPT !.in = [i \in 1 .. n |-> IF i <= ZeroRun(n) THEN 0 ELSE junk],
                           !.pos = @ + n, !.skip = @ - n]
         /\ acc' = acc \o g'.in
         /\ c' = Comp([c EXCEPT !.zeroed = ZeroRun(n)], "NO", "zeros")
  BY DEF ZeroTurn
<1>2. PICK junk \in Malloc :
         g' = [g EXCEPT !.in = [i \in 1 .. n |-> IF i <= ZeroRun(n) THEN 0 ELSE junk],
                        !.pos = @ + n, !.skip = @ - n]
  BY <1>1
<1>3. c.pc = "zeros" /\ g.skip # 0 /\ nin' = Own /\ UNCHANGED <<file, out, d, ret, acked, faults,
      app>>
  BY DEF ZeroTurn
<1>4. junk \in Int /\ junk <= 0
  BY <1>2, UsesAssumption DEF Malloc, Inv, TypeInv
<1> DEFINE z == [i \in 1 .. n |-> IF i <= ZeroRun(n) THEN 0 ELSE junk]
<1>5. z \in [1 .. n -> Int] /\ \A i \in 1 .. n : z[i] <= 0
  BY <1>4
<1>6. g' = [g EXCEPT !.in = z, !.pos = g.pos + n, !.skip = g.skip - n]
  BY <1>2
<1> HIDE DEF z
<1>7. g'.in = z
  BY <1>6 DEF Inv, TypeInv, States
<1>8. acc' = acc \o z /\ n = Least(g.size, g.skip) /\ c' = Comp([c EXCEPT !.zeroed = ZeroRun(n)],
      "NO", "zeros")
  BY <1>1, <1>7
<1> QED  BY <1>3, <1>5, <1>6, <1>8, ZerosKeeps

\* The gap is filled.
LEMMA ZeroEndsKeeps ==
  ASSUME Inv, ZeroEnds
  PROVE  Inv'
<1>1. c' = [c EXCEPT !.pc = c.main] /\ c.pc = "zeros" /\ g.skip = 0
  BY DEF ZeroEnds
<1>2. /\ file' = file /\ g' = g /\ nin' = nin /\ out' = out /\ d' = d /\ ret' = ret /\ acc' = acc
      /\ acked' = acked /\ faults' = faults /\ app' = app
  BY DEF ZeroEnds
<1>3. TypeInv /\ ControlInv /\ EmptyInv /\ HurtInv /\ InputInv /\ CallInv /\ DataInv /\ FinInv
      /\ ShapeInv /\ DrainInv
  BY DEF Inv
<1>4. c \in CallStates /\ c.main \in Mains
  BY <1>1, <1>3 DEF TypeInv, ControlInv, PlaceInv, ArgInv, Zeroing, CallStates
<1>5. /\ c' \in CallStates /\ c'.pc = c.main /\ c'.op = c.op /\ c'.main = c.main
      /\ c'.back = c.back /\ c'.left = c.left /\ c'.all = c.all /\ c'.arg = c.arg
      /\ c'.flush = c.flush /\ c'.dret = c.dret /\ c'.zeroed = c.zeroed /\ c'.rest = c.rest
      /\ c'.ret = c.ret /\ c'.par = c.par
  BY <1>1, <1>4, SMTT(40) DEF CallStates, Pcs, Mains, Backs
<1>6. Sent' = Sent /\ Data' = Data
  BY <1>2 DEF Sent, Data
<1>7. TypeInv'
  BY <1>1, <1>2, <1>3, <1>5 DEF TypeInv, MaxCalls, MaxFaults
<1>8. ControlInv'
  <2>1. IdleInv'
    BY <1>1, <1>4, <1>5 DEF IdleInv, Mains
  <2>2. PlaceInv'
    BY <1>1, <1>2, <1>3, <1>4, <1>5 DEF ControlInv, PlaceInv, Zeroing, At, Mains
  <2>3. ArgInv'
    BY <1>1, <1>2, <1>3, <1>4, <1>5
       DEF ControlInv, ArgInv, PlaceInv, Zeroing, At, Mains, Flushes, Seeks
  <2> QED  BY <2>1, <2>2, <2>3 DEF ControlInv
<1>9. EmptyInv'
  BY <1>2, <1>3 DEF EmptyInv
<1>10. HurtInv'
  BY <1>1, <1>2, <1>3, <1>4, <1>5 DEF HurtInv, Faults
<1>11. InputInv'
  BY <1>1, <1>2, <1>3, <1>4, <1>5 DEF InputInv, Zeroing, At, Mains
<1>12. CallInv'
  BY <1>1, <1>2, <1>3, <1>4, <1>5, ZenonT(60)
     DEF CallInv, EndsIn, At, CallStates, TypeInv, ControlInv, PlaceInv, ArgInv, Zeroing, Mains
<1>13. DataInv'
  BY <1>1, <1>2, <1>3, <1>4, <1>5, <1>6 DEF DataInv, Broken, Closing_, At
<1>14. FinInv'
  BY <1>1, <1>2, <1>3, <1>4, <1>5 DEF FinInv, EmptyInv, Flushes
<1>15. ShapeInv'
  BY <1>1, <1>2, <1>3, <1>4, <1>5, <1>6 DEF ShapeInv, Within, WellFormed
<1>16. DrainInv'
  BY <1>1, <1>2, <1>3, <1>4, <1>5, <1>6
     DEF DrainInv, Drained, Finished, FlushOK, EmptyInv, Flushes, Mains
<1> QED  BY <1>7, <1>8, <1>9, <1>10, <1>11, <1>12, <1>13, <1>14, <1>15, <1>16 DEF Inv

-----------------------------------------------------------------------------
(* gz_write, gzputc and gzprintf.                                          *)

\* The rest of a small write fits into the buffer.
LEMMA PutSmallWhollyKeeps ==
  ASSUME Inv, PutSmall, Least((g.size - Have) % UINT, c.left) = c.left
  PROVE  Inv'
<1>1. c.pc = "put" /\ g.size # 0 /\ c.all < g.size /\ Buffered(c.left)
      /\ c' = NoCall /\ ret' = [op |-> c.op, val |-> "OK", n |-> c.all, flush |-> c.arg]
      /\ acked' = acked \cup (Len(acc') - c.all + 1 .. Len(acc'))
  BY DEF PutSmall, Done
<1>2. /\ file' = file /\ out' = out /\ d' = d /\ faults' = faults /\ app' = app
  BY DEF PutSmall, Done
<1>3. TypeInv /\ ControlInv /\ EmptyInv /\ HurtInv /\ InputInv /\ CallInv /\ DataInv /\ FinInv
      /\ ShapeInv /\ DrainInv
  BY DEF Inv
<1>4. c \in CallStates /\ c.left \in Nat /\ c.all \in Nat
  BY <1>1, <1>3 DEF TypeInv, ControlInv, PlaceInv, ArgInv, Zeroing, CallStates
<1>5. /\ c' \in CallStates /\ c'.pc = "idle" /\ c'.op = "none" /\ c'.main = "none"
      /\ c'.back = "none" /\ c'.left = 0 /\ c'.all = 0 /\ c'.arg = "NO" /\ c'.flush = "NO"
      /\ c'.dret = "OK" /\ c'.zeroed = -1 /\ c'.rest = <<>> /\ c'.ret = "OK"
      /\ c'.par = <<"-1", "dflt">>
  BY <1>1, NoCallFacts
<1>6. /\ g' = [g EXCEPT !.in = g'.in, !.pos = g'.pos]
      /\ g'.in \in Seq(Int) /\ Len(g'.in) <= g.size /\ g'.pos \in Int /\ g'.pos = Len(acc')
      /\ Longer(c.left) /\ nin' = Own /\ Sent' = Sent /\ Data' \in Seq(Int) /\ Data' = acc'
         /\ faults = 0
  <2>1. faults = 0 /\ c.op # "gzclose"
    BY <1>1, <1>3 DEF HurtInv, ControlInv, PlaceInv, TypeInv, Mains
  <2>2. c.rest = <<>>
    BY <1>1, <1>3 DEF ControlInv, ArgInv, At
  <2>3. Buffered(c.left) /\ c.left \in Nat /\ Len(g.in) + c.left <= g.size
    <3>1. Have = Len(g.in) /\ Len(g.in) <= g.size /\ Len(g.in) \in Nat
      BY <1>1, <1>3, <2>1, EmptyInt, SMTT(40) DEF InputInv, Have, Own, TypeInv, States
    <3>0. g.size \in Nat
      BY <1>3, GzSizes DEF TypeInv, States
    <3>2. Len(g.in) \in 0 .. g.size
      BY <3>0, <3>1
    <3>3. (g.size - Have) % UINT = g.size - Len(g.in)
      BY <1>3, <3>1, <3>2, RoomOK
    <3>4. c.left <= g.size - Len(g.in)
      <4>1. Least(g.size - Len(g.in), c.left) = c.left
        BY <3>3
      <4> QED  BY <1>4, <3>0, <3>1, <4>1 DEF Least
    <3> QED  BY <1>1, <1>4, <3>0, <3>1, <3>4
  <2> QED  BY <1>1, <1>2, <1>3, <2>1, <2>2, <2>3, BufferedOK
<1>7. /\ acked' \subseteq 1 .. Len(acc') /\ \A j \in acked' : acc'[j] = j
      /\ \A i \in 1 .. Len(acc') : (acc'[i] <= 0 \/ acc'[i] = i)
  <2>1. /\ acked \in SUBSET (1 .. Len(acc')) /\ (\A j \in acked : acc'[j] = j)
        /\ \A i \in 1 .. Len(acc') : (acc'[i] <= 0 \/ acc'[i] = i)
    BY <1>3, <1>6, <1>4, LongerAcked
  <2>2. EndsIn(acc', c.all)
    <3>1. EndsIn(acc, c.all - c.left) /\ c.left <= c.all
      BY <1>1, <1>3 DEF CallInv, At
    <3>2. c.all - c.left \in Nat /\ (c.all - c.left) + c.left = c.all
      BY <1>4, <3>1
    <3>3. EndsIn(acc', (c.all - c.left) + c.left)
      BY <1>4, <1>6, <3>1, <3>2, LongerTail
    <3> QED  BY <3>2, <3>3
  <2>3. Len(acc') \in Nat /\ acc' \in Seq(Int) /\ c.all \in 0 .. Len(acc')
        /\ \A i \in Len(acc') - c.all + 1 .. Len(acc') : acc'[i] = i
    BY <1>1, <1>4, <1>6, <2>2, EmptyInt DEF EndsIn, Longer, CallStates
  <2>4. acked' = acked \cup (Len(acc') - c.all + 1 .. Len(acc'))
    BY <1>1
  <2>5. acked \cup (Len(acc') - c.all + 1 .. Len(acc')) \subseteq 1 .. Len(acc')
        /\ \A j \in acked \cup (Len(acc') - c.all + 1 .. Len(acc')) : acc'[j] = j
    BY <2>1, <2>3, AckedGrows, ZenonT(60)
  <2> QED  BY <2>1, <2>4, <2>5
<1>8. /\ g' \in States /\ g'.mode = g.mode /\ g'.size = g.size /\ g'.want = g.want
      /\ g'.direct = g.direct /\ g'.level = g.level /\ g'.strategy = g.strategy /\ g'.how = g.how
      /\ g'.eof = g.eof /\ g'.past = g.past /\ g'.seek = g.seek /\ g'.skip = g.skip
      /\ g'.err = g.err /\ g'.data = g.data /\ g'.next = g.next /\ g'.pos = g'.pos
      /\ g'.in = g'.in
  BY <1>3, <1>6, ZenonT(60) DEF TypeInv, States
<1>9. TypeInv'
  <2>1. nin' \in [user : BOOLEAN, off : Nat]
    BY <1>6 DEF Own
  <2> QED  BY <1>2, <1>3, <1>5, <1>6, <1>8, <2>1 DEF TypeInv, MaxCalls, MaxFaults, Longer
<1>10. ControlInv'
  BY <1>1, <1>2, <1>3, <1>5, <1>8, NoCallFacts
     DEF ControlInv, IdleInv, PlaceInv, ArgInv, Zeroing, At, Seeks, Mains
<1>11. EmptyInv'
  <2>1. g.size # 0
    BY <1>1, <1>3 DEF EmptyInv
  <2> QED  BY <1>2, <1>3, <1>8, <2>1 DEF EmptyInv
<1>12. HurtInv'
  BY <1>2, <1>3, <1>6 DEF HurtInv
<1>13. InputInv'
  BY <1>5, <1>6, <1>8 DEF InputInv
<1>14. CallInv'
  BY <1>2, <1>3, <1>5, <1>6, <1>8, EmptyInt, SMTT(40) DEF CallInv, EndsIn, At, TypeInv, States
<1>15. DataInv'
  <2>1. Data' \in Seq(Int) /\ Data' = acc'
    BY <1>6
  <2>2. Data' \o <<>> = acc' /\ <<>> \in Seq(Int)
    BY <2>1, EmptyInt
  <2>3. \E s \in Seq(Int) : Data' \o s = acc' /\ (s = c'.rest \/ Broken')
    BY <1>5, <2>2
  <2>4. acked' \subseteq 1 .. Len(acc') /\ \A j \in acked' : acc'[j] = j
    BY <1>7
  <2> QED  BY <1>7, <2>1, <2>3, <2>4 DEF DataInv
<1>16. FinInv'
  BY <1>1, <1>2, <1>3, <1>5, <1>6 DEF FinInv
<1>17. ShapeInv'
  BY <1>2, <1>3, <1>6, <1>8 DEF ShapeInv, Within, WellFormed
<1>18. DrainInv'
  <2>1. ~FlushOK'
    BY <1>1, <1>3 DEF FlushOK, ControlInv, PlaceInv, Mains
  <2> QED  BY <1>2, <1>5, <2>1 DEF DrainInv
<1> QED  BY <1>9, <1>10, <1>11, <1>12, <1>13, <1>14, <1>15, <1>16, <1>17, <1>18 DEF Inv

\* It fills the buffer.
LEMMA PutSmallPartlyKeeps ==
  ASSUME NEW n, Inv, PutSmall, n = Least((g.size - Have) % UINT, c.left), n # c.left
  PROVE  Inv'
<1>1. c.pc = "put" /\ g.size # 0 /\ c.all < g.size /\ Buffered(n)
      /\ c' = Comp([c EXCEPT !.left = c.left - n], "NO", "put")
         /\ n = Least((g.size - Have) % UINT, c.left)
  BY DEF PutSmall
<1>2. /\ file' = file /\ out' = out /\ d' = d /\ ret' = ret /\ acked' = acked /\ faults' = faults
      /\ app' = app
  BY DEF PutSmall
<1>3. TypeInv /\ ControlInv /\ EmptyInv /\ HurtInv /\ InputInv /\ CallInv /\ DataInv /\ FinInv
      /\ ShapeInv /\ DrainInv
  BY DEF Inv
<1>4. c \in CallStates /\ c.left \in Nat /\ c.all \in Nat
  BY <1>1, <1>3 DEF TypeInv, ControlInv, PlaceInv, ArgInv, Zeroing, CallStates
<1>5. /\ g' = [g EXCEPT !.in = g'.in, !.pos = g'.pos]
      /\ g'.in \in Seq(Int) /\ Len(g'.in) <= g.size /\ g'.pos \in Int /\ g'.pos = Len(acc')
      /\ Longer(n) /\ nin' = Own /\ Sent' = Sent /\ Data' \in Seq(Int) /\ Data' = acc'
         /\ faults = 0 /\ n \in Nat /\ n <= c.left
  <2>1. faults = 0 /\ c.op # "gzclose"
    BY <1>1, <1>3 DEF HurtInv, ControlInv, PlaceInv, TypeInv, Mains
  <2>2. c.rest = <<>>
    BY <1>1, <1>3 DEF ControlInv, ArgInv, At
  <2>3. Buffered(n) /\ n \in Nat /\ Len(g.in) + n <= g.size /\ n <= c.left
    <3>1. Have = Len(g.in) /\ Len(g.in) <= g.size /\ Len(g.in) \in Nat
      BY <1>1, <1>3, <2>1, EmptyInt, SMTT(40) DEF InputInv, Have, Own, TypeInv, States
    <3>0. g.size \in Nat
      BY <1>3, GzSizes DEF TypeInv, States
    <3>2. Len(g.in) \in 0 .. g.size
      BY <3>0, <3>1
    <3>3. (g.size - Have) % UINT = g.size - Len(g.in)
      BY <1>3, <3>1, <3>2, RoomOK
    <3>4. n = Least(g.size - Len(g.in), c.left)
      BY <1>1, <3>3
    <3>5. n \in Nat /\ n <= g.size - Len(g.in) /\ n <= c.left
      BY <1>4, <3>0, <3>1, <3>4 DEF Least
    <3> QED  BY <1>1, <3>0, <3>1, <3>5
  <2> QED  BY <1>1, <1>2, <1>3, <2>1, <2>2, <2>3, BufferedOK
<1>6. /\ c' \in CallStates /\ c'.pc = "comp" /\ c'.op = c.op /\ c'.main = c.main
      /\ c'.back = "put" /\ c'.left = c.left - n /\ c'.all = c.all /\ c'.arg = c.arg
      /\ c'.flush = "NO" /\ c'.dret = "OK" /\ c'.zeroed = c.zeroed /\ c'.rest = c.rest
      /\ c'.ret = c.ret /\ c'.par = c.par
  <2>1. c.left - n \in Nat
    BY <1>4, <1>5
  <2>2. [c EXCEPT !.left = c.left - n] \in CallStates
    BY <1>4, <2>1 DEF CallStates
  <2>3. "NO" \in FlushValues /\ "put" \in Backs
    BY DEF FlushValues, Backs
  <2> DEFINE k == [c EXCEPT !.left = c.left - n]
  <2>4. CompFacts(Comp(k, "NO", "put"), k, "NO", "put")
    BY <2>2, <2>3, CompOK, Zenon
  <2> QED  BY <1>1, <1>4, <2>4 DEF CompFacts, CallStates
<1>7. /\ acked' \subseteq 1 .. Len(acc') /\ \A j \in acked' : acc'[j] = j
      /\ \A i \in 1 .. Len(acc') : (acc'[i] <= 0 \/ acc'[i] = i)
  BY <1>2, <1>3, <1>5, LongerAcked
<1>8. /\ g' \in States /\ g'.mode = g.mode /\ g'.size = g.size /\ g'.want = g.want
      /\ g'.direct = g.direct /\ g'.level = g.level /\ g'.strategy = g.strategy /\ g'.how = g.how
      /\ g'.eof = g.eof /\ g'.past = g.past /\ g'.seek = g.seek /\ g'.skip = g.skip
      /\ g'.err = g.err /\ g'.data = g.data /\ g'.next = g.next /\ g'.pos = g'.pos
      /\ g'.in = g'.in
  BY <1>3, <1>5 DEF TypeInv, States
<1>9. TypeInv'
  <2>1. nin' \in [user : BOOLEAN, off : Nat]
    BY <1>5 DEF Own
  <2> QED  BY <1>2, <1>3, <1>6, <1>5, <1>8, <2>1 DEF TypeInv, MaxCalls, MaxFaults, Longer
<1>10. ControlInv'
  <2>1. IdleInv'
    BY <1>6 DEF IdleInv, Mains
  <2>2. PlaceInv'
    BY <1>1, <1>2, <1>3, <1>4, <1>6, <1>8 DEF ControlInv, PlaceInv, Zeroing, At, Mains
  <2>3. ArgInv'
    BY <1>1, <1>2, <1>3, <1>4, <1>6, <1>8
       DEF ControlInv, ArgInv, PlaceInv, Zeroing, At, Mains, Flushes, Seeks
  <2> QED  BY <2>1, <2>2, <2>3 DEF ControlInv
<1>11. EmptyInv'
  <2>1. g.size # 0
    BY <1>1, <1>3 DEF EmptyInv
  <2> QED  BY <1>2, <1>3, <1>8, <2>1 DEF EmptyInv
<1>12. HurtInv'
  BY <1>2, <1>3, <1>5, <1>8 DEF HurtInv
<1>13. InputInv'
  BY <1>6 DEF InputInv, Zeroing, At
<1>14. CallInv'
  <2>1. c.left - n \in Nat /\ c.all - (c.left - n) = (c.all - c.left) + n
        /\ c.all - c.left \in Nat /\ c.left <= c.all
    BY <1>3, <1>4, <1>5 DEF CallInv
  <2>2. EndsIn(acc, c.all - c.left)
    BY <1>1, <1>3 DEF CallInv, At
  <2>3. EndsIn(acc', (c.all - c.left) + n)
    BY <1>4, <1>5, <2>1, <2>2, LongerTail
  <2>4. c.rest = <<>>
    BY <1>1, <1>3 DEF ControlInv, ArgInv, At
  <2>5. Len(c'.rest) <= c'.all /\ Len(c'.rest) <= g'.size
    BY <1>3, <1>6, <1>8 DEF CallInv
  <2>6. c'.left <= c'.all /\ EndsIn(acc', c'.all - c'.left)
    BY <1>4, <1>6, <1>5, <2>1, <2>3
  <2> QED  BY <1>6, <2>5, <2>6 DEF CallInv, At
<1>15. DataInv'
  <2>1. Data' \in Seq(Int) /\ Data' = acc'
    BY <1>5
  <2>2. Data' \o <<>> = acc' /\ <<>> \in Seq(Int)
    BY <2>1, EmptyInt
  <2>3. \E s \in Seq(Int) : Data' \o s = acc' /\ (s = c'.rest \/ Broken')
    BY <1>1, <1>3, <1>6, <2>2 DEF ControlInv, ArgInv, At
  <2>4. acked' \subseteq 1 .. Len(acc') /\ \A j \in acked' : acc'[j] = j
    BY <1>7
  <2> QED  BY <1>7, <2>1, <2>3, <2>4 DEF DataInv
<1>16. FinInv'
  BY <1>1, <1>2, <1>3, <1>6, <1>5 DEF FinInv
<1>17. ShapeInv'
  BY <1>2, <1>3, <1>5, <1>8 DEF ShapeInv, Within, WellFormed
<1>18. DrainInv'
  BY <1>6 DEF DrainInv
<1> QED  BY <1>9, <1>10, <1>11, <1>12, <1>13, <1>14, <1>15, <1>16, <1>17, <1>18 DEF Inv

\* A large write lets what is buffered go first.
LEMMA PutLargeWaitsKeeps ==
  ASSUME Inv, PutLarge, g.in # <<>>
  PROVE  Inv'
<1>1. /\ c.pc = "put" /\ g.size # 0 /\ c.all >= g.size /\ g.in # <<>>
      /\ c' = Comp(c, "NO", "put")
  BY DEF PutLarge
<1>2. /\ file' = file /\ g' = g /\ nin' = nin /\ out' = out /\ d' = d /\ ret' = ret /\ acc' = acc
      /\ acked' = acked /\ faults' = faults /\ app' = app
  BY DEF PutLarge
<1>3. TypeInv /\ ControlInv /\ EmptyInv /\ HurtInv /\ InputInv /\ CallInv /\ DataInv /\ FinInv
      /\ ShapeInv /\ DrainInv
  BY DEF Inv
<1>4. c \in CallStates
  BY <1>1, <1>3 DEF TypeInv, ControlInv, PlaceInv, ArgInv, Zeroing, CallStates
<1>5. /\ c' \in CallStates /\ c'.pc = "comp" /\ c'.op = c.op /\ c'.main = c.main
      /\ c'.back = "put" /\ c'.left = c.left /\ c'.all = c.all /\ c'.arg = c.arg
      /\ c'.flush = "NO" /\ c'.dret = "OK" /\ c'.zeroed = c.zeroed /\ c'.rest = c.rest
      /\ c'.ret = c.ret /\ c'.par = c.par
  BY <1>1, <1>4, CompOK DEF CompFacts, FlushValues, Backs
<1>6. Sent' = Sent /\ Data' = Data
  BY <1>2 DEF Sent, Data
<1>7. TypeInv'
  BY <1>1, <1>2, <1>3, <1>5 DEF TypeInv, MaxCalls, MaxFaults
<1>8. ControlInv'
  <2>1. IdleInv'
    BY <1>1, <1>4, <1>5 DEF IdleInv, Mains
  <2>2. PlaceInv'
    BY <1>1, <1>2, <1>3, <1>4, <1>5 DEF ControlInv, PlaceInv, Zeroing, At, Mains
  <2>3. ArgInv'
    BY <1>1, <1>2, <1>3, <1>4, <1>5
       DEF ControlInv, ArgInv, PlaceInv, Zeroing, At, Mains, Flushes, Seeks
  <2> QED  BY <2>1, <2>2, <2>3 DEF ControlInv
<1>9. EmptyInv'
  BY <1>2, <1>3 DEF EmptyInv
<1>10. HurtInv'
  BY <1>1, <1>2, <1>3, <1>4, <1>5 DEF HurtInv, Faults
<1>11. InputInv'
  BY <1>1, <1>2, <1>3, <1>4, <1>5 DEF InputInv, Zeroing, At, Mains
<1>12. CallInv'
  BY <1>1, <1>2, <1>3, <1>4, <1>5
     DEF CallInv, EndsIn, At, CallStates, TypeInv, ControlInv, PlaceInv, ArgInv, Zeroing, Mains
<1>13. DataInv'
  BY <1>1, <1>2, <1>3, <1>4, <1>5, <1>6 DEF DataInv, Broken, Closing_, At
<1>14. FinInv'
  BY <1>1, <1>2, <1>3, <1>4, <1>5 DEF FinInv, EmptyInv, Flushes
<1>15. ShapeInv'
  BY <1>1, <1>2, <1>3, <1>4, <1>5, <1>6 DEF ShapeInv, Within, WellFormed
<1>16. DrainInv'
  BY <1>1, <1>2, <1>3, <1>4, <1>5, <1>6
     DEF DrainInv, Drained, Finished, FlushOK, EmptyInv, Flushes, Mains
<1> QED  BY <1>7, <1>8, <1>9, <1>10, <1>11, <1>12, <1>13, <1>14, <1>15, <1>16 DEF Inv

\* It is compressed from the application's buffer.
LEMMA PutLargeWholeKeeps ==
  ASSUME Inv, PutLarge, g.in = <<>>
  PROVE  Inv'
<1>1. /\ c.pc = "put" /\ g.size # 0 /\ c.all >= g.size /\ g.in = <<>>
      /\ g' = [g EXCEPT !.in = Fresh_(c.all), !.pos = g.pos + c.all]
      /\ acc' = acc \o Fresh_(c.all) /\ nin' = [user |-> TRUE, off |-> 0]
      /\ c' = Comp(c, "NO", "wrote")
  BY DEF PutLarge
<1>2. /\ file' = file /\ out' = out /\ d' = d /\ ret' = ret /\ acked' = acked /\ faults' = faults
      /\ app' = app
  BY DEF PutLarge
<1>3. TypeInv /\ ControlInv /\ EmptyInv /\ HurtInv /\ InputInv /\ CallInv /\ DataInv /\ FinInv
      /\ ShapeInv /\ DrainInv
  BY DEF Inv
<1>4. c \in CallStates /\ c.left \in Nat /\ c.all \in Nat
  BY <1>1, <1>3 DEF TypeInv, ControlInv, PlaceInv, ArgInv, Zeroing, CallStates
<1>5. /\ c' \in CallStates /\ c'.pc = "comp" /\ c'.op = c.op /\ c'.main = c.main
      /\ c'.back = "wrote" /\ c'.left = c.left /\ c'.all = c.all /\ c'.arg = c.arg
      /\ c'.flush = "NO" /\ c'.dret = "OK" /\ c'.zeroed = c.zeroed /\ c'.rest = c.rest
      /\ c'.ret = c.ret /\ c'.par = c.par
  BY <1>1, <1>4, CompOK DEF CompFacts, FlushValues, Backs
<1>6. /\ g' = [g EXCEPT !.in = g'.in, !.pos = g'.pos]
      /\ g'.in \in Seq(Int) /\ g'.pos \in Int /\ g'.pos = Len(acc')
      /\ Longer(c.all) /\ nin' \in [user : BOOLEAN, off : Nat] /\ Sent' = Sent
      /\ Data' \in Seq(Int) /\ Data' = acc' /\ faults = 0
  <2>1. faults = 0 /\ c.op # "gzclose"
    BY <1>1, <1>3 DEF HurtInv, ControlInv, PlaceInv, TypeInv, Mains
  <2>2. c.rest = <<>>
    BY <1>1, <1>3 DEF ControlInv, ArgInv, At
  <2> DEFINE x == Fresh_(c.all)
             n == c.all
  <2>3. n \in Nat
    BY <1>4
  <2>4. x \in Seq(Int) /\ Len(x) = n /\ acc \o x \in Seq(Int) /\ Len(acc \o x) = Len(acc) + n
    BY <1>3, <1>4, FreshOK
  <2>5. (\A i \in 1 .. Len(acc) : (acc \o x)[i] = acc[i])
        /\ (\A i \in Len(acc) + 1 .. Len(acc) + n : (acc \o x)[i] = i)
    BY <1>3, <1>4, FreshOK
  <2>6. acc \in Seq(Int) /\ Len(acc) \in Nat /\ g.pos = Len(acc) /\ g \in States
    BY <1>3, EmptyInt DEF TypeInv
  <2>7. g' = [g EXCEPT !.in = x, !.pos = g.pos + n] /\ acc' = acc \o x
    BY <1>1
  <2>8. (Decoded(Sent) \o d.held) \o (g.in \o x) = Data \o x /\ Data = acc
    <3>1. x \in Seq(Int)
      BY <2>4
    <3> HIDE DEF x
    <3> QED  BY <1>3, <2>1, <2>2, <3>1, DataLonger, DataWhole
  <2>9. Sent' = Sent
    BY <1>2 DEF Sent
  <2> HIDE DEF x, n
  <2>10. g.pos + n \in Int /\ g.pos + n = Len(acc')
    BY <2>3, <2>4, <2>6, <2>7
  <2>11. g'.in = x /\ g'.pos = g.pos + n /\ g' = [g EXCEPT !.in = g'.in, !.pos = g'.pos]
    BY <2>6, <2>7, <2>10 DEF States
  <2>12. g.in \o x = x
    BY <1>1, <2>4, EmptyInt
  <2>13. Data' = acc'
    BY <1>2, <2>7, <2>8, <2>9, <2>11, <2>12 DEF Data
  <2>14. Longer(n)
    BY <2>4, <2>5, <2>6, <2>7 DEF Longer
  <2>15. nin' \in [user : BOOLEAN, off : Nat]
    BY <1>1
  <2> QED  BY <2>1, <2>4, <2>7, <2>9, <2>10, <2>11, <2>13, <2>14, <2>15 DEF n
<1>7. /\ acked' \subseteq 1 .. Len(acc') /\ \A j \in acked' : acc'[j] = j
      /\ \A i \in 1 .. Len(acc') : (acc'[i] <= 0 \/ acc'[i] = i)
  BY <1>2, <1>3, <1>4, <1>6, LongerAcked
<1>8. /\ g' \in States /\ g'.mode = g.mode /\ g'.size = g.size /\ g'.want = g.want
      /\ g'.direct = g.direct /\ g'.level = g.level /\ g'.strategy = g.strategy /\ g'.how = g.how
      /\ g'.eof = g.eof /\ g'.past = g.past /\ g'.seek = g.seek /\ g'.skip = g.skip
      /\ g'.err = g.err /\ g'.data = g.data /\ g'.next = g.next /\ g'.pos = g'.pos
      /\ g'.in = g'.in
  BY <1>3, <1>6 DEF TypeInv, States
<1>9. TypeInv'
  <2>1. nin' \in [user : BOOLEAN, off : Nat]
    BY <1>6
  <2> QED  BY <1>2, <1>3, <1>5, <1>6, <1>8, <2>1 DEF TypeInv, MaxCalls, MaxFaults, Longer
<1>10. ControlInv'
  <2>1. IdleInv'
    BY <1>5 DEF IdleInv, Mains
  <2>2. PlaceInv'
    BY <1>1, <1>2, <1>3, <1>4, <1>5, <1>8 DEF ControlInv, PlaceInv, Zeroing, At, Mains
  <2>3. ArgInv'
    BY <1>1, <1>2, <1>3, <1>4, <1>5, <1>8
       DEF ControlInv, ArgInv, PlaceInv, Zeroing, At, Mains, Flushes, Seeks
  <2> QED  BY <2>1, <2>2, <2>3 DEF ControlInv
<1>11. EmptyInv'
  <2>1. g.size # 0
    BY <1>1, <1>3 DEF EmptyInv
  <2> QED  BY <1>2, <1>3, <1>8, <2>1 DEF EmptyInv
<1>12. HurtInv'
  BY <1>2, <1>3, <1>6, <1>8 DEF HurtInv
<1>13. InputInv'
  BY <1>5 DEF InputInv, Zeroing, At
<1>14. CallInv'
  <2>1. EndsIn(acc, 0)
    BY <1>3, EmptyInt DEF EndsIn, TypeInv
  <2>2. EndsIn(acc', 0 + c.all)
    BY <1>4, <1>6, <2>1, LongerTail
  <2>3. EndsIn(acc', c.all)
    BY <1>4, <2>2
  <2> QED  BY <1>3, <1>5, <1>8, <2>3 DEF CallInv, At
<1>15. DataInv'
  <2>1. Data' \in Seq(Int) /\ Data' = acc'
    BY <1>6
  <2>2. Data' \o <<>> = acc' /\ <<>> \in Seq(Int)
    BY <2>1, EmptyInt
  <2>3. \E s \in Seq(Int) : Data' \o s = acc' /\ (s = c'.rest \/ Broken')
    BY <1>1, <1>3, <1>5, <2>2 DEF ControlInv, ArgInv, At
  <2>4. acked' \subseteq 1 .. Len(acc') /\ \A j \in acked' : acc'[j] = j
    BY <1>7
  <2> QED  BY <1>7, <2>1, <2>3, <2>4 DEF DataInv
<1>16. FinInv'
  BY <1>1, <1>2, <1>3, <1>5, <1>6 DEF FinInv
<1>17. ShapeInv'
  BY <1>2, <1>3, <1>6, <1>8 DEF ShapeInv, Within, WellFormed
<1>18. DrainInv'
  BY <1>5 DEF DrainInv
<1> QED  BY <1>9, <1>10, <1>11, <1>12, <1>13, <1>14, <1>15, <1>16, <1>17, <1>18 DEF Inv

\* A call that handed over all its data ends.
LEMMA WroteKeeps ==
  ASSUME Inv, Wrote
  PROVE  Inv'
<1>1. /\ c.pc = "wrote" /\ c' = NoCall
      /\ ret' = [op |-> c.op, val |-> "OK", n |-> c.all, flush |-> c.arg]
      /\ acked' = acked \cup (Len(acc') - c.all + 1 .. Len(acc'))
  BY DEF Wrote, Done
<1>2. /\ file' = file /\ g' = g /\ nin' = nin /\ out' = out /\ d' = d /\ acc' = acc
      /\ faults' = faults /\ app' = app
  BY DEF Wrote, Done
<1>3. TypeInv /\ ControlInv /\ EmptyInv /\ HurtInv /\ InputInv /\ CallInv /\ DataInv /\ FinInv
      /\ ShapeInv /\ DrainInv
  BY DEF Inv
<1>4. c \in CallStates
  BY <1>1, <1>3 DEF TypeInv, ControlInv, PlaceInv, ArgInv, Zeroing, CallStates
<1>5. /\ c' \in CallStates /\ c'.pc = "idle" /\ c'.op = "none" /\ c'.main = "none"
      /\ c'.back = "none" /\ c'.left = 0 /\ c'.all = 0 /\ c'.arg = "NO" /\ c'.flush = "NO"
      /\ c'.dret = "OK" /\ c'.zeroed = -1 /\ c'.rest = <<>> /\ c'.ret = "OK"
      /\ c'.par = <<"-1", "dflt">>
  BY <1>1, NoCallFacts
<1>6. Sent' = Sent /\ Data' = Data
  BY <1>2 DEF Sent, Data
<1>7. faults = 0 /\ c.rest = <<>> /\ Data = acc /\ Data' \in Seq(Int) /\ Data' = acc'
  <2>1. faults = 0 /\ c.op # "gzclose"
    BY <1>1, <1>3 DEF HurtInv, ControlInv, PlaceInv, TypeInv, Mains
  <2>2. c.rest = <<>>
    BY <1>1, <1>3 DEF ControlInv, ArgInv, At
  <2>3. Data = acc /\ Data \in Seq(Int)
    BY <1>3, <2>1, <2>2, DataWhole, DataType
  <2> QED  BY <1>2, <1>6, <2>1, <2>2, <2>3
<1>8. /\ acked' \subseteq 1 .. Len(acc') /\ \A j \in acked' : acc'[j] = j
      /\ \A i \in 1 .. Len(acc') : (acc'[i] <= 0 \/ acc'[i] = i)
  <2>1. acked \in SUBSET (1 .. Len(acc)) /\ (\A j \in acked : acc[j] = j)
        /\ \A i \in 1 .. Len(acc) : (acc[i] <= 0 \/ acc[i] = i)
    BY <1>3, <1>7 DEF DataInv
  <2>2. Len(acc) \in Nat /\ acc \in Seq(Int)
    BY <1>3, EmptyInt DEF TypeInv
  <2>3. c.all \in 0 .. Len(acc) /\ \A i \in Len(acc) - c.all + 1 .. Len(acc) : acc[i] = i
    BY <1>1, <1>3, <1>4, <2>2 DEF CallInv, EndsIn, CallStates
  <2>4. acked' = acked \cup (Len(acc) - c.all + 1 .. Len(acc))
    BY <1>1, <1>2
  <2>5. acked \cup (Len(acc) - c.all + 1 .. Len(acc)) \subseteq 1 .. Len(acc)
        /\ \A j \in acked \cup (Len(acc) - c.all + 1 .. Len(acc)) : acc[j] = j
    BY <2>1, <2>2, <2>3, AckedGrows, ZenonT(40)
  <2> QED  BY <1>2, <2>1, <2>4, <2>5
<1>9. TypeInv'
  BY <1>1, <1>2, <1>3, <1>5 DEF TypeInv, MaxCalls, MaxFaults
<1>10. ControlInv'
  BY <1>1, <1>2, <1>3, <1>5, NoCallFacts
     DEF ControlInv, IdleInv, PlaceInv, ArgInv, Zeroing, At, Seeks, Mains
<1>11. EmptyInv'
  BY <1>2, <1>3 DEF EmptyInv
<1>12. HurtInv'
  BY <1>1, <1>2, <1>3, <1>4, <1>5 DEF HurtInv, Faults
<1>13. InputInv'
  BY <1>1, <1>2, <1>3, <1>4, <1>5 DEF InputInv, Zeroing, At, Mains
<1>14. CallInv'
  BY <1>2, <1>3, <1>5, EmptyInt, SMTT(40) DEF CallInv, EndsIn, At, TypeInv, States
<1>15. DataInv'
  <2>1. Data' \in Seq(Int) /\ Data' = acc'
    BY <1>7
  <2>2. Data' \o <<>> = acc' /\ <<>> \in Seq(Int)
    BY <2>1, EmptyInt
  <2>3. \E s \in Seq(Int) : Data' \o s = acc' /\ (s = c'.rest \/ Broken')
    BY <1>5, <2>2
  <2>4. acked' \subseteq 1 .. Len(acc') /\ \A j \in acked' : acc'[j] = j
    BY <1>8
  <2> QED  BY <1>8, <2>1, <2>3, <2>4 DEF DataInv
<1>16. FinInv'
  BY <1>1, <1>2, <1>3, <1>4, <1>5 DEF FinInv, EmptyInv, Flushes
<1>17. ShapeInv'
  BY <1>1, <1>2, <1>3, <1>4, <1>5, <1>6 DEF ShapeInv, Within, WellFormed
<1>18. DrainInv'
  <2>1. c.op = "gzflush" => c.arg = c.arg /\ ret'.flush = c.arg
    BY <1>1
  <2>2. FlushOK' => Drained
    BY <1>1, <1>3 DEF FlushOK, DrainInv
  <2>3. Drained => Decoded(file) = acc
    BY <1>3, <1>7, DataDrained
  <2> QED  BY <1>2, <1>5, <2>2, <2>3 DEF DrainInv, Drained
<1> QED  BY <1>9, <1>10, <1>11, <1>12, <1>13, <1>14, <1>15, <1>16, <1>17, <1>18 DEF Inv

\* gzputc finds room in the buffer.
LEMMA PutcStoredKeeps ==
  ASSUME Inv, Putc, g.size # 0, Have < g.size
  PROVE  Inv'
<1>1. c.pc = "putc" /\ g.size # 0 /\ Have < g.size /\ Buffered(1)
      /\ c' = NoCall /\ ret' = [op |-> c.op, val |-> "OK", n |-> 1, flush |-> c.arg]
      /\ acked' = acked \cup (Len(acc') - 1 + 1 .. Len(acc'))
  BY DEF Putc, Done
<1>2. /\ file' = file /\ out' = out /\ d' = d /\ faults' = faults /\ app' = app
  BY DEF Putc, Done
<1>3. TypeInv /\ ControlInv /\ EmptyInv /\ HurtInv /\ InputInv /\ CallInv /\ DataInv /\ FinInv
      /\ ShapeInv /\ DrainInv
  BY DEF Inv
<1>4. c \in CallStates
  BY <1>1, <1>3 DEF TypeInv, ControlInv, PlaceInv, ArgInv, Zeroing, CallStates
<1>5. /\ c' \in CallStates /\ c'.pc = "idle" /\ c'.op = "none" /\ c'.main = "none"
      /\ c'.back = "none" /\ c'.left = 0 /\ c'.all = 0 /\ c'.arg = "NO" /\ c'.flush = "NO"
      /\ c'.dret = "OK" /\ c'.zeroed = -1 /\ c'.rest = <<>> /\ c'.ret = "OK"
      /\ c'.par = <<"-1", "dflt">>
  BY <1>1, NoCallFacts
<1>6. /\ g' = [g EXCEPT !.in = g'.in, !.pos = g'.pos]
      /\ g'.in \in Seq(Int) /\ Len(g'.in) <= g.size /\ g'.pos \in Int /\ g'.pos = Len(acc')
      /\ Longer(1) /\ nin' = Own /\ Sent' = Sent /\ Data' \in Seq(Int) /\ Data' = acc' /\ faults = 0
  <2>1. faults = 0 /\ c.op # "gzclose"
    BY <1>1, <1>3 DEF HurtInv, ControlInv, PlaceInv, TypeInv, Mains
  <2>2. c.rest = <<>>
    BY <1>1, <1>3 DEF ControlInv, ArgInv, At
  <2>3. Buffered(1) /\ 1 \in Nat /\ Len(g.in) + 1 <= g.size
    <3>1. Have = Len(g.in) /\ Len(g.in) \in Nat
      BY <1>1, <1>3, <2>1, EmptyInt, SMTT(40) DEF InputInv, Have, Own, TypeInv, States
    <3>0. g.size \in Nat
      BY <1>3, GzSizes DEF TypeInv, States
    <3> QED  BY <1>1, <3>0, <3>1
  <2> QED  BY <1>1, <1>2, <1>3, <2>1, <2>2, <2>3, BufferedOK
<1>7. /\ acked' \subseteq 1 .. Len(acc') /\ \A j \in acked' : acc'[j] = j
      /\ \A i \in 1 .. Len(acc') : (acc'[i] <= 0 \/ acc'[i] = i)
  <2>1. /\ acked \in SUBSET (1 .. Len(acc')) /\ (\A j \in acked : acc'[j] = j)
        /\ \A i \in 1 .. Len(acc') : (acc'[i] <= 0 \/ acc'[i] = i)
    BY <1>3, <1>6, LongerAcked
  <2>2. EndsIn(acc', 1)
    <3>1. EndsIn(acc, 0)
      BY <1>3, EmptyInt DEF EndsIn, TypeInv
    <3>2. EndsIn(acc', 0 + 1)
      BY <1>6, <3>1, LongerTail
    <3> QED  BY <3>2
  <2>3. Len(acc') \in Nat /\ acc' \in Seq(Int) /\ 1 \in 0 .. Len(acc')
        /\ \A i \in Len(acc') - 1 + 1 .. Len(acc') : acc'[i] = i
    BY <1>1, <1>4, <1>6, <2>2, EmptyInt DEF EndsIn, Longer, CallStates
  <2>4. acked' = acked \cup (Len(acc') - 1 + 1 .. Len(acc'))
    BY <1>1
  <2>5. acked \cup (Len(acc') - 1 + 1 .. Len(acc')) \subseteq 1 .. Len(acc')
        /\ \A j \in acked \cup (Len(acc') - 1 + 1 .. Len(acc')) : acc'[j] = j
    BY <2>1, <2>3, AckedGrows, ZenonT(40)
  <2> QED  BY <2>1, <2>4, <2>5
<1>8. /\ g' \in States /\ g'.mode = g.mode /\ g'.size = g.size /\ g'.want = g.want
      /\ g'.direct = g.direct /\ g'.level = g.level /\ g'.strategy = g.strategy /\ g'.how = g.how
      /\ g'.eof = g.eof /\ g'.past = g.past /\ g'.seek = g.seek /\ g'.skip = g.skip
      /\ g'.err = g.err /\ g'.data = g.data /\ g'.next = g.next /\ g'.pos = g'.pos
      /\ g'.in = g'.in
  BY <1>3, <1>6 DEF TypeInv, States
<1>9. TypeInv'
  <2>1. nin' \in [user : BOOLEAN, off : Nat]
    BY <1>6 DEF Own
  <2> QED  BY <1>2, <1>3, <1>5, <1>6, <1>8, <2>1 DEF TypeInv, MaxCalls, MaxFaults, Longer
<1>10. ControlInv'
  BY <1>1, <1>2, <1>3, <1>5, <1>8, NoCallFacts
     DEF ControlInv, IdleInv, PlaceInv, ArgInv, Zeroing, At, Seeks, Mains
<1>11. EmptyInv'
  <2>1. g.size # 0
    BY <1>1, <1>3 DEF EmptyInv
  <2> QED  BY <1>2, <1>3, <1>8, <2>1 DEF EmptyInv
<1>12. HurtInv'
  BY <1>2, <1>3, <1>6 DEF HurtInv
<1>13. InputInv'
  BY <1>5, <1>6, <1>8 DEF InputInv
<1>14. CallInv'
  BY <1>2, <1>3, <1>5, <1>6, <1>8, EmptyInt, SMTT(40) DEF CallInv, EndsIn, At, TypeInv, States
<1>15. DataInv'
  <2>1. Data' \in Seq(Int) /\ Data' = acc'
    BY <1>6
  <2>2. Data' \o <<>> = acc' /\ <<>> \in Seq(Int)
    BY <2>1, EmptyInt
  <2>3. \E s \in Seq(Int) : Data' \o s = acc' /\ (s = c'.rest \/ Broken')
    BY <1>5, <2>2
  <2>4. acked' \subseteq 1 .. Len(acc') /\ \A j \in acked' : acc'[j] = j
    BY <1>7
  <2> QED  BY <1>7, <2>1, <2>3, <2>4 DEF DataInv
<1>16. FinInv'
  BY <1>1, <1>2, <1>3, <1>5, <1>6 DEF FinInv
<1>17. ShapeInv'
  BY <1>2, <1>3, <1>6, <1>8 DEF ShapeInv, Within, WellFormed
<1>18. DrainInv'
  <2>1. ~FlushOK'
    BY <1>1, <1>3 DEF FlushOK, ControlInv, PlaceInv, Mains
  <2> QED  BY <1>2, <1>5, <2>1 DEF DrainInv
<1> QED  BY <1>9, <1>10, <1>11, <1>12, <1>13, <1>14, <1>15, <1>16, <1>17, <1>18 DEF Inv

\* It finds none, or no buffer.
LEMMA PutcElsewhereKeeps ==
  ASSUME Inv, Putc, ~(g.size # 0 /\ Have < g.size)
  PROVE  Inv'
<1>1. /\ c.pc = "putc" /\ ~(g.size # 0 /\ Have < g.size)
      /\ c' = [c EXCEPT !.pc = IF g.size = 0 THEN "init" ELSE "put", !.back = "put"]
  BY DEF Putc
<1>2. /\ file' = file /\ g' = g /\ nin' = nin /\ out' = out /\ d' = d /\ ret' = ret /\ acc' = acc
      /\ acked' = acked /\ faults' = faults /\ app' = app
  BY DEF Putc
<1>3. TypeInv /\ ControlInv /\ EmptyInv /\ HurtInv /\ InputInv /\ CallInv /\ DataInv /\ FinInv
      /\ ShapeInv /\ DrainInv
  BY DEF Inv
<1>4. c \in CallStates
  BY <1>1, <1>3 DEF TypeInv, ControlInv, PlaceInv, ArgInv, Zeroing, CallStates
<1>5. /\ c' \in CallStates /\ c'.pc = (IF g.size = 0 THEN "init" ELSE "put") /\ c'.op = c.op
      /\ c'.main = c.main /\ c'.back = "put" /\ c'.left = c.left /\ c'.all = c.all
      /\ c'.arg = c.arg /\ c'.flush = c.flush /\ c'.dret = c.dret /\ c'.zeroed = c.zeroed
      /\ c'.rest = c.rest /\ c'.ret = c.ret /\ c'.par = c.par
  BY <1>1, <1>4, ZenonT(60) DEF CallStates, Pcs, Mains, Backs
<1>6. Sent' = Sent /\ Data' = Data
  BY <1>2 DEF Sent, Data
<1>7. TypeInv'
  BY <1>1, <1>2, <1>3, <1>5 DEF TypeInv, MaxCalls, MaxFaults
<1>8. ControlInv'
  <2>1. IdleInv'
    BY <1>1, <1>4, <1>5 DEF IdleInv, Mains
  <2>2. PlaceInv'
    BY <1>1, <1>2, <1>3, <1>4, <1>5 DEF ControlInv, PlaceInv, Zeroing, At, Mains
  <2>3. ArgInv'
    BY <1>1, <1>2, <1>3, <1>4, <1>5
       DEF ControlInv, ArgInv, PlaceInv, Zeroing, At, Mains, Flushes, Seeks
  <2> QED  BY <2>1, <2>2, <2>3 DEF ControlInv
<1>9. EmptyInv'
  BY <1>2, <1>3 DEF EmptyInv
<1>10. HurtInv'
  BY <1>1, <1>2, <1>3, <1>4, <1>5 DEF HurtInv, Faults
<1>11. InputInv'
  BY <1>1, <1>2, <1>3, <1>4, <1>5 DEF InputInv, Zeroing, At, Mains
<1>12. CallInv'
  BY <1>1, <1>2, <1>3, <1>4, <1>5
     DEF CallInv, EndsIn, At, CallStates, TypeInv, ControlInv, PlaceInv, ArgInv, Zeroing, Mains
<1>13. DataInv'
  BY <1>1, <1>2, <1>3, <1>4, <1>5, <1>6 DEF DataInv, Broken, Closing_, At
<1>14. FinInv'
  BY <1>1, <1>2, <1>3, <1>4, <1>5 DEF FinInv, EmptyInv, Flushes
<1>15. ShapeInv'
  BY <1>1, <1>2, <1>3, <1>4, <1>5, <1>6 DEF ShapeInv, Within, WellFormed
<1>16. DrainInv'
  BY <1>1, <1>2, <1>3, <1>4, <1>5, <1>6
     DEF DrainInv, Drained, Finished, FlushOK, EmptyInv, Flushes, Mains
<1> QED  BY <1>7, <1>8, <1>9, <1>10, <1>11, <1>12, <1>13, <1>14, <1>15, <1>16 DEF Inv

\* gzprintf with more than the buffer takes writes nothing.
LEMMA PrintRefusedKeeps ==
  ASSUME Inv, PrintRefused
  PROVE  Inv'
<1>1. /\ c.pc = "printf" /\ c' = NoCall
      /\ ret' = [op |-> c.op, val |-> "OK", n |-> 0, flush |-> c.arg]
      /\ acked' = acked \cup (Len(acc') - 0 + 1 .. Len(acc'))
  BY DEF PrintRefused, Done
<1>2. /\ file' = file /\ g' = g /\ nin' = nin /\ out' = out /\ d' = d /\ acc' = acc
      /\ faults' = faults /\ app' = app
  BY DEF PrintRefused, Done
<1>3. TypeInv /\ ControlInv /\ EmptyInv /\ HurtInv /\ InputInv /\ CallInv /\ DataInv /\ FinInv
      /\ ShapeInv /\ DrainInv
  BY DEF Inv
<1>4. c \in CallStates
  BY <1>1, <1>3 DEF TypeInv, ControlInv, PlaceInv, ArgInv, Zeroing, CallStates
<1>5. /\ c' \in CallStates /\ c'.pc = "idle" /\ c'.op = "none" /\ c'.main = "none"
      /\ c'.back = "none" /\ c'.left = 0 /\ c'.all = 0 /\ c'.arg = "NO" /\ c'.flush = "NO"
      /\ c'.dret = "OK" /\ c'.zeroed = -1 /\ c'.rest = <<>> /\ c'.ret = "OK"
      /\ c'.par = <<"-1", "dflt">>
  BY <1>1, NoCallFacts
<1>6. Sent' = Sent /\ Data' = Data
  BY <1>2 DEF Sent, Data
<1>7. faults = 0 /\ c.rest = <<>> /\ Data = acc /\ Data' \in Seq(Int) /\ Data' = acc'
  <2>1. faults = 0 /\ c.op # "gzclose"
    BY <1>1, <1>3 DEF HurtInv, ControlInv, PlaceInv, TypeInv, Mains
  <2>2. c.rest = <<>>
    BY <1>1, <1>3 DEF ControlInv, ArgInv, At
  <2>3. Data = acc /\ Data \in Seq(Int)
    BY <1>3, <2>1, <2>2, DataWhole, DataType
  <2> QED  BY <1>2, <1>6, <2>1, <2>2, <2>3
<1>8. /\ acked' \subseteq 1 .. Len(acc') /\ \A j \in acked' : acc'[j] = j
      /\ \A i \in 1 .. Len(acc') : (acc'[i] <= 0 \/ acc'[i] = i)
  <2>1. acked \in SUBSET (1 .. Len(acc)) /\ (\A j \in acked : acc[j] = j)
        /\ \A i \in 1 .. Len(acc) : (acc[i] <= 0 \/ acc[i] = i)
    BY <1>3, <1>7 DEF DataInv
  <2>2. Len(acc) \in Nat /\ acc \in Seq(Int)
    BY <1>3, EmptyInt DEF TypeInv
  <2>3. 0 \in 0 .. Len(acc) /\ \A i \in Len(acc) - 0 + 1 .. Len(acc) : acc[i] = i
    BY <2>2
  <2>4. acked' = acked \cup (Len(acc) - 0 + 1 .. Len(acc))
    BY <1>1, <1>2
  <2>5. acked \cup (Len(acc) - 0 + 1 .. Len(acc)) \subseteq 1 .. Len(acc)
        /\ \A j \in acked \cup (Len(acc) - 0 + 1 .. Len(acc)) : acc[j] = j
    BY <2>1, <2>2, <2>3, AckedGrows, Zenon
  <2> QED  BY <1>2, <2>1, <2>4, <2>5
<1>9. TypeInv'
  BY <1>1, <1>2, <1>3, <1>5 DEF TypeInv, MaxCalls, MaxFaults
<1>10. ControlInv'
  BY <1>1, <1>2, <1>3, <1>5, NoCallFacts
     DEF ControlInv, IdleInv, PlaceInv, ArgInv, Zeroing, At, Seeks, Mains
<1>11. EmptyInv'
  BY <1>2, <1>3 DEF EmptyInv
<1>12. HurtInv'
  BY <1>1, <1>2, <1>3, <1>4, <1>5 DEF HurtInv, Faults
<1>13. InputInv'
  BY <1>1, <1>2, <1>3, <1>4, <1>5 DEF InputInv, Zeroing, At, Mains
<1>14. CallInv'
  BY <1>2, <1>3, <1>5, EmptyInt, SMTT(40) DEF CallInv, EndsIn, At, TypeInv, States
<1>15. DataInv'
  <2>1. Data' \in Seq(Int) /\ Data' = acc'
    BY <1>7
  <2>2. Data' \o <<>> = acc' /\ <<>> \in Seq(Int)
    BY <2>1, EmptyInt
  <2>3. \E s \in Seq(Int) : Data' \o s = acc' /\ (s = c'.rest \/ Broken')
    BY <1>5, <2>2
  <2>4. acked' \subseteq 1 .. Len(acc') /\ \A j \in acked' : acc'[j] = j
    BY <1>8
  <2> QED  BY <1>8, <2>1, <2>3, <2>4 DEF DataInv
<1>16. FinInv'
  BY <1>1, <1>2, <1>3, <1>4, <1>5 DEF FinInv, EmptyInv, Flushes
<1>17. ShapeInv'
  BY <1>1, <1>2, <1>3, <1>4, <1>5, <1>6 DEF ShapeInv, Within, WellFormed
<1>18. DrainInv'
  <2>1. ~FlushOK'
    BY <1>1, <1>3 DEF FlushOK, ControlInv, PlaceInv, Mains
  <2> QED  BY <1>2, <1>5, <2>1 DEF DrainInv
<1> QED  BY <1>9, <1>10, <1>11, <1>12, <1>13, <1>14, <1>15, <1>16, <1>17, <1>18 DEF Inv

\* The text of gzprintf stays in the first half of the buffer.
LEMMA PrintStoredKeeps ==
  ASSUME Inv, c.pc = "printf", g.size # 0, Fits(c.all), Buffered(c.all),
         Len(g.in \o Fresh_(c.all)) < g.size,
         Done(c.all), UNCHANGED <<file, out, d, faults, app>>
  PROVE  Inv'
<1>1. c.pc = "printf" /\ g.size # 0 /\ Fits(c.all) /\ Buffered(c.all)
      /\ Len(g.in \o Fresh_(c.all)) < g.size
      /\ c' = NoCall /\ ret' = [op |-> c.op, val |-> "OK", n |-> c.all, flush |-> c.arg]
      /\ acked' = acked \cup (Len(acc') - c.all + 1 .. Len(acc'))
  BY DEF Done
<1>2. /\ file' = file /\ out' = out /\ d' = d /\ faults' = faults /\ app' = app
  BY DEF Done
<1>3. TypeInv /\ ControlInv /\ EmptyInv /\ HurtInv /\ InputInv /\ CallInv /\ DataInv /\ FinInv
      /\ ShapeInv /\ DrainInv
  BY DEF Inv
<1>4. c \in CallStates /\ c.left \in Nat /\ c.all \in Nat
  BY <1>1, <1>3 DEF TypeInv, ControlInv, PlaceInv, ArgInv, Zeroing, CallStates
<1>5. /\ c' \in CallStates /\ c'.pc = "idle" /\ c'.op = "none" /\ c'.main = "none"
      /\ c'.back = "none" /\ c'.left = 0 /\ c'.all = 0 /\ c'.arg = "NO" /\ c'.flush = "NO"
      /\ c'.dret = "OK" /\ c'.zeroed = -1 /\ c'.rest = <<>> /\ c'.ret = "OK"
      /\ c'.par = <<"-1", "dflt">>
  BY <1>1, NoCallFacts
<1>6. /\ g' = [g EXCEPT !.in = g'.in, !.pos = g'.pos]
      /\ g'.in \in Seq(Int) /\ Len(g'.in) <= g.size /\ g'.pos \in Int /\ g'.pos = Len(acc')
      /\ Longer(c.all) /\ nin' = Own /\ Sent' = Sent /\ Data' \in Seq(Int) /\ Data' = acc'
         /\ faults = 0
  <2>1. faults = 0 /\ c.op # "gzclose"
    BY <1>1, <1>3 DEF HurtInv, ControlInv, PlaceInv, TypeInv, Mains
  <2>2. c.rest = <<>>
    BY <1>1, <1>3 DEF ControlInv, ArgInv, At
  <2>3. Buffered(c.all) /\ c.all \in Nat /\ Len(g.in) + c.all <= g.size
    <3>1. Len(g.in \o Fresh_(c.all)) = Len(g.in) + c.all
      BY <1>3, <1>4, FreshOK, DataLonger
    <3>2. g.size \in Nat /\ Len(g.in) \in Nat
      BY <1>3, EmptyInt, GzSizes DEF TypeInv, States
    <3> QED  BY <1>1, <1>4, <3>1, <3>2
  <2> QED  BY <1>1, <1>2, <1>3, <2>1, <2>2, <2>3, BufferedOK
<1>7. /\ acked' \subseteq 1 .. Len(acc') /\ \A j \in acked' : acc'[j] = j
      /\ \A i \in 1 .. Len(acc') : (acc'[i] <= 0 \/ acc'[i] = i)
  <2>1. /\ acked \in SUBSET (1 .. Len(acc')) /\ (\A j \in acked : acc'[j] = j)
        /\ \A i \in 1 .. Len(acc') : (acc'[i] <= 0 \/ acc'[i] = i)
    BY <1>3, <1>6, <1>4, LongerAcked
  <2>2. EndsIn(acc', c.all)
    <3>1. EndsIn(acc, 0)
      BY <1>3, EmptyInt DEF EndsIn, TypeInv
    <3>2. EndsIn(acc', 0 + c.all)
      BY <1>4, <1>6, <3>1, LongerTail
    <3> QED  BY <1>4, <3>2
  <2>3. Len(acc') \in Nat /\ acc' \in Seq(Int) /\ c.all \in 0 .. Len(acc')
        /\ \A i \in Len(acc') - c.all + 1 .. Len(acc') : acc'[i] = i
    BY <1>1, <1>4, <1>6, <2>2, EmptyInt DEF EndsIn, Longer, CallStates
  <2>4. acked' = acked \cup (Len(acc') - c.all + 1 .. Len(acc'))
    BY <1>1
  <2>5. acked \cup (Len(acc') - c.all + 1 .. Len(acc')) \subseteq 1 .. Len(acc')
        /\ \A j \in acked \cup (Len(acc') - c.all + 1 .. Len(acc')) : acc'[j] = j
    BY <2>1, <2>3, AckedGrows, ZenonT(40)
  <2> QED  BY <2>1, <2>4, <2>5
<1>8. /\ g' \in States /\ g'.mode = g.mode /\ g'.size = g.size /\ g'.want = g.want
      /\ g'.direct = g.direct /\ g'.level = g.level /\ g'.strategy = g.strategy /\ g'.how = g.how
      /\ g'.eof = g.eof /\ g'.past = g.past /\ g'.seek = g.seek /\ g'.skip = g.skip
      /\ g'.err = g.err /\ g'.data = g.data /\ g'.next = g.next /\ g'.pos = g'.pos
      /\ g'.in = g'.in
  BY <1>3, <1>6 DEF TypeInv, States
<1>9. TypeInv'
  <2>1. nin' \in [user : BOOLEAN, off : Nat]
    BY <1>6 DEF Own
  <2> QED  BY <1>2, <1>3, <1>5, <1>6, <1>8, <2>1 DEF TypeInv, MaxCalls, MaxFaults, Longer
<1>10. ControlInv'
  BY <1>1, <1>2, <1>3, <1>5, <1>8, NoCallFacts
     DEF ControlInv, IdleInv, PlaceInv, ArgInv, Zeroing, At, Seeks, Mains
<1>11. EmptyInv'
  <2>1. g.size # 0
    BY <1>1, <1>3 DEF EmptyInv
  <2> QED  BY <1>2, <1>3, <1>8, <2>1 DEF EmptyInv
<1>12. HurtInv'
  BY <1>2, <1>3, <1>6 DEF HurtInv
<1>13. InputInv'
  BY <1>5, <1>6, <1>8 DEF InputInv
<1>14. CallInv'
  BY <1>2, <1>3, <1>5, <1>6, <1>8, EmptyInt, SMTT(40) DEF CallInv, EndsIn, At, TypeInv, States
<1>15. DataInv'
  <2>1. Data' \in Seq(Int) /\ Data' = acc'
    BY <1>6
  <2>2. Data' \o <<>> = acc' /\ <<>> \in Seq(Int)
    BY <2>1, EmptyInt
  <2>3. \E s \in Seq(Int) : Data' \o s = acc' /\ (s = c'.rest \/ Broken')
    BY <1>5, <2>2
  <2>4. acked' \subseteq 1 .. Len(acc') /\ \A j \in acked' : acc'[j] = j
    BY <1>7
  <2> QED  BY <1>7, <2>1, <2>3, <2>4 DEF DataInv
<1>16. FinInv'
  BY <1>1, <1>2, <1>3, <1>5, <1>6 DEF FinInv
<1>17. ShapeInv'
  BY <1>2, <1>3, <1>6, <1>8 DEF ShapeInv, Within, WellFormed
<1>18. DrainInv'
  <2>1. ~FlushOK'
    BY <1>1, <1>3 DEF FlushOK, ControlInv, PlaceInv, Mains
  <2> QED  BY <1>2, <1>5, <2>1 DEF DrainInv
<1> QED  BY <1>9, <1>10, <1>11, <1>12, <1>13, <1>14, <1>15, <1>16, <1>17, <1>18 DEF Inv

\* It reaches into the second half: the first half is compressed.
LEMMA PrintSplitKeeps ==
  ASSUME Inv, NEW rest, rest = SubSeq(g.in \o Fresh_(c.all), g.size + 1,
         Len(g.in \o Fresh_(c.all))), Print_, Len(g.in \o Fresh_(c.all)) >= g.size
  PROVE  Inv'
<1>1. /\ c.pc = "printf" /\ g.size # 0 /\ Fits(c.all)
      /\ g' = [g EXCEPT !.in = SubSeq(g.in \o Fresh_(c.all), 1, g.size), !.pos = g.pos + c.all]
      /\ rest = SubSeq(g.in \o Fresh_(c.all), g.size + 1, Len(g.in \o Fresh_(c.all)))
         /\ acc' = acc \o Fresh_(c.all) /\ (nin' = IF g.in = <<>> THEN Own ELSE nin)
            /\ Len(g.in \o Fresh_(c.all)) >= g.size
      /\ c' = Comp([c EXCEPT !.rest = SubSeq(g.in \o Fresh_(c.all), g.size - nin'.off + 1,
         Len(g.in \o Fresh_(c.all)) - nin'.off)], "NO", "moved")
  BY DEF Print_
<1>2. /\ file' = file /\ out' = out /\ d' = d /\ ret' = ret /\ acked' = acked /\ faults' = faults
      /\ app' = app
  BY DEF Print_
<1>3. TypeInv /\ ControlInv /\ EmptyInv /\ HurtInv /\ InputInv /\ CallInv /\ DataInv /\ FinInv
      /\ ShapeInv /\ DrainInv
  BY DEF Inv
<1>4. c \in CallStates /\ c.left \in Nat /\ c.all \in Nat
  BY <1>1, <1>3 DEF TypeInv, ControlInv, PlaceInv, ArgInv, Zeroing, CallStates
<1>5. /\ g' = [g EXCEPT !.in = g'.in, !.pos = g'.pos]
      /\ g'.in \in Seq(Int) /\ Len(g'.in) <= g.size /\ g'.pos \in Int /\ g'.pos = Len(acc')
      /\ Longer(c.all) /\ nin' = Own /\ Sent' = Sent /\ Data' \in Seq(Int)
         /\ Data' \o rest = acc' /\ faults = 0
      /\ rest \in Seq(Int) /\ Len(rest) <= c.all /\ Len(rest) <= g.size /\ g.size \in Nat
      /\ Len(acc) <= Len(Data') /\ Len(acc) \in Nat /\ Len(Data') \in Nat
      /\ Data = acc /\ Len(g.in \o Fresh_(c.all)) \in Nat
  <2>1. faults = 0 /\ c.op # "gzclose"
    BY <1>1, <1>3 DEF HurtInv, ControlInv, PlaceInv, TypeInv, Mains
  <2>2. c.rest = <<>>
    BY <1>1, <1>3 DEF ControlInv, ArgInv, At
  <2>3. nin' = Own
    BY <1>1, <1>3, <2>1 DEF InputInv
  <2> DEFINE x == Fresh_(c.all)
             n == c.all
             b == g.in \o x
             a == SubSeq(b, 1, g.size)
  <2>4. n \in Nat /\ n < g.size
    BY <1>1, <1>4 DEF Fits
  <2>5. g.size \in Nat
    BY <1>3, GzSizes DEF TypeInv, States
  <2>6. x \in Seq(Int) /\ Len(x) = n /\ acc \o x \in Seq(Int) /\ Len(acc \o x) = Len(acc) + n
    BY <1>3, <1>4, FreshOK
  <2>7. (\A i \in 1 .. Len(acc) : (acc \o x)[i] = acc[i])
        /\ (\A i \in Len(acc) + 1 .. Len(acc) + n : (acc \o x)[i] = i)
    BY <1>3, <1>4, FreshOK
  <2>8. acc \in Seq(Int) /\ Len(acc) \in Nat /\ g.pos = Len(acc) /\ g \in States
        /\ g.in \in Seq(Int)
        /\ Len(g.in) \in Nat
    BY <1>3, EmptyInt DEF TypeInv, States
  <2>9. Len(g.in) <= g.size
    BY <1>1, <1>3, <2>1, <2>5, EmptyInt DEF InputInv
  <2>10. b \in Seq(Int) /\ Len(b) = Len(g.in) + n /\ (Decoded(Sent) \o d.held) \o b = Data \o x
         /\ Data = acc
    <3>1. x \in Seq(Int)
      BY <2>6
    <3>2. Data = acc
      BY <1>3, <2>1, <2>2, DataWhole
    <3>3. g.in \o x \in Seq(Int) /\ Len(g.in \o x) = Len(g.in) + Len(x)
          /\ (Decoded(Sent) \o d.held) \o (g.in \o x) = Data \o x
      <4> HIDE DEF x
      <4> QED  BY <1>3, <3>1, DataLonger
    <3> QED  BY <2>6, <3>2, <3>3
  <2>11. Len(b) >= g.size
    BY <1>1
  <2>12. g' = [g EXCEPT !.in = a, !.pos = g.pos + n] /\ acc' = acc \o x
         /\ rest = SubSeq(b, g.size + 1, Len(b))
    BY <1>1
  <2> HIDE DEF x, n, b
  <2>13. a \in Seq(Int) /\ Len(a) = g.size /\ rest \in Seq(Int) /\ Len(rest) = Len(b) - g.size
         /\ a \o rest = b
    <3>1. Len(b) \in Nat
      BY <2>4, <2>8, <2>10
    <3>2. g.size \in 0 .. Len(b)
      BY <2>5, <2>11, <3>1
    <3> QED  BY <2>10, <2>12, <3>2, CutInt, ZenonT(60)
  <2> HIDE DEF a
  <2>14. Len(rest) <= n /\ Len(rest) <= g.size
    <3> DEFINE l == Len(rest)
               m == Len(b)
               k == Len(g.in)
    <3>1. l = m - g.size /\ m = k + n /\ k \in Nat /\ k <= g.size
      BY <2>8, <2>9, <2>10, <2>13
    <3> HIDE DEF l, m, k
    <3>2. l <= n /\ l <= g.size
      BY <2>4, <2>5, <3>1
    <3> QED  BY <3>2 DEF l
  <2>15. g.pos + n \in Int /\ g.pos + n = Len(acc')
    BY <2>4, <2>6, <2>8, <2>12
  <2>16. g'.in = a /\ g'.pos = g.pos + n /\ g' = [g EXCEPT !.in = g'.in, !.pos = g'.pos]
    BY <2>8, <2>12, <2>13, <2>15 DEF States
  <2>17. Longer(n)
    BY <2>6, <2>7, <2>8, <2>12 DEF Longer
  <2>18. Sent' = Sent
    BY <1>2 DEF Sent
  <2> DEFINE p == Decoded(Sent) \o d.held
  <2>19. p \in Seq(Int) /\ Data' = p \o a
    <3>1. Data' = p \o a
      BY <1>2, <2>16, <2>18 DEF Data
    <3>2. d.held \in Seq(Int)
      BY <1>3 DEF TypeInv, DeflateStates
    <3> QED  BY <1>3, <3>1, <3>2, DataType, CatIntType
  <2>20. p \o b = acc'
    BY <2>10, <2>12
  <2> HIDE DEF p
  <2>21. (p \o a) \o rest = p \o (a \o rest)
    BY <2>13, <2>19, CatInt
  <2>22. Data' \o rest = acc' /\ Data' \in Seq(Int)
    BY <2>13, <2>19, <2>20, <2>21, CatIntType
  <2>23. Len(acc) <= Len(Data') /\ Len(Data') \in Nat
    <3> DEFINE l == Len(rest)
               m == Len(Data')
               k == Len(acc)
    <3>1. m + l = k + n /\ m \in Nat /\ l \in Nat /\ l <= n /\ k \in Nat
      <4> DEFINE w == Data'
      <4>0. w \in Seq(Int) /\ rest \in Seq(Int)
        BY <2>13, <2>22
      <4> HIDE DEF w
      <4>1. Len(w \o rest) = Len(w) + Len(rest) /\ Len(w) \in Nat /\ Len(rest) \in Nat
        BY <4>0, EmptyInt, ConcatProperties, ZenonT(60)
      <4> USE DEF w
      <4> QED  BY <2>6, <2>8, <2>12, <2>14, <2>22, <4>1
    <3> HIDE DEF l, m, k
    <3>2. k <= m
      BY <2>4, <3>1
    <3> QED  BY <3>1, <3>2 DEF k, m
  <2>24. Len(b) \in Nat
    BY <2>4, <2>8, <2>10
  <2>25. Len(g'.in) <= g.size
    BY <2>5, <2>13, <2>16
  <2> QED  BY <2>1, <2>3, <2>5, <2>8, <2>10, <2>13, <2>14, <2>15, <2>16, <2>17, <2>18, <2>22,
           <2>23, <2>24, <2>25 DEF n, b, x
<1>6. /\ c' \in CallStates /\ c'.pc = "comp" /\ c'.op = c.op /\ c'.main = c.main
      /\ c'.back = "moved" /\ c'.left = c.left /\ c'.all = c.all /\ c'.arg = c.arg
      /\ c'.flush = "NO" /\ c'.dret = "OK" /\ c'.zeroed = c.zeroed /\ c'.rest = rest
      /\ c'.ret = c.ret /\ c'.par = c.par
  <2>1. nin'.off = 0
    BY <1>5 DEF Own
  <2>2. rest = SubSeq(g.in \o Fresh_(c.all), g.size - nin'.off + 1,
        Len(g.in \o Fresh_(c.all)) - nin'.off)
    <3> DEFINE b == g.in \o Fresh_(c.all)
               l == Len(b)
    <3>1. l \in Nat /\ g.size \in Nat /\ rest = SubSeq(b, g.size + 1, l)
      BY <1>1, <1>5
    <3> HIDE DEF l, b
    <3>2. l - nin'.off = l /\ g.size - nin'.off = g.size
      BY <2>1, <3>1
    <3>3. rest = SubSeq(b, g.size - nin'.off + 1, l - nin'.off)
      BY <3>1, <3>2
    <3> QED  BY <3>3 DEF l, b
  <2> DEFINE k == [c EXCEPT !.rest = rest]
  <2>3. k \in CallStates /\ "NO" \in FlushValues /\ "moved" \in Backs
    BY <1>4, <1>5 DEF CallStates, FlushValues, Backs
  <2>4. CompFacts(Comp(k, "NO", "moved"), k, "NO", "moved")
    BY <2>3, CompOK, Zenon
  <2>5. c' = Comp(k, "NO", "moved")
    BY <1>1, <2>2
  <2>6. /\ k.op = c.op /\ k.main = c.main /\ k.left = c.left /\ k.all = c.all /\ k.arg = c.arg
        /\ k.zeroed = c.zeroed /\ k.rest = rest /\ k.ret = c.ret /\ k.par = c.par
    BY <1>4 DEF CallStates
  <2> HIDE DEF k
  <2> QED  BY <2>4, <2>5, <2>6 DEF CompFacts
<1>7. /\ acked' \subseteq 1 .. Len(Data') /\ \A j \in acked' : acc'[j] = j
      /\ \A i \in 1 .. Len(acc') : (acc'[i] <= 0 \/ acc'[i] = i)
  <2>1. (\A j \in acked : acc'[j] = j) /\ \A i \in 1 .. Len(acc') : (acc'[i] <= 0 \/ acc'[i] = i)
    BY <1>3, <1>4, <1>5, LongerAcked
  <2>2. acked \subseteq 1 .. Len(acc)
    BY <1>3, <1>5 DEF DataInv
  <2>3. Len(acc) <= Len(Data') /\ Len(acc) \in Nat /\ Len(Data') \in Nat
    BY <1>5
  <2>4. acked \subseteq 1 .. Len(Data')
    BY <2>2, <2>3
  <2> QED  BY <1>2, <2>1, <2>4
<1>8. /\ g' \in States /\ g'.mode = g.mode /\ g'.size = g.size /\ g'.want = g.want
      /\ g'.direct = g.direct /\ g'.level = g.level /\ g'.strategy = g.strategy /\ g'.how = g.how
      /\ g'.eof = g.eof /\ g'.past = g.past /\ g'.seek = g.seek /\ g'.skip = g.skip
      /\ g'.err = g.err /\ g'.data = g.data /\ g'.next = g.next /\ g'.pos = g'.pos
      /\ g'.in = g'.in
  BY <1>3, <1>5, ZenonT(60) DEF TypeInv, States
<1>9. TypeInv'
  <2>1. nin' \in [user : BOOLEAN, off : Nat]
    BY <1>5 DEF Own
  <2> QED  BY <1>2, <1>3, <1>6, <1>5, <1>8, <2>1 DEF TypeInv, MaxCalls, MaxFaults, Longer
<1>10. ControlInv'
  <2>1. IdleInv'
    BY <1>6 DEF IdleInv, Mains
  <2>2. PlaceInv'
    <3>1. c.pc = "printf" /\ g'.seek = g.seek
      BY <1>1, <1>8
    <3> QED  BY <1>3, <1>6, <3>1 DEF ControlInv, PlaceInv, Zeroing, At, Mains
  <2>3. ArgInv'
    <3>1. c.pc = "printf" /\ g'.seek = g.seek /\ app' = app
      BY <1>1, <1>2, <1>8
    <3> QED  BY <1>3, <1>6, <3>1
             DEF ControlInv, ArgInv, PlaceInv, Zeroing, At, Mains, Flushes, Seeks
  <2> QED  BY <2>1, <2>2, <2>3 DEF ControlInv
<1>11. EmptyInv'
  <2>1. g.size # 0
    BY <1>1, <1>3 DEF EmptyInv
  <2> QED  BY <1>2, <1>3, <1>8, <2>1 DEF EmptyInv
<1>12. HurtInv'
  BY <1>2, <1>3, <1>5, <1>8 DEF HurtInv
<1>13. InputInv'
  BY <1>6 DEF InputInv, Zeroing, At
<1>14. CallInv'
  <2>1. EndsIn(acc, 0)
    BY <1>3, EmptyInt DEF EndsIn, TypeInv
  <2>2. EndsIn(acc', 0 + c.all)
    BY <1>4, <1>5, <2>1, LongerTail
  <2>3. EndsIn(acc', c.all)
    BY <1>4, <2>2
  <2> QED  BY <1>3, <1>6, <1>5, <1>8, <2>3 DEF CallInv, At
<1>15. DataInv'
  <2>1. \E s \in Seq(Int) : Data' \o s = acc' /\ (s = c'.rest \/ Broken')
    BY <1>6, <1>5
  <2> QED  BY <1>7, <2>1 DEF DataInv
<1>16. FinInv'
  BY <1>1, <1>2, <1>3, <1>6, <1>5 DEF FinInv
<1>17. ShapeInv'
  BY <1>2, <1>3, <1>5, <1>8 DEF ShapeInv, Within, WellFormed
<1>18. DrainInv'
  BY <1>6 DEF DrainInv
<1> QED  BY <1>9, <1>10, <1>11, <1>12, <1>13, <1>14, <1>15, <1>16, <1>17, <1>18 DEF Inv

\* The second half becomes the first.
LEMMA MovedKeeps ==
  ASSUME Inv, Moved
  PROVE  Inv'
<1>1. /\ c.pc = "moved" /\ c' = NoCall /\ g' = [g EXCEPT !.in = c.rest] /\ nin' = Own
      /\ ret' = [op |-> c.op, val |-> "OK", n |-> c.all, flush |-> c.arg]
      /\ acked' = acked \cup (Len(acc') - c.all + 1 .. Len(acc'))
  BY DEF Moved, Done
<1>2. /\ file' = file /\ out' = out /\ d' = d /\ acc' = acc /\ faults' = faults /\ app' = app
  BY DEF Moved, Done
<1>3. TypeInv /\ ControlInv /\ EmptyInv /\ HurtInv /\ InputInv /\ CallInv /\ DataInv /\ FinInv
      /\ ShapeInv /\ DrainInv
  BY DEF Inv
<1>4. c \in CallStates
  BY <1>1, <1>3 DEF TypeInv, ControlInv, PlaceInv, ArgInv, Zeroing, CallStates
<1>5. /\ c' \in CallStates /\ c'.pc = "idle" /\ c'.op = "none" /\ c'.main = "none"
      /\ c'.back = "none" /\ c'.left = 0 /\ c'.all = 0 /\ c'.arg = "NO" /\ c'.flush = "NO"
      /\ c'.dret = "OK" /\ c'.zeroed = -1 /\ c'.rest = <<>> /\ c'.ret = "OK"
      /\ c'.par = <<"-1", "dflt">>
  BY <1>1, NoCallFacts
<1>6. g'.in = c.rest /\ g'.size = g.size /\ g'.direct = g.direct /\ g'.seek = g.seek
      /\ g'.err = g.err /\ g'.skip = g.skip
  BY <1>1, <1>3 DEF TypeInv, States
<1>7. Sent' = Sent
  BY <1>2 DEF Sent
<1>8. faults = 0 /\ Data' \in Seq(Int) /\ Data' = acc'
  <2>1. faults = 0 /\ c.op # "gzclose"
    BY <1>1, <1>3 DEF HurtInv, ControlInv, PlaceInv, TypeInv
  <2>2. g.in = <<>>
    BY <1>1, <1>3 DEF InputInv
  <2>3. PICK s \in Seq(Int) : Data \o s = acc /\ (s = c.rest \/ Broken)
    BY <1>3 DEF DataInv
  <2>4. Data \o c.rest = acc
    <3>1. ~Broken
      BY <2>1 DEF Broken
    <3> QED  BY <2>3, <3>1, Zenon
  <2>5. Decoded(Sent) \o d.held \in Seq(Int)
    BY <1>3, DataType, CatIntType DEF TypeInv, DeflateStates
  <2>6. Data = Decoded(Sent) \o d.held
    BY <2>2, <2>5, EmptyInt DEF Data
  <2>7. Data' = (Decoded(Sent) \o d.held) \o c.rest
    BY <1>2, <1>7, <1>6 DEF Data
  <2> QED  BY <1>2, <1>3, <2>1, <2>4, <2>6, <2>7 DEF TypeInv
<1>9. 1 .. Len(Data) \subseteq 1 .. Len(acc)
  BY <1>3, DataShort
<1>10. /\ acked' \subseteq 1 .. Len(acc') /\ \A j \in acked' : acc'[j] = j
      /\ \A i \in 1 .. Len(acc') : (acc'[i] <= 0 \/ acc'[i] = i)
  <2>1. acked \in SUBSET (1 .. Len(acc)) /\ (\A j \in acked : acc[j] = j)
        /\ \A i \in 1 .. Len(acc) : (acc[i] <= 0 \/ acc[i] = i)
    BY <1>9, <1>3 DEF DataInv
  <2>2. Len(acc) \in Nat /\ acc \in Seq(Int)
    BY <1>3, EmptyInt DEF TypeInv
  <2>3. c.all \in 0 .. Len(acc) /\ \A i \in Len(acc) - c.all + 1 .. Len(acc) : acc[i] = i
    BY <1>1, <1>3, <1>4, <2>2 DEF CallInv, EndsIn, CallStates
  <2>4. acked' = acked \cup (Len(acc) - c.all + 1 .. Len(acc))
    BY <1>1, <1>2
  <2>5. acked \cup (Len(acc) - c.all + 1 .. Len(acc)) \subseteq 1 .. Len(acc)
        /\ \A j \in acked \cup (Len(acc) - c.all + 1 .. Len(acc)) : acc[j] = j
    BY <2>1, <2>2, <2>3, AckedGrows, ZenonT(40)
  <2> QED  BY <1>2, <2>1, <2>4, <2>5
<1>11. TypeInv'
  <2>1. g' \in States /\ g'.mode = g.mode /\ g'.data = g.data /\ g'.want = g.want
        /\ g'.size = g.size /\ g'.pos = g.pos
    BY <1>1, <1>3, <1>4 DEF TypeInv, States, CallStates
  <2>2. nin' \in [user : BOOLEAN, off : Nat]
    BY <1>1 DEF Own
  <2> QED  BY <1>2, <1>3, <1>5, <2>1, <2>2 DEF TypeInv, MaxCalls, MaxFaults
<1>12. ControlInv'
  BY <1>1, <1>2, <1>3, <1>5, <1>6, NoCallFacts
     DEF ControlInv, IdleInv, PlaceInv, ArgInv, Zeroing, At, Seeks, Mains
<1>13. EmptyInv'
  BY <1>2, <1>3, <1>4, <1>6, EmptyInt DEF EmptyInv, CallInv, CallStates
<1>14. HurtInv'
  BY <1>2, <1>3, <1>8 DEF HurtInv
<1>15. InputInv'
  BY <1>1, <1>3, <1>5, <1>6 DEF InputInv, CallInv
<1>16. CallInv'
  BY <1>2, <1>3, <1>5, <1>6, EmptyInt, SMTT(40) DEF CallInv, EndsIn, At, TypeInv, States
<1>17. DataInv'
  <2>1. Data' \in Seq(Int) /\ Data' = acc'
    BY <1>8
  <2>2. Data' \o <<>> = acc' /\ <<>> \in Seq(Int)
    BY <2>1, EmptyInt
  <2>3. \E s \in Seq(Int) : Data' \o s = acc' /\ (s = c'.rest \/ Broken')
    BY <1>5, <2>2
  <2>4. acked' \subseteq 1 .. Len(acc') /\ \A j \in acked' : acc'[j] = j
    BY <1>10
  <2> QED  BY <1>10, <2>1, <2>3, <2>4 DEF DataInv
<1>18. FinInv'
  BY <1>1, <1>2, <1>3, <1>5, <1>8 DEF FinInv
<1>19. ShapeInv'
  BY <1>2, <1>3, <1>7, <1>6 DEF ShapeInv, Within, WellFormed
<1>20. DrainInv'
  <2>1. ~FlushOK'
    BY <1>1, <1>3 DEF FlushOK, ControlInv, PlaceInv
  <2> QED  BY <1>2, <1>5, <2>1 DEF DrainInv
<1> QED  BY <1>11, <1>12, <1>13, <1>14, <1>15, <1>16, <1>17, <1>18, <1>19, <1>20 DEF Inv

-----------------------------------------------------------------------------
(* gzflush, gzsetparams and gzclose_w.                                     *)

\* gzflush calls gz_comp.
LEMMA FlushKeeps ==
  ASSUME Inv, Flush
  PROVE  Inv'
<1>1. c' = Comp(c, c.arg, "wrote") /\ c.pc = "flush"
  BY DEF Flush
<1>2. /\ file' = file /\ g' = g /\ nin' = nin /\ out' = out /\ d' = d /\ ret' = ret /\ acc' = acc
      /\ acked' = acked /\ faults' = faults /\ app' = app
  BY DEF Flush
<1>3. TypeInv /\ ControlInv /\ EmptyInv /\ HurtInv /\ InputInv /\ CallInv /\ DataInv /\ FinInv
      /\ ShapeInv /\ DrainInv
  BY DEF Inv
<1>4. c \in CallStates /\ c.arg \in FlushValues
  BY <1>1, <1>3 DEF TypeInv, ControlInv, PlaceInv, ArgInv, Zeroing, CallStates
<1>5. /\ c' \in CallStates /\ c'.pc = "comp" /\ c'.op = c.op /\ c'.main = c.main
      /\ c'.back = "wrote" /\ c'.left = c.left /\ c'.all = c.all /\ c'.arg = c.arg
      /\ c'.flush = c.arg /\ c'.dret = "OK" /\ c'.zeroed = c.zeroed /\ c'.rest = c.rest
      /\ c'.ret = c.ret /\ c'.par = c.par
  <2>1. "wrote" \in Backs
    BY DEF Backs
  <2>2. CompFacts(Comp(c, c.arg, "wrote"), c, c.arg, "wrote")
    BY <1>4, <2>1, CompOK, Zenon
  <2> QED  BY <1>1, <2>2 DEF CompFacts
<1>6. Sent' = Sent /\ Data' = Data
  BY <1>2 DEF Sent, Data
<1>7. TypeInv'
  BY <1>1, <1>2, <1>3, <1>5 DEF TypeInv, MaxCalls, MaxFaults
<1>8. ControlInv'
  <2>1. IdleInv'
    BY <1>1, <1>4, <1>5 DEF IdleInv, Mains
  <2>2. PlaceInv'
    BY <1>1, <1>2, <1>3, <1>4, <1>5 DEF ControlInv, PlaceInv, Zeroing, At, Mains
  <2>3. ArgInv'
    BY <1>1, <1>2, <1>3, <1>4, <1>5
       DEF ControlInv, ArgInv, PlaceInv, Zeroing, At, Mains, Flushes, Seeks
  <2> QED  BY <2>1, <2>2, <2>3 DEF ControlInv
<1>9. EmptyInv'
  BY <1>2, <1>3 DEF EmptyInv
<1>10. HurtInv'
  BY <1>1, <1>2, <1>3, <1>4, <1>5 DEF HurtInv, Faults
<1>11. InputInv'
  BY <1>1, <1>2, <1>3, <1>4, <1>5 DEF InputInv, Zeroing, At, Mains
<1>12. CallInv'
  <2>1. c.all = 0 /\ c.left = 0
    BY <1>1, <1>3, <1>4 DEF ControlInv, PlaceInv, ArgInv, Mains, CallInv, CallStates
  <2>2. EndsIn(acc', 0)
    BY <1>2, <1>3, LenProperties DEF EndsIn, TypeInv
  <2> QED  BY <1>1, <1>2, <1>3, <1>5, <2>1, <2>2 DEF CallInv, At
<1>13. DataInv'
  BY <1>1, <1>2, <1>3, <1>4, <1>5, <1>6 DEF DataInv, Broken, Closing_, At
<1>14. FinInv'
  BY <1>1, <1>2, <1>3, <1>4, <1>5 DEF FinInv, EmptyInv, Flushes
<1>15. ShapeInv'
  BY <1>1, <1>2, <1>3, <1>4, <1>5, <1>6 DEF ShapeInv, Within, WellFormed
<1>16. DrainInv'
  BY <1>1, <1>2, <1>3, <1>4, <1>5, <1>6
     DEF DrainInv, Drained, Finished, FlushOK, EmptyInv, Flushes, Mains
<1> QED  BY <1>7, <1>8, <1>9, <1>10, <1>11, <1>12, <1>13, <1>14, <1>15, <1>16 DEF Inv

\* gzsetparams lets what is buffered go first.
LEMMA ParamsFlushKeeps ==
  ASSUME Inv, ParamsFlush
  PROVE  Inv'
<1>1. c' = Comp(c, "BLOCK", "params") /\ c.pc = "params" /\ g.size # 0 /\ g.in # <<>>
  BY DEF ParamsFlush
<1>2. /\ file' = file /\ g' = g /\ nin' = nin /\ out' = out /\ d' = d /\ ret' = ret /\ acc' = acc
      /\ acked' = acked /\ faults' = faults /\ app' = app
  BY DEF ParamsFlush
<1>3. TypeInv /\ ControlInv /\ EmptyInv /\ HurtInv /\ InputInv /\ CallInv /\ DataInv /\ FinInv
      /\ ShapeInv /\ DrainInv
  BY DEF Inv
<1>4. c \in CallStates
  BY <1>1, <1>3 DEF TypeInv, ControlInv, PlaceInv, ArgInv, Zeroing, CallStates
<1>5. /\ c' \in CallStates /\ c'.pc = "comp" /\ c'.op = c.op /\ c'.main = c.main
      /\ c'.back = "params" /\ c'.left = c.left /\ c'.all = c.all /\ c'.arg = c.arg
      /\ c'.flush = "BLOCK" /\ c'.dret = "OK" /\ c'.zeroed = c.zeroed /\ c'.rest = c.rest
      /\ c'.ret = c.ret /\ c'.par = c.par
  BY <1>1, <1>4, CompOK DEF CompFacts, FlushValues, Backs
<1>6. Sent' = Sent /\ Data' = Data
  BY <1>2 DEF Sent, Data
<1>7. TypeInv'
  BY <1>1, <1>2, <1>3, <1>5 DEF TypeInv, MaxCalls, MaxFaults
<1>8. ControlInv'
  <2>1. IdleInv'
    BY <1>1, <1>4, <1>5 DEF IdleInv, Mains
  <2>2. PlaceInv'
    BY <1>1, <1>2, <1>3, <1>4, <1>5 DEF ControlInv, PlaceInv, Zeroing, At, Mains
  <2>3. ArgInv'
    BY <1>1, <1>2, <1>3, <1>4, <1>5
       DEF ControlInv, ArgInv, PlaceInv, Zeroing, At, Mains, Flushes, Seeks
  <2> QED  BY <2>1, <2>2, <2>3 DEF ControlInv
<1>9. EmptyInv'
  BY <1>2, <1>3 DEF EmptyInv
<1>10. HurtInv'
  BY <1>1, <1>2, <1>3, <1>4, <1>5 DEF HurtInv, Faults
<1>11. InputInv'
  BY <1>1, <1>2, <1>3, <1>4, <1>5 DEF InputInv, Zeroing, At, Mains
<1>12. CallInv'
  BY <1>1, <1>2, <1>3, <1>4, <1>5
     DEF CallInv, EndsIn, At, CallStates, TypeInv, ControlInv, PlaceInv, ArgInv, Zeroing, Mains
<1>13. DataInv'
  BY <1>1, <1>2, <1>3, <1>4, <1>5, <1>6 DEF DataInv, Broken, Closing_, At
<1>14. FinInv'
  BY <1>1, <1>2, <1>3, <1>4, <1>5 DEF FinInv, EmptyInv, Flushes
<1>15. ShapeInv'
  BY <1>1, <1>2, <1>3, <1>4, <1>5, <1>6 DEF ShapeInv, Within, WellFormed
<1>16. DrainInv'
  BY <1>1, <1>2, <1>3, <1>4, <1>5, <1>6
     DEF DrainInv, Drained, Finished, FlushOK, EmptyInv, Flushes, Mains
<1> QED  BY <1>7, <1>8, <1>9, <1>10, <1>11, <1>12, <1>13, <1>14, <1>15, <1>16 DEF Inv

\* What gzsetparams changes leaves the data on its way as it is.
ParamsMade ==
  /\ out' \in [cells : Seq(Cells), avail : Nat] /\ Len(out'.cells) + out'.avail <= g.size
  /\ d' \in DeflateStates /\ d'.live = d.live /\ ~d'.fin
  /\ Data' = Data /\ ShapeInv'
  /\ g.size = 0 \/ g.direct => /\ d'.pend = <<>> /\ d'.held = <<>> /\ ~d'.head
                               /\ out'.cells = <<>>

\* deflateParams may flush what deflate() holds.
LEMMA ParamsFlushed ==
  ASSUME TypeInv, ShapeInv, ~g.direct, ~d.fin, g.size # 0, g.in = <<>>, NEW r, NEW new,
         ParamsDone(d, r, out.avail, new), file' = file, g'.in = g.in, g'.direct = g.direct,
         out' = [cells |-> out.cells \o r.out, avail |-> out.avail - Len(r.out)], d' = r.e
  PROVE  ParamsMade
<1>1. /\ out.cells \in Seq(Cells) /\ Len(out.cells) \in Nat /\ out.avail \in Nat
      /\ Len(out.cells) + out.avail <= g.size /\ g.size \in Nat
      /\ d \in DeflateStates /\ d.held \in Seq(Int) /\ d.pend \in Seq(Cells) /\ file \in Seq(Cells)
      /\ d.head \in BOOLEAN /\ d.fin = FALSE
  BY EmptyCells, GzSizes DEF TypeInv, States, DeflateStates
<1>2. /\ r.out \in Seq(Cells) /\ Len(r.out) <= out.avail /\ r.e \in DeflateStates
      /\ r.e.live = d.live /\ ~r.e.fin /\ new \in Seq(Cells) /\ r.out \o r.e.pend = d.pend \o new
      /\ Decoded(new) \o r.e.held = d.held
      /\ \/ new = <<>> /\ r.e.head = d.head
         \/ Shaped(d.head, new, FALSE) /\ r.e.head
  BY DEF ParamsDone
<1>3. r.e.pend \in Seq(Cells) /\ r.e.held \in Seq(Int) /\ r.e.head \in BOOLEAN
  BY <1>2 DEF DeflateStates
<1>4. /\ out'.cells = out.cells \o r.out /\ out'.avail = out.avail - Len(r.out)
      /\ out' \in [cells : Seq(Cells), avail : Nat] /\ Len(out'.cells) + out'.avail <= g.size
  <2>1. out.cells \o r.out \in Seq(Cells) /\ Len(out.cells \o r.out) = Len(out.cells) + Len(r.out)
    BY <1>1, <1>2, ConcatProperties
  <2>2. out.avail - Len(r.out) \in Nat /\ Len(r.out) \in Nat
    BY <1>1, <1>2, EmptyCells
  <2>3. out'.cells = out.cells \o r.out /\ out'.avail = out.avail - Len(r.out)
        /\ out' \in [cells : Seq(Cells), avail : Nat]
    BY <2>1, <2>2
  <2>4. Len(out'.cells) + out'.avail <= g.size
    <3> DEFINE x == Len(out'.cells)
               y == Len(out.cells)
               z == Len(r.out)
    <3>1. x = y + z /\ out'.avail = out.avail - z /\ y \in Nat /\ z \in Nat
          /\ y + out.avail <= g.size
      BY <1>1, <2>1, <2>2, <2>3
    <3> HIDE DEF x, y, z
    <3>2. x + out'.avail <= g.size
      BY <1>1, <3>1
    <3> QED  BY <3>2 DEF x
  <2> QED  BY <2>3, <2>4
<1>5. Sent' = Sent \o new /\ Sent \in Seq(Cells)
  <2>1. SentGrowsTo(file, out.cells, d.pend, r.out, r.e.pend, new)
    BY <1>1, <1>2, <1>3, SentGrows, Zenon
  <2>2. Sent' = (file \o (out.cells \o r.out)) \o r.e.pend
    BY <1>4 DEF Sent
  <2> QED  BY <2>1, <2>2, DataType DEF Sent, SentGrowsTo
<1>6. Data' = Data
  <2> DEFINE e == <<>>
  <2>1. e \in Seq(Int) /\ 0 \in 0 .. Len(e) /\ SubSeq(e, 1, 0) = e /\ SubSeq(e, 0 + 1, Len(e)) = e
        /\ d.held \o e = d.held
    BY <1>1, EmptyInt
  <2> HIDE DEF e
  <2>2. Decoded(new) \o r.e.held = d.held \o SubSeq(e, 1, 0)
    BY <1>2, <2>1
  <2>3. DataGrowsTo(Sent, new, d.held, r.e.held, e, 0)
    BY <1>1, <1>2, <1>3, <1>5, <2>1, <2>2, DataGrows, Zenon
  <2>4. (Decoded(Sent \o new) \o r.e.held) \o e = (Decoded(Sent) \o d.held) \o e
    BY <2>1, <2>3 DEF DataGrowsTo
  <2>5. g.in = e /\ g'.in = e
    BY DEF e
  <2> QED  BY <1>5, <2>4, <2>5 DEF Data
<1>7. ShapeInv'
  <2> DEFINE t == Sent \o new
  <2>1. WellFormed(Sent) /\ (d.head <=> Within(Sent))
    BY <1>1 DEF ShapeInv
  <2>2. WellFormed(t) /\ (r.e.head <=> Within(t))
    <3>1. CASE new = <<>> /\ r.e.head = d.head
      <4>1. t = Sent
        BY <1>5, <3>1, EmptyCells
      <4> HIDE DEF t
      <4> QED  BY <2>1, <3>1, <4>1
    <3>2. CASE Shaped(d.head, new, FALSE) /\ r.e.head
      <4> DEFINE ends == r.e.fin
      <4>1. ends \in BOOLEAN /\ Shaped(d.head, new, ends) /\ ~ends
        <5>1. ends = FALSE
          BY <1>2 DEF DeflateStates
        <5> QED  BY <3>2, <5>1
      <4> HIDE DEF ends
      <4>2. WellFormed(t) /\ t # <<>> /\ (ends <=> ~Within(t))
        BY <1>1, <1>2, <1>5, <2>1, <4>1, ShapeGrows
      <4> HIDE DEF t
      <4> QED  BY <3>2, <4>1, <4>2
    <3> QED  BY <1>2, <3>1, <3>2
  <2>3. Sent' = t
    BY <1>5
  <2> HIDE DEF t
  <2>4. ShapeInv' <=> (~g'.direct => /\ WellFormed(t)
                                     /\ IF d'.fin THEN t # <<>>
                                        /\ ~Within(t) ELSE d'.head <=> Within(t))
    BY <2>3 DEF ShapeInv, Within, WellFormed
  <2> QED  BY <1>2, <2>2, <2>4
<1> QED  BY <1>2, <1>4, <1>6, <1>7 DEF ParamsMade

\* gzsetparams ends.
LEMMA ParamsChangedKeeps ==
  ASSUME Inv, c.pc = "params", g.in = <<>>,
         g' = [g EXCEPT !.level = c.par[1], !.strategy = c.par[2]], ParamsMade,
         acc' = acc, Done(0), UNCHANGED <<file, nin, faults, app>>
  PROVE  Inv'
<1>1. /\ c.pc = "params" /\ g.in = <<>>
      /\ g' = [g EXCEPT !.level = c.par[1], !.strategy = c.par[2]]
      /\ acc' = acc
      /\ c' = NoCall /\ ret' = [op |-> c.op, val |-> "OK", n |-> 0, flush |-> c.arg]
      /\ acked' = acked \cup (Len(acc') - 0 + 1 .. Len(acc'))
  BY DEF Done
<1>2. /\ file' = file /\ nin' = nin /\ acc' = acc /\ faults' = faults /\ app' = app
  BY DEF Done
<1>3. TypeInv /\ ControlInv /\ EmptyInv /\ HurtInv /\ InputInv /\ CallInv /\ DataInv /\ FinInv
      /\ ShapeInv /\ DrainInv
  BY DEF Inv
<1>4. c \in CallStates /\ c.par \in (Levels \cup {"-1"}) \X (Strategies \cup {"dflt"})
  BY <1>1, <1>3 DEF TypeInv, ControlInv, PlaceInv, ArgInv, Zeroing, CallStates
<1>5. /\ c' \in CallStates /\ c'.pc = "idle" /\ c'.op = "none" /\ c'.main = "none"
      /\ c'.back = "none" /\ c'.left = 0 /\ c'.all = 0 /\ c'.arg = "NO" /\ c'.flush = "NO"
      /\ c'.dret = "OK" /\ c'.zeroed = -1 /\ c'.rest = <<>> /\ c'.ret = "OK"
      /\ c'.par = <<"-1", "dflt">>
  BY <1>1, NoCallFacts
<1>6. /\ faults = 0 /\ Data = acc
      /\ out' \in [cells : Seq(Cells), avail : Nat] /\ Len(out'.cells) + out'.avail <= g.size
      /\ d' \in DeflateStates /\ d'.live = d.live /\ ~d'.fin /\ Data' = Data /\ ShapeInv'
      /\ (g.size = 0 \/ g.direct => /\ d'.pend = <<>> /\ d'.held = <<>> /\ ~d'.head
                                    /\ out'.cells = <<>>)
  <2>1. faults = 0
    BY <1>1, <1>3 DEF HurtInv, ControlInv, PlaceInv, TypeInv, Mains
  <2>2. c.rest = <<>>
    BY <1>1, <1>3 DEF ControlInv, ArgInv, At
  <2> QED  BY <1>3, <2>1, <2>2, DataWhole DEF ParamsMade
<1>7. acked' = acked
  <2>1. Len(acc) \in Nat
    BY <1>3, EmptyInt DEF TypeInv
  <2>2. Len(acc) - 0 + 1 .. Len(acc) = {}
    BY <2>1
  <2> QED  BY <1>1, <2>2
<1>8. /\ g' \in States /\ g'.mode = g.mode /\ g'.size = g.size /\ g'.want = g.want
      /\ g'.direct = g.direct /\ g'.how = g.how /\ g'.eof = g.eof /\ g'.past = g.past
      /\ g'.seek = g.seek /\ g'.skip = g.skip /\ g'.err = g.err /\ g'.data = g.data
      /\ g'.next = g.next /\ g'.pos = g.pos /\ g'.in = g.in
  BY <1>1, <1>3, <1>4, ZenonT(60) DEF TypeInv, States
<1>9. TypeInv'
  BY <1>2, <1>3, <1>5, <1>6, <1>8 DEF TypeInv, MaxCalls, MaxFaults
<1>10. ControlInv'
  BY <1>1, <1>2, <1>3, <1>5, <1>8, NoCallFacts
     DEF ControlInv, IdleInv, PlaceInv, ArgInv, Zeroing, At, Seeks, Mains
<1>11. EmptyInv'
  BY <1>1, <1>3, <1>6, <1>8 DEF EmptyInv
<1>12. HurtInv'
  BY <1>2, <1>6 DEF HurtInv
<1>13. InputInv'
  BY <1>1, <1>8 DEF InputInv
<1>14. CallInv'
  <2>1. EndsIn(acc', 0)
    BY <1>2, <1>3, EmptyInt DEF EndsIn, TypeInv
  <2>2. Len(<<>>) = 0 /\ g.size >= 0
    BY <1>3, EmptyInt, GzSizes DEF TypeInv, States
  <2> QED  BY <1>5, <1>8, <2>1, <2>2 DEF CallInv, At
<1>15. DataInv'
  <2>1. Data' \o <<>> = acc' /\ <<>> \in Seq(Int)
    BY <1>2, <1>3, <1>6, EmptyInt DEF TypeInv
  <2>2. \E s \in Seq(Int) : Data' \o s = acc' /\ (s = c'.rest \/ Broken')
    BY <1>5, <2>1
  <2>3. acked' \subseteq 1 .. Len(Data') /\ (\A j \in acked' : acc'[j] = j)
        /\ \A i \in 1 .. Len(acc') : (acc'[i] <= 0 \/ acc'[i] = i)
    BY <1>2, <1>3, <1>6, <1>7 DEF DataInv
  <2> QED  BY <2>2, <2>3 DEF DataInv
<1>16. FinInv'
  BY <1>5, <1>6 DEF FinInv
<1>17. ShapeInv'
  BY <1>6
<1>18. DrainInv'
  <2>1. ~FlushOK'
    BY <1>1, <1>3 DEF FlushOK, ControlInv, PlaceInv, Mains
  <2> QED  BY <1>2, <1>5, <2>1 DEF DrainInv
<1> QED  BY <1>9, <1>10, <1>11, <1>12, <1>13, <1>14, <1>15, <1>16, <1>17, <1>18 DEF Inv

\* gzsetparams when the buffers are there and deflate is in use, when the file is
\* transparent, and when there are no buffers yet.
LEMMA ParamsChangeKeeps ==
  ASSUME Inv, ParamsChange
  PROVE  Inv'
<1>1. /\ c.pc = "params" /\ (g.size = 0 \/ g.in = <<>>)
      /\ g' = [g EXCEPT !.level = c.par[1], !.strategy = c.par[2]]
      /\ acc' = acc /\ Done(0) /\ UNCHANGED <<file, nin, faults, app>>
  BY DEF ParamsChange
<1>2. /\ TypeInv /\ ShapeInv /\ g \in States /\ d \in DeflateStates /\ out.avail \in Nat
      /\ c.par \in (Levels \cup {"-1"}) \X (Strategies \cup {"dflt"})
  BY DEF Inv, TypeInv, CallStates
<1>3. g.in = <<>>
  BY <1>1 DEF Inv, EmptyInv
<1>4. ~d.fin
  BY <1>1 DEF Inv, FinInv
<1>5. g'.in = g.in /\ g'.direct = g.direct
  BY <1>1, <1>2 DEF States
<1>6. g.size = 0 \/ g.direct => /\ d.pend = <<>> /\ d.held = <<>> /\ ~d.head
                                /\ out.cells = <<>>
  BY DEF Inv, EmptyInv
<1>7. ParamsMade
  <2>1. CASE g.size # 0 /\ d.live
    <3>1. PICK r \in deflateParams(d, out.avail, c.par) :
            d' = r.e /\ out' = [cells |-> out.cells \o r.out, avail |-> out.avail - Len(r.out)]
      BY <2>1 DEF ParamsChange
    <3>2. PICK new : ParamsDone(d, r, out.avail, new)
      BY <1>2, <1>4, <3>1, ParamsOK
    <3>3. ~g.direct
      BY <2>1 DEF Inv, EmptyInv
    <3> QED  BY <1>1, <1>2, <1>3, <1>4, <1>5, <2>1, <3>1, <3>2, <3>3, ParamsFlushed
  <2>2. CASE ~(g.size # 0 /\ d.live)
    <3>1. /\ d' \in DeflateStates /\ d'.live = d.live /\ d'.pend = d.pend /\ d'.held = d.held
          /\ d'.fin = d.fin /\ d'.head = d.head /\ out' = out
      <4>1. CASE g.size # 0 /\ ~d.live
        <5>1. d' = [d EXCEPT !.used = TRUE] /\ out' = out
          BY <4>1, Zenon DEF ParamsChange
        <5> QED  BY <1>2, <5>1 DEF DeflateStates
      <4>2. CASE g.size = 0
        <5>1. ~(g.size # 0 /\ d.live) /\ ~(g.size # 0 /\ ~d.live)
          BY <4>2
        <5>2. d' = d /\ out' = out
          BY <5>1, Zenon DEF ParamsChange
        <5> QED  BY <1>2, <5>2 DEF DeflateStates
      <4> QED  BY <2>2, <4>1, <4>2
    <3>2. Sent' = Sent
      BY <1>1, <3>1 DEF Sent
    <3>3. Data' = Data
      BY <1>5, <3>1, <3>2 DEF Data
    <3>4. ShapeInv'
      BY <1>2, <1>5, <3>1, <3>2 DEF ShapeInv, Within, WellFormed
    <3>5. out' \in [cells : Seq(Cells), avail : Nat] /\ Len(out'.cells) + out'.avail <= g.size
      BY <1>2, <3>1 DEF TypeInv
    <3> QED  BY <1>4, <1>6, <3>1, <3>3, <3>4, <3>5 DEF ParamsMade
  <2> QED  BY <2>1, <2>2
<1> QED  BY <1>1, <1>3, <1>7, ParamsChangedKeeps

\* gzclose ends the stream.
LEMMA CloseFinishKeeps ==
  ASSUME Inv, CloseFinish
  PROVE  Inv'
<1>1. c' = Comp(c, "FINISH", "closing") /\ c.pc = "close"
  BY DEF CloseFinish
<1>2. /\ file' = file /\ g' = g /\ nin' = nin /\ out' = out /\ d' = d /\ ret' = ret /\ acc' = acc
      /\ acked' = acked /\ faults' = faults /\ app' = app
  BY DEF CloseFinish
<1>3. TypeInv /\ ControlInv /\ EmptyInv /\ HurtInv /\ InputInv /\ CallInv /\ DataInv /\ FinInv
      /\ ShapeInv /\ DrainInv
  BY DEF Inv
<1>4. c \in CallStates
  BY <1>1, <1>3 DEF TypeInv, ControlInv, PlaceInv, ArgInv, Zeroing, CallStates
<1>5. /\ c' \in CallStates /\ c'.pc = "comp" /\ c'.op = c.op /\ c'.main = c.main
      /\ c'.back = "closing" /\ c'.left = c.left /\ c'.all = c.all /\ c'.arg = c.arg
      /\ c'.flush = "FINISH" /\ c'.dret = "OK" /\ c'.zeroed = c.zeroed /\ c'.rest = c.rest
      /\ c'.ret = c.ret /\ c'.par = c.par
  BY <1>1, <1>4, CompOK DEF CompFacts, FlushValues, Backs
<1>6. Sent' = Sent /\ Data' = Data
  BY <1>2 DEF Sent, Data
<1>7. TypeInv'
  BY <1>1, <1>2, <1>3, <1>5 DEF TypeInv, MaxCalls, MaxFaults
<1>8. ControlInv'
  <2>1. IdleInv'
    BY <1>1, <1>4, <1>5 DEF IdleInv, Mains
  <2>2. PlaceInv'
    BY <1>1, <1>2, <1>3, <1>4, <1>5 DEF ControlInv, PlaceInv, Zeroing, At, Mains
  <2>3. ArgInv'
    BY <1>1, <1>2, <1>3, <1>4, <1>5
       DEF ControlInv, ArgInv, PlaceInv, Zeroing, At, Mains, Flushes, Seeks
  <2> QED  BY <2>1, <2>2, <2>3 DEF ControlInv
<1>9. EmptyInv'
  BY <1>2, <1>3 DEF EmptyInv
<1>10. HurtInv'
  BY <1>1, <1>2, <1>3, <1>4, <1>5 DEF HurtInv, Faults
<1>11. InputInv'
  BY <1>1, <1>2, <1>3, <1>4, <1>5 DEF InputInv, Zeroing, At, Mains
<1>12. CallInv'
  BY <1>1, <1>2, <1>3, <1>4, <1>5
     DEF CallInv, EndsIn, At, CallStates, TypeInv, ControlInv, PlaceInv, ArgInv, Zeroing, Mains
<1>13. DataInv'
  BY <1>1, <1>2, <1>3, <1>4, <1>5, <1>6 DEF DataInv, Broken, Closing_, At
<1>14. FinInv'
  BY <1>1, <1>2, <1>3, <1>4, <1>5 DEF FinInv, EmptyInv, Flushes
<1>15. ShapeInv'
  BY <1>1, <1>2, <1>3, <1>4, <1>5, <1>6 DEF ShapeInv, Within, WellFormed
<1>16. DrainInv'
  BY <1>1, <1>2, <1>3, <1>4, <1>5, <1>6
     DEF DrainInv, Drained, Finished, FlushOK, EmptyInv, Flushes, Mains
<1> QED  BY <1>7, <1>8, <1>9, <1>10, <1>11, <1>12, <1>13, <1>14, <1>15, <1>16 DEF Inv

\* gzclose frees everything and closes the file.
LEMMA ClosingKeeps ==
  ASSUME Inv, Closing
  PROVE  Inv'
<1>1. c.pc = "closing" /\ c' = [NoCall EXCEPT !.pc = "closed"] /\ g' = gz_error(g, "OK")
      /\ d' = [d EXCEPT !.live = FALSE]
  BY DEF Closing
<1>2. /\ file' = file /\ nin' = nin /\ out' = out /\ acc' = acc /\ acked' = acked /\ app' = app
  BY DEF Closing
<1>3. TypeInv /\ ControlInv /\ EmptyInv /\ HurtInv /\ InputInv /\ CallInv /\ DataInv /\ FinInv
      /\ ShapeInv /\ DrainInv
  BY DEF Inv
<1>4. c \in CallStates
  BY <1>1, <1>3 DEF TypeInv, ControlInv, PlaceInv, ArgInv, Zeroing, CallStates
<1>5. /\ c' \in CallStates /\ c'.pc = "closed" /\ c'.op = "none" /\ c'.main = "none"
      /\ c'.back = "none" /\ c'.left = 0 /\ c'.all = 0 /\ c'.arg = "NO" /\ c'.flush = "NO"
      /\ c'.dret = "OK" /\ c'.zeroed = -1 /\ c'.rest = <<>> /\ c'.ret = "OK"
      /\ c'.par = <<"-1", "dflt">>
  <2>1. "closed" \in Pcs
    BY DEF Pcs
  <2> QED  BY <1>1, <2>1, NoCallFacts DEF CallStates
<1>6. /\ g' \in States /\ g'.mode = g.mode /\ g'.size = g.size /\ g'.direct = g.direct
         /\ g'.data = g.data
      /\ g'.pos = g.pos /\ g'.in = g.in /\ g'.want = g.want /\ g'.seek = g.seek /\ g.seek = FALSE
      /\ d' \in DeflateStates /\ d'.live = FALSE /\ d'.pend = d.pend /\ d'.held = d.held
      /\ d'.fin = d.fin /\ d'.head = d.head
      /\ faults' \in 0 .. MaxFaults /\ (faults > 0 => faults' > 0) /\ (faults' > 0 => Faults # {})
      /\ (ret'.val = "OK" => c.ret = "OK")
  <2>1. g \in States /\ g.data = <<>> /\ d \in DeflateStates /\ faults \in 0 .. MaxFaults
        /\ MaxFaults \in Nat
    BY <1>3, UsesAssumption DEF TypeInv, MaxFaults
  <2>2. g' = [g EXCEPT !.err = "OK", !.data = g.data] /\ "OK" \in Errors
    BY <1>1, <2>1 DEF gz_error, Fatal, Errors
  <2>3. /\ g' \in States /\ g'.mode = g.mode /\ g'.size = g.size /\ g'.direct = g.direct
           /\ g'.data = g.data
        /\ g'.pos = g.pos /\ g'.in = g.in /\ g'.want = g.want /\ g'.seek = g.seek
    BY <2>1, <2>2 DEF States
  <2>4. g.seek = FALSE
    BY <1>1, <1>3, <2>1 DEF ControlInv, PlaceInv, States
  <2>5. /\ d' \in DeflateStates /\ d'.live = FALSE /\ d'.pend = d.pend /\ d'.held = d.held
        /\ d'.fin = d.fin /\ d'.head = d.head
    BY <1>1, <2>1 DEF DeflateStates
  <2>6. \/ ret'.val = c.ret /\ faults' = faults
        \/ Faults # {} /\ faults < MaxFaults /\ faults' = faults + 1 /\ ret'.val = "ERRNO"
    BY DEF Closing, AtOnce, NoRet, MayFail
  <2>7. faults' \in 0 .. MaxFaults /\ (faults > 0 => faults' > 0) /\ (faults' > 0 => Faults # {})
        /\ (ret'.val = "OK" => c.ret = "OK")
    BY <1>3, <2>1, <2>6 DEF HurtInv
  <2> QED  BY <2>3, <2>4, <2>5, <2>7
<1>7. Sent' = Sent /\ Data' = Data
  BY <1>2, <1>6 DEF Sent, Data
<1>8. TypeInv'
  BY <1>2, <1>3, <1>5, <1>6 DEF TypeInv, MaxCalls, MaxFaults
<1>9. ControlInv'
  <2>1. IdleInv'
    BY <1>1, <1>5 DEF IdleInv
  <2>2. PlaceInv'
    BY <1>5, <1>6 DEF PlaceInv, Zeroing, At, Mains
  <2>3. ArgInv'
    BY <1>5, <1>6 DEF ArgInv, Zeroing, At, Mains
  <2> QED  BY <2>1, <2>2, <2>3 DEF ControlInv
<1>10. EmptyInv'
  BY <1>2, <1>3, <1>6 DEF EmptyInv
<1>11. HurtInv'
  BY <1>2, <1>3, <1>5, <1>6 DEF HurtInv, Faults
<1>12. InputInv'
  BY <1>5 DEF InputInv, Zeroing, At
<1>13. CallInv'
  <2>1. EndsIn(acc, 0)
    BY <1>3, EmptyInt DEF EndsIn, TypeInv
  <2>2. Len(<<>>) = 0 /\ 0 <= g.size
    BY <1>3, EmptyInt DEF TypeInv, States
  <2> QED  BY <1>2, <1>5, <1>6, <2>1, <2>2 DEF CallInv, EndsIn, At
<1>14. DataInv'
  <2>1. PICK s \in Seq(Int) : Data \o s = acc /\ (s = c.rest \/ Broken)
    BY <1>3 DEF DataInv
  <2>2. c.rest = <<>>
    BY <1>1, <1>3 DEF ControlInv, ArgInv, At
  <2>3. Broken => Broken'
    BY <1>5, <1>6 DEF Broken
  <2>4. \E x \in Seq(Int) : Data' \o x = acc' /\ (x = c'.rest \/ Broken')
    BY <1>2, <1>5, <1>7, <2>1, <2>2, <2>3
  <2> QED  BY <1>2, <1>3, <1>7, <2>4 DEF DataInv
<1>15. FinInv'
  BY <1>1, <1>2, <1>3, <1>5, <1>6 DEF FinInv
<1>16. ShapeInv'
  BY <1>2, <1>3, <1>7, <1>6 DEF ShapeInv, Within, WellFormed
<1>17. DrainInv'
  <2>1. Finished => Finished'
    BY <1>2, <1>7, <1>6 DEF Finished, Within, Flushes
  <2> QED  BY <1>1, <1>3, <1>5, <1>6, <2>1 DEF DrainInv
<1> QED  BY <1>8, <1>9, <1>10, <1>11, <1>12, <1>13, <1>14, <1>15, <1>16, <1>17 DEF Inv

-----------------------------------------------------------------------------
(* The actions with several cases, and every step.                         *)

LEMMA ZeroKeeps ==
  ASSUME Inv, Zero
  PROVE  Inv'
<1>1. CASE g.in = <<>>
  BY <1>1, ZeroEmptyKeeps
<1>2. CASE g.in # <<>>
  BY <1>2, ZeroFirstKeeps
<1> QED  BY <1>1, <1>2

LEMMA PutSmallKeeps ==
  ASSUME Inv, PutSmall
  PROVE  Inv'
<1> DEFINE n == Least((g.size - Have) % UINT, c.left)
<1>1. CASE n = c.left
  BY <1>1, PutSmallWhollyKeeps
<1>2. CASE n # c.left
  <2>1. n = Least((g.size - Have) % UINT, c.left)
    OBVIOUS
  <2> HIDE DEF n
  <2> QED  BY <1>2, <2>1, PutSmallPartlyKeeps
<1> QED  BY <1>1, <1>2

LEMMA PutLargeKeeps ==
  ASSUME Inv, PutLarge
  PROVE  Inv'
<1>1. CASE g.in = <<>>
  BY <1>1, PutLargeWholeKeeps
<1>2. CASE g.in # <<>>
  BY <1>2, PutLargeWaitsKeeps
<1> QED  BY <1>1, <1>2

LEMMA PutcKeeps ==
  ASSUME Inv, Putc
  PROVE  Inv'
<1>1. CASE g.size # 0 /\ Have < g.size
  BY <1>1, PutcStoredKeeps
<1>2. CASE ~(g.size # 0 /\ Have < g.size)
  BY <1>2, PutcElsewhereKeeps
<1> QED  BY <1>1, <1>2

LEMMA PrintKeeps ==
  ASSUME Inv, Print_
  PROVE  Inv'
<1> DEFINE b == g.in \o Fresh_(c.all)
<1>1. /\ c.pc = "printf" /\ g.size # 0 /\ Fits(c.all) /\ acc' = acc \o Fresh_(c.all)
      /\ nin' = (IF g.in = <<>> THEN Own ELSE nin) /\ UNCHANGED <<file, out, d, faults, app>>
  BY DEF Print_
<1>2. IF Len(b) >= g.size
      THEN TRUE
      ELSE g' = [g EXCEPT !.in = b, !.pos = @ + c.all] /\ Done(c.all)
  BY DEF Print_
<1>3. CASE Len(b) >= g.size
  <2> DEFINE rest == SubSeq(b, g.size + 1, Len(b))
  <2>1. rest = SubSeq(g.in \o Fresh_(c.all), g.size + 1, Len(g.in \o Fresh_(c.all)))
    OBVIOUS
  <2> HIDE DEF rest
  <2> QED  BY <1>3, <2>1, PrintSplitKeeps
<1>4. CASE ~(Len(b) >= g.size)
  <2>1. Len(g.in \o Fresh_(c.all)) < g.size
    <3>1. Len(b) \in Nat /\ g.size \in Nat
      <4>1. c.all \in Nat
        BY DEF Inv, TypeInv, CallStates
      <4>2. Fresh_(c.all) \in Seq(Int) /\ TypeInv
        BY <4>1, FreshOK DEF Inv
      <4>3. g.in \in Seq(Int) /\ g.size \in Nat
        BY <4>2, GzSizes DEF TypeInv, States
      <4> QED  BY <4>2, <4>3, CatIntType, EmptyInt
    <3> HIDE DEF b
    <3>2. Len(b) < g.size
      BY <1>4, <3>1
    <3> QED  BY <3>2 DEF b
  <2>2. g' = [g EXCEPT !.in = b, !.pos = @ + c.all] /\ Done(c.all)
    BY <1>2, <1>4
  <2>3. Buffered(c.all)
    BY <1>1, <2>2 DEF Buffered
  <2> QED  BY <1>1, <2>1, <2>2, <2>3, PrintStoredKeeps
<1> QED  BY <1>3, <1>4

\* A function that has been called keeps the invariant while it runs.
LEMMA StepKeeps ==
  ASSUME Inv, Step
  PROVE  Inv'
<1>1. \/ InitOk \/ InitNoMemory \/ CompInit \/ CompDirect \/ CompDirectEnds \/ CompWrite
      \/ WriteError \/ CompCorrupt \/ CompDeflate \/ Zero \/ ZeroTurn \/ ZeroEnds \/ PutSmall
      \/ PutLarge \/ Wrote \/ Putc \/ PrintRefused \/ Print_ \/ Moved \/ Flush \/ ParamsFlush
      \/ ParamsChange \/ CloseFinish \/ Closing
  BY DEF Step
<1>2. CASE InitOk
  BY <1>2, InitOkKeeps
<1>3. CASE InitNoMemory
  BY <1>3, InitNoMemoryKeeps
<1>4. CASE CompInit
  BY <1>4, CompInitKeeps
<1>5. CASE CompDirect
  BY <1>5, CompDirectKeeps
<1>6. CASE CompDirectEnds
  BY <1>6, CompDirectEndsKeeps
<1>7. CASE CompWrite
  BY <1>7, CompWriteKeeps
<1>8. CASE WriteError
  BY <1>8, WriteErrorKeeps
<1>9. CASE CompCorrupt
  BY <1>9, CompCorruptNever
<1>10. CASE CompDeflate
  BY <1>10, CompDeflateKeeps
<1>11. CASE Zero
  BY <1>11, ZeroKeeps
<1>12. CASE ZeroTurn
  BY <1>12, ZeroTurnKeeps
<1>13. CASE ZeroEnds
  BY <1>13, ZeroEndsKeeps
<1>14. CASE PutSmall
  BY <1>14, PutSmallKeeps
<1>15. CASE PutLarge
  BY <1>15, PutLargeKeeps
<1>16. CASE Wrote
  BY <1>16, WroteKeeps
<1>17. CASE Putc
  BY <1>17, PutcKeeps
<1>18. CASE PrintRefused
  BY <1>18, PrintRefusedKeeps
<1>19. CASE Print_
  BY <1>19, PrintKeeps
<1>20. CASE Moved
  BY <1>20, MovedKeeps
<1>21. CASE Flush
  BY <1>21, FlushKeeps
<1>22. CASE ParamsFlush
  BY <1>22, ParamsFlushKeeps
<1>23. CASE ParamsChange
  BY <1>23, ParamsChangeKeeps
<1>24. CASE CloseFinish
  BY <1>24, CloseFinishKeeps
<1>25. CASE Closing
  BY <1>25, ClosingKeeps
<1> QED
  BY <1>1, <1>2, <1>3, <1>4, <1>5, <1>6, <1>7, <1>8, <1>9, <1>10, <1>11, <1>12, <1>13, <1>14, <1>15,
     <1>16, <1>17, <1>18, <1>19, <1>20, <1>21, <1>22, <1>23, <1>24, <1>25

\* So does every call of the application.
LEMMA NextKeeps ==
  ASSUME Careful, Inv, Next
  PROVE  Inv'
<1>1. CASE Step
  BY <1>1, StepKeeps
<1>2. CASE \E m \in Modes : GzOpen(m)
  BY <1>2, GzOpenKeeps
<1>3. ASSUME NEW len \in Lengths,
             GzWrite(len) \/ GzFwrite(2, len) \/ GzPuts(len) \/ GzPrintf(len) \/ GzBuffer(len)
      PROVE  Inv'
  BY <1>3, GzWriteKeeps, GzFwriteKeeps, GzPutsKeeps, GzPrintfKeeps, GzBufferKeeps
<1>4. CASE GzPutc \/ GzClearerr \/ GzClose
  BY <1>4, GzPutcKeeps, GzClearerrKeeps, GzCloseKeeps
<1>5. CASE \E f \in Flushes : GzFlush(f)
  BY <1>5, GzFlushKeeps
<1>6. CASE \E par \in Params : GzSetparams(par)
  BY <1>6, GzSetparamsKeeps
<1>7. CASE \E s \in Seeks : GzSeek(s[1], s[2])
  BY <1>7, GzSeekKeeps
<1> QED  BY <1>1, <1>2, <1>3, <1>4, <1>5, <1>6, <1>7 DEF Next

LEMMA StutterKeeps ==
  ASSUME Inv, UNCHANGED vars
  PROVE  Inv'
<1>1. /\ file' = file /\ g' = g /\ nin' = nin /\ out' = out /\ d' = d /\ c' = c /\ ret' = ret
      /\ acc' = acc /\ acked' = acked /\ faults' = faults /\ app' = app
  BY DEF vars
<1>2. Sent' = Sent /\ Data' = Data
  BY <1>1 DEF Sent, Data
<1>3. TypeInv' /\ EmptyInv' /\ HurtInv' /\ InputInv'
  BY <1>1 DEF Inv, TypeInv, MaxCalls, MaxFaults, EmptyInv, HurtInv, Faults, InputInv, Zeroing, At
<1>4. ControlInv'
  BY <1>1 DEF Inv, ControlInv, IdleInv, Unopened, PlaceInv, ArgInv, Zeroing, At, Seeks, Flushes
<1>5. CallInv' /\ FinInv' /\ ShapeInv'
  BY <1>1, <1>2 DEF Inv, CallInv, EndsIn, At, FinInv, Flushes, ShapeInv, Within, WellFormed
<1>6. DataInv' /\ DrainInv'
  BY <1>1, <1>2
     DEF Inv, DataInv, Broken, Closing_, At, DrainInv, Drained, FlushOK, Finished, Flushes, Within
<1> QED  BY <1>3, <1>4, <1>5, <1>6 DEF Inv

\* A file is used in one way from beginning to end.
AppInv == app \in [use : DOMAIN Uses, calls : Nat]

LEMMA StepSameUse ==
  ASSUME Step
  PROVE  app' = app
<1>1. (InitOk \/ InitNoMemory \/ CompInit \/ CompDirect) => app' = app
  BY Zenon DEF InitOk, InitNoMemory, CompInit, CompDirect
<1>2. (CompDirectEnds \/ CompWrite \/ WriteError \/ CompCorrupt) => app' = app
  BY Zenon DEF CompDirectEnds, CompWrite, WriteError, CompCorrupt
<1>3. (CompDeflate \/ Zero \/ ZeroTurn \/ ZeroEnds) => app' = app
  BY Zenon DEF CompDeflate, Zero, ZeroTurn, ZeroEnds
<1>4. (PutSmall \/ PutLarge \/ Wrote) => app' = app
  BY Zenon DEF PutSmall, PutLarge, Wrote
<1>5. (Putc \/ PrintRefused \/ Print_ \/ Moved) => app' = app
  BY Zenon DEF Putc, PrintRefused, Print_, Moved
<1>6. (Flush \/ ParamsFlush \/ ParamsChange \/ CloseFinish \/ Closing) => app' = app
  BY Zenon DEF Flush, ParamsFlush, ParamsChange, CloseFinish, Closing
<1> QED  BY <1>1, <1>2, <1>3, <1>4, <1>5, <1>6, Zenon DEF Step

LEMMA SameUse ==
  ASSUME AppInv, [Next]_vars
  PROVE  AppInv' /\ app'.use = app.use
<1>1. app' = app \/ app' = [app EXCEPT !.calls = @ + 1]
  <2>1. UNCHANGED vars => app' = app
    BY DEF vars
  <2>2. (\E m \in Modes : GzOpen(m)) => app' = app
    BY DEF GzOpen
  <2>3. GzClose => app' = app
    BY DEF GzClose
  <2>4. ASSUME NEW op, Call(op)
        PROVE  app' = [app EXCEPT !.calls = @ + 1]
    BY <2>4 DEF Call
  <2>5. ASSUME NEW len \in Lengths,
               GzWrite(len) \/ GzFwrite(2, len) \/ GzPuts(len) \/ GzPrintf(len) \/ GzBuffer(len)
        PROVE  \E op : Call(op)
    BY <2>5, Zenon DEF GzWrite, GzFwrite, GzPuts, GzPrintf, GzBuffer
  <2>6. GzPutc \/ GzClearerr => \E op : Call(op)
    BY Zenon DEF GzPutc, GzClearerr
  <2>7. (\E f \in Flushes : GzFlush(f)) => \E op : Call(op)
    BY Zenon DEF GzFlush
  <2>8. (\E par \in Params : GzSetparams(par)) => \E op : Call(op)
    BY Zenon DEF GzSetparams
  <2>9. (\E s \in Seeks : GzSeek(s[1], s[2])) => \E op : Call(op)
    BY Zenon DEF GzSeek
  <2> QED  BY <2>1, <2>2, <2>3, <2>4, <2>5, <2>6, <2>7, <2>8, <2>9, StepSameUse, Zenon DEF Next
<1> QED  BY <1>1 DEF AppInv

-----------------------------------------------------------------------------
(* The theorems.                                                           *)

\* gzwrite.c: the invariant holds in every state of a file that is used with
\* care, whatever is written, flushed and sought, and whatever write() and
\* malloc() do.
THEOREM GzWriteInvariance == Spec => [](Careful => Inv)
<1>1. Init => AppInv /\ Inv
  <2>1. Init => AppInv
    BY DEF Init, AppInv
  <2> QED  BY <2>1, InitInv
<1>2. AppInv /\ (Careful => Inv) /\ [Next]_vars => AppInv' /\ (Careful => Inv)'
  <2> SUFFICES ASSUME AppInv, Careful => Inv, [Next]_vars
               PROVE  AppInv' /\ (Careful' => Inv')
    OBVIOUS
  <2>1. AppInv' /\ app'.use = app.use
    BY SameUse
  <2>2. Careful' => Careful
    BY <2>1 DEF Careful, Calls, Faults
  <2>3. Careful /\ Inv => Inv'
    BY NextKeeps, StutterKeeps
  <2> QED  BY <2>1, <2>2, <2>3
<1> QED  BY <1>1, <1>2, PTL DEF Spec

\* gzwrite.c:208, 335, 410: the buffers are never overrun, what waits in them is
\* counted, and between two calls it lies in the first half of the input buffer.
THEOREM WriterBuffers == Spec => [](Careful => BufferSound)
<1>1. Inv => BufferSound
  <2> SUFFICES ASSUME Inv PROVE BufferSound
    OBVIOUS
  <2>1. TypeOK
    BY DEF Inv, TypeInv, TypeOK
  <2>2. InputInBuffer
    <3> SUFFICES ASSUME Idle, g.err = "OK", g.in # <<>>
                 PROVE  ~nin.user /\ nin.off + Len(g.in) <= g.size
      BY DEF InputInBuffer
    <3>1. faults = 0
      BY DEF Idle, Inv, TypeInv, HurtInv, Fatal
    <3>2. nin = Own /\ Len(g.in) <= g.size
      BY <3>1 DEF Idle, Inv, InputInv
    <3>3. Len(g.in) \in Nat
      BY EmptyInt DEF Inv, TypeInv, States
    <3> QED  BY <3>2, <3>3 DEF Own
  <2> QED  BY <2>1, <2>2 DEF BufferSound
<1> QED  BY <1>1, GzWriteInvariance, PTL

\* When gzclose succeeds, what it was given lies in the file.
LEMMA ClosedFile ==
  ASSUME Inv, Closed, out.cells = <<>>
  PROVE  /\ Data = Decoded(file) /\ Sent = file /\ file \in Seq(Cells)
         /\ (~g.direct => WellFormed(file) /\ file # <<>> /\ ~Within(file))
<1>1. Finished /\ TypeInv /\ ShapeInv
  BY DEF Inv, DrainInv, Closed
<1>2. Drained
  BY <1>1 DEF Finished, Drained
<1>3. Data = Decoded(file)
  BY <1>1, <1>2, DataDrained
<1>4. file \in Seq(Cells) /\ Sent = file
  BY <1>1, <1>2, EmptyCells DEF TypeInv, Drained, Sent
<1> QED  BY <1>1, <1>3, <1>4 DEF Finished, ShapeInv

\* gzwrite.c:105, 580, 627: after a gzflush that succeeds the file decodes to
\* the data; after a gzclose that succeeds, when nothing has failed, so does
\* what is in the file, and it consists of complete members.
LEMMA FlushAndClose ==
  ASSUME Inv
  PROVE  FlushReaches /\ ClosedIsExact
<1>1. FlushReaches
  BY DEF Inv, DrainInv, FlushReaches, FlushOK, Idle
<1>2. ClosedIsExact
  <2> SUFFICES ASSUME Closed, faults = 0
               PROVE  /\ Decoded(file) = acc
                      /\ Compressing => WellFormed(file) /\ file # <<>> /\ Last(file).k = "T"
    BY DEF ClosedIsExact
  <2>1. out.cells = <<>>
    BY DEF Inv, DrainInv, Closed, Finished
  <2>2. c.rest = <<>>
    BY NoCallFacts DEF Inv, ControlInv, ArgInv, Closed, At
  <2>3. Data = acc
    BY <2>2, DataWhole DEF Inv
  <2>4. Data = Decoded(file) /\ (~g.direct => WellFormed(file) /\ file # <<>> /\ ~Within(file))
    BY <2>1, ClosedFile
  <2> QED  BY <2>3, <2>4 DEF Compressing, Within, Last
<1> QED  BY <1>1, <1>2

\* What gzclose frees with the output buffer is the end of a member.
LEMMA LeftIsEnd ==
  ASSUME Inv, Closed
  PROVE  /\ Handed = Data
         /\ (out.cells = <<>> /\ g.in = <<>>) \/ LeftBehind
<1>1. Finished /\ TypeInv
  BY DEF Inv, DrainInv, Closed
<1>2. file \in Seq(Cells) /\ out.cells \in Seq(Cells) /\ d.pend = <<>> /\ d.held = <<>> /\ g.in = <<>>
  BY <1>1 DEF TypeInv, Finished
<1> DEFINE f == file \o out.cells
<1>3. f \in Seq(Cells)
  BY <1>2, CatCellsType
<1>4. Sent = f
  <2>1. Sent = f \o <<>>
    BY <1>2 DEF Sent
  <2> HIDE DEF f
  <2> QED  BY <1>3, <2>1, EmptyCells
<1>5. Decoded(f) \in Seq(Int)
  BY <1>3, DecodedType
<1>6. Handed = Data
  <2>1. Handed = Decoded(f) \o <<>>
    BY <1>2 DEF Handed
  <2>2. Data = (Decoded(f) \o <<>>) \o <<>>
    BY <1>2, <1>4 DEF Data
  <2> HIDE DEF f
  <2> QED  BY <1>5, <2>1, <2>2, EmptyInt
<1>7. CASE out.cells = <<>>
  BY <1>2, <1>6, <1>7
<1>8. CASE out.cells # <<>>
  <2>1. faults > 0 /\ "FINISH" \in Flushes
    BY <1>1, <1>8 DEF Finished
  <2>2. ~g.direct
    BY <1>8 DEF Inv, EmptyInv
  <2>3. f # <<>> /\ f[Len(f)].k = "T"
    <3>1. Sent # <<>> /\ ~Within(Sent)
      BY <1>1, <2>2 DEF Finished
    <3> HIDE DEF f
    <3> QED  BY <1>4, <3>1 DEF Within
  <2>4. out.cells[Len(out.cells)].k = "T"
    <3> DEFINE n == Len(file)
               m == Len(out.cells)
    <3>1. n \in Nat /\ m \in Nat /\ m # 0
      BY <1>2, <1>8, LenProperties, EmptySeq
    <3>2. Len(f) = n + m /\ \A i \in 1 .. n + m : f[i] = IF i <= n THEN file[i] ELSE out.cells[i - n]
      BY <1>2, ConcatProperties
    <3> HIDE DEF n, m, f
    <3>3. n + m \in 1 .. n + m /\ ~(n + m <= n) /\ (n + m) - n = m
      BY <3>1
    <3>4. f[n + m] = out.cells[m]
      BY <3>2, <3>3
    <3> QED  BY <2>3, <3>2, <3>4 DEF m
  <2> QED  BY <1>2, <1>6, <2>1, <2>2, <2>4 DEF LeftBehind, Compressing, Last
<1> QED  BY <1>7, <1>8

\* gzwrite.c:650: and where writes fail, nothing is lost of the calls that
\* succeeded but the end of a member that gzflush was told of, and nothing is
\* out of order.
LEMMA CloseComplete ==
  ASSUME Inv
  PROVE  ClosedIsComplete
<1> DEFINE x == Handed
           n == Len(x)
<1> SUFFICES ASSUME Closed
             PROVE  /\ (out.cells = <<>> /\ g.in = <<>>) \/ LeftBehind
                    /\ acked \subseteq ToSet(x)
                    /\ \A i, j \in DOMAIN x : i < j /\ x[j] > 0 => x[i] < x[j]
  BY DEF ClosedIsComplete
<1>1. (out.cells = <<>> /\ g.in = <<>>) \/ LeftBehind
  BY LeftIsEnd
<1>2. x = Data /\ x \in Seq(Int) /\ n \in Nat /\ DOMAIN x = 1 .. n
  <2>1. x = Data /\ Data \in Seq(Int)
    BY LeftIsEnd, DataType DEF Inv
  <2> HIDE DEF x
  <2> QED  BY <2>1, LenProperties
<1>3. PICK s \in Seq(Int) : x \o s = acc
  BY <1>2 DEF Inv, DataInv
<1>4. acked \subseteq 1 .. n /\ (\A j \in acked : acc[j] = j)
      /\ \A i \in 1 .. Len(acc) : (acc[i] <= 0 \/ acc[i] = i)
  BY <1>2 DEF Inv, DataInv
<1> HIDE DEF x
<1>5. \A i \in 1 .. n : x[i] = acc[i] /\ i \in 1 .. Len(acc)
  <2>1. /\ Len(x \o s) = n + Len(s) /\ Len(s) \in Nat
        /\ \A i \in 1 .. n + Len(s) : (x \o s)[i] = IF i <= n THEN x[i] ELSE s[i - n]
    BY <1>2, ConcatProperties, LenProperties
  <2> TAKE i \in 1 .. n
  <2>2. i \in 1 .. n + Len(s) /\ i <= n
    BY <1>2, <2>1
  <2>3. (x \o s)[i] = x[i]
    BY <2>1, <2>2
  <2> QED  BY <1>3, <2>1, <2>2, <2>3
<1> HIDE DEF n
<1>6. acked \subseteq ToSet(x)
  <2> SUFFICES ASSUME NEW j \in acked PROVE j \in ToSet(x)
    OBVIOUS
  <2>1. j \in DOMAIN x /\ x[j] = j
    BY <1>2, <1>4, <1>5
  <2> QED  BY <2>1 DEF ToSet
<1>7. \A i, j \in DOMAIN x : i < j /\ x[j] > 0 => x[i] < x[j]
  <2> SUFFICES ASSUME NEW i \in 1 .. n, NEW j \in 1 .. n, i < j, x[j] > 0 PROVE x[i] < x[j]
    BY <1>2
  <2>1. (x[i] <= 0 \/ x[i] = i) /\ (x[j] <= 0 \/ x[j] = j)
    BY <1>4, <1>5
  <2>2. x[i] \in Int /\ x[j] \in Int
    BY <1>2, ElementOfSeq DEF n
  <2> QED  BY <1>2, <2>1, <2>2
<1> QED  BY <1>1, <1>6, <1>7

-----------------------------------------------------------------------------
(* What the gaps of seeks hold.                                            *)

\* Before there are buffers nothing is counted, so that a gap that gz_zero
\* entered without them lies in front of all data; and no buffer of a gap is
\* longer than the first one.
Seeking == c.pc = "zero" \/ (c.pc = "init" /\ c.back = "zero")
Filling == c.pc = "zeros" \/ At("zeros")
GapInv ==
  /\ g.size = 0 => acc = <<>>
  /\ Seeking => c.zeroed = -1
  /\ Filling => \/ c.zeroed = -1
                \/ c.zeroed = 0 /\ \A i \in 1 .. Len(acc) : acc[i] <= 0
                \/ c.zeroed > 0 /\ g.size # 0 /\ Least(g.size, g.skip) <= c.zeroed
  /\ \A i \in 1 .. Len(acc) : acc[i] < 0 => \A j \in 1 .. i : acc[j] <= 0

\* A step that counts no byte and begins no gap.
Calm ==
  /\ acc' = acc
  /\ g'.size = 0 => g.size = 0 \/ acc = <<>>
  /\ Seeking' => c'.zeroed = -1 \/ (Seeking /\ c'.zeroed = c.zeroed)
  /\ Filling' => \/ c'.zeroed = -1
                 \/ /\ Seeking \/ Filling
                    /\ c'.zeroed = c.zeroed /\ g'.skip = g.skip
                    /\ g'.size = g.size \/ g.size = 0

LEMMA CalmKeeps ==
  ASSUME GapInv, Calm
  PROVE  GapInv'
<1>1. g'.size = 0 => acc' = <<>>
  BY DEF GapInv, Calm
<1>2. Seeking' => c'.zeroed = -1
  BY DEF GapInv, Calm
<1>3. ASSUME Filling', c'.zeroed # -1
      PROVE  \/ c'.zeroed = 0 /\ \A i \in 1 .. Len(acc') : acc'[i] <= 0
             \/ c'.zeroed > 0 /\ g'.size # 0 /\ Least(g'.size, g'.skip) <= c'.zeroed
  <2>1. c'.zeroed = c.zeroed /\ g'.skip = g.skip /\ (g'.size = g.size \/ g.size = 0) /\ acc' = acc
        /\ Filling
    BY <1>3 DEF GapInv, Calm
  <2> QED  BY <1>3, <2>1 DEF GapInv
<1>4. \A i \in 1 .. Len(acc') : acc'[i] < 0 => \A j \in 1 .. i : acc'[j] <= 0
  BY DEF GapInv, Calm
<1> QED  BY <1>1, <1>2, <1>3, <1>4 DEF GapInv

\* Data that is counted fills no gap.
LEMMA GrownKeeps ==
  ASSUME TypeInv, GapInv, NEW n \in Nat, Longer(n), g'.size = g.size, g.size # 0, ~Seeking', ~Filling'
  PROVE  GapInv'
<1> DEFINE l == Len(acc)
           m == Len(acc')
           a == acc
           b == acc'
<1>1. l \in Nat /\ m = l + n /\ (\A i \in 1 .. l : b[i] = a[i]) /\ \A i \in l + 1 .. l + n : b[i] = i
  BY DEF Longer
<1>2. \A i \in 1 .. l : a[i] < 0 => \A j \in 1 .. i : a[j] <= 0
  BY DEF GapInv
<1> HIDE DEF l, m, a, b
<1>3. ASSUME NEW i \in 1 .. m, b[i] < 0
      PROVE  \A j \in 1 .. i : b[j] <= 0
  <2>1. i \in 1 .. l
    <3> SUFFICES ASSUME ~(i \in 1 .. l) PROVE FALSE
      OBVIOUS
    <3>1. i \in l + 1 .. l + n
      BY <1>1
    <3>2. b[i] = i
      BY <1>1, <3>1
    <3> QED  BY <1>1, <1>3, <3>1, <3>2
  <2>2. \A j \in 1 .. i : j \in 1 .. l
    BY <1>1, <2>1
  <2>3. a[i] < 0
    BY <1>1, <1>3, <2>1
  <2> QED  BY <1>1, <1>2, <2>1, <2>2, <2>3
<1> QED  BY <1>3 DEF GapInv, m, b

LEMMA GapTurnKeeps ==
  ASSUME Inv, GapInv, ZeroTurn
  PROVE  GapInv'
<1>1. PICK n \in {Least(g.size, g.skip)} : \E junk \in Malloc :
         /\ g' = [g EXCEPT !.in = [i \in 1 .. n |-> IF i <= ZeroRun(n) THEN 0 ELSE junk],
                           !.pos = @ + n, !.skip = @ - n]
         /\ acc' = acc \o g'.in
         /\ c' = Comp([c EXCEPT !.zeroed = ZeroRun(n)], "NO", "zeros")
  BY DEF ZeroTurn
<1>2. PICK junk \in Malloc :
         g' = [g EXCEPT !.in = [i \in 1 .. n |-> IF i <= ZeroRun(n) THEN 0 ELSE junk],
                        !.pos = @ + n, !.skip = @ - n]
  BY <1>1
<1>3. c.pc = "zeros" /\ g.skip # 0 /\ n = Least(g.size, g.skip)
  BY <1>1 DEF ZeroTurn
<1>4. junk \in Int /\ junk <= 0
  BY <1>2, UsesAssumption DEF Malloc, Inv, TypeInv
<1>5. acc \in Seq(Int) /\ Len(acc) \in Nat /\ g \in States /\ g.size \in Nat /\ g.skip \in Nat
      /\ c \in CallStates /\ c.zeroed \in Int
  BY EmptyInt, GzSizes DEF Inv, TypeInv, States, CallStates
<1>6. n \in Nat /\ n <= g.size /\ n <= g.skip /\ (n = g.size \/ n = g.skip)
  BY <1>3, <1>5 DEF Least
<1> DEFINE r == ZeroRun(n)
           z == [i \in 1 .. n |-> IF i <= r THEN 0 ELSE junk]
<1>7. r \in Int /\ r = (IF c.zeroed = -1 THEN n ELSE c.zeroed)
  BY <1>5, <1>6 DEF ZeroRun
<1>8. g' = [g EXCEPT !.in = z, !.pos = g.pos + n, !.skip = g.skip - n]
  BY <1>2
<1>9. z \in [1 .. n -> Int] /\ (\A i \in 1 .. n : z[i] <= 0) /\ \A i \in 1 .. n : i <= r => z[i] = 0
  BY <1>4, <1>7
<1> HIDE DEF z
<1>10. g'.in = z /\ g'.skip = g.skip - n /\ g'.size = g.size
  BY <1>5, <1>8 DEF States
<1>11. acc' = acc \o z
  BY <1>1, <1>10
<1> HIDE DEF r
<1>12. c'.pc = "comp" /\ c'.back = "zeros" /\ c'.zeroed = r
  BY <1>1, <1>5, <1>7 DEF Comp, CallStates, r
<1>13. Filling /\ Filling' /\ ~Seeking'
  BY <1>3, <1>12 DEF Filling, Seeking, At
<1> DEFINE l == Len(acc)
           a == acc
           b == acc'
           m == Len(acc')
<1>14. m = l + n /\ (\A i \in 1 .. l : b[i] = a[i])
       /\ \A i \in l + 1 .. l + n : b[i] = z[i - l]
  <2>1. z \in Seq(Int) /\ Len(z) = n
    BY <1>6, <1>9
  <2>2. /\ Len(acc \o z) = Len(acc) + Len(z)
        /\ \A i \in 1 .. Len(acc) + Len(z) : (acc \o z)[i] = IF i <= Len(acc) THEN acc[i] ELSE z[i - Len(acc)]
    BY <1>5, <2>1, ConcatProperties
  <2> QED  BY <1>5, <1>6, <1>11, <2>1, <2>2
<1>15. l \in Nat
  BY <1>5
<1> HIDE DEF l, a, b, m
<1>16. \A i \in l + 1 .. l + n : i - l \in 1 .. n
  BY <1>6, <1>15
<1>17. \A i \in 1 .. m : i \in 1 .. l \/ i \in l + 1 .. l + n
  BY <1>6, <1>14, <1>15
<1>18. g'.size = 0 => acc' = <<>>
  <2> SUFFICES ASSUME g.size = 0 PROVE acc' = <<>>
    BY <1>10
  <2>1. n = 0 /\ acc = <<>>
    BY <1>5, <1>6 DEF GapInv
  <2>2. z = <<>>
    BY <1>9, <2>1
  <2> QED  BY <1>11, <2>1, <2>2
<1>19. Filling => \/ c.zeroed = -1
                  \/ c.zeroed = 0 /\ \A i \in 1 .. l : a[i] <= 0
                  \/ c.zeroed > 0 /\ g.size # 0 /\ Least(g.size, g.skip) <= c.zeroed
  BY DEF GapInv, l, a
<1>20. CASE r = 0
  <2>1. \A i \in 1 .. l : a[i] <= 0
    <3>1. CASE c.zeroed = -1
      <4>1. n = 0
        BY <1>7, <1>20, <3>1
      <4>2. g.size = 0
        BY <1>3, <1>6, <4>1
      <4>3. acc = <<>>
        BY <4>2 DEF GapInv
      <4>4. l = 0
        BY <4>3 DEF l
      <4> QED  BY <4>4
    <3>2. CASE c.zeroed # -1
      <4>1. c.zeroed = 0
        BY <1>7, <1>20, <3>2
      <4> QED  BY <1>13, <1>19, <4>1
    <3> QED  BY <3>1, <3>2
  <2>2. \A i \in 1 .. m : b[i] <= 0
    BY <1>9, <1>14, <1>16, <1>17, <2>1
  <2>3. \A i \in 1 .. m : \A j \in 1 .. i : j \in 1 .. m
    BY <1>6, <1>14, <1>15
  <2>4. \A i \in 1 .. m : b[i] < 0 => \A j \in 1 .. i : b[j] <= 0
    BY <2>2, <2>3
  <2> QED  BY <1>12, <1>13, <1>18, <1>20, <2>2, <2>4 DEF GapInv, m, b
<1>21. CASE r # 0
  <2>1. n <= r /\ r > 0 /\ g.size # 0
    <3>1. CASE c.zeroed = -1
      BY <1>6, <1>7, <1>21, <3>1
    <3>2. CASE c.zeroed # -1
      BY <1>3, <1>7, <1>13, <1>19, <1>21, <3>2
    <3> QED  BY <3>1, <3>2
  <2>2. \A i \in l + 1 .. l + n : b[i] = 0
    <3>1. \A i \in 1 .. n : i <= r
      BY <1>6, <1>7, <2>1
    <3> QED  BY <1>9, <1>14, <1>16, <3>1
  <2>3. ASSUME NEW i \in 1 .. m, b[i] < 0
        PROVE  \A j \in 1 .. i : b[j] <= 0
    <3>1. i \in 1 .. l
      BY <1>17, <2>2, <2>3
    <3>2. \A j \in 1 .. i : j \in 1 .. l
      BY <1>15, <3>1
    <3>3. \A j \in 1 .. i : a[j] <= 0
      BY <1>14, <2>3, <3>1 DEF GapInv, l, a
    <3> QED  BY <1>14, <3>2, <3>3
  <2>4. Least(g'.size, g'.skip) <= r
    <3>1. g.skip - n \in Nat /\ g.skip - n <= g.skip
      BY <1>5, <1>6
    <3>2. Least(g.size, g.skip - n) <= n
      <4>1. CASE n = g.size
        BY <1>5, <3>1, <4>1 DEF Least
      <4>2. CASE n = g.skip
        BY <1>5, <3>1, <4>2 DEF Least
      <4> QED  BY <1>6, <4>1, <4>2
    <3>3. Least(g.size, g.skip - n) \in Int
      BY <1>5, <3>1 DEF Least
    <3> QED  BY <1>6, <1>7, <1>10, <2>1, <3>2, <3>3
  <2> QED  BY <1>10, <1>12, <1>13, <1>18, <2>1, <2>3, <2>4 DEF GapInv, m, b
<1> QED  BY <1>20, <1>21

\* The functions the application calls.
LEMMA BeginsNew ==
  ASSUME NEW op, NEW len, NEW flush, NEW main, Begin(op, len, flush, main) \/ BeginInit(op, len, main),
         g \in States
  PROVE  c'.zeroed = -1 /\ g'.size = g.size
<1>1. CASE Begin(op, len, flush, main)
  BY <1>1 DEF Begin, NoCall, States
<1>2. CASE BeginInit(op, len, main)
  <2>1. CASE g.size # 0
    BY <1>2, <2>1 DEF BeginInit, Begin, NoCall, States
  <2>2. CASE g.size = 0
    BY <1>2, <2>2 DEF BeginInit, NoCall, States
  <2> QED  BY <2>1, <2>2
<1> QED  BY <1>1, <1>2

\* A call that begins or is answered at once is calm.
LEMMA NewCalm ==
  ASSUME Inv, acc' = acc, c.pc \in {"new", "idle"}, c' = c \/ c'.zeroed = -1,
         g'.size = 0 => g.size = 0 \/ acc = <<>>
  PROVE  Calm
<1>1. c.zeroed = -1
  BY NoCallFacts DEF Inv, ControlInv, IdleInv, NoCall
<1>2. c'.zeroed = -1
  BY <1>1
<1> QED  BY <1>2 DEF Calm

LEMMA ErrorSize ==
  ASSUME NEW e, g \in States
  PROVE  gz_error(g, e).size = g.size /\ gzclearerr(g).size = g.size
<1>1. \A h \in States : \A x : [h EXCEPT !.err = x, !.data = <<>>].size = h.size
                               /\ [h EXCEPT !.err = x, !.data = h.data].size = h.size
  BY DEF States
<1> QED
  BY DEF gz_error, gzclearerr, States

LEMMA WriteCallsCalm ==
  ASSUME Inv, NEW len,
         GzWrite(len) \/ GzFwrite(2, len) \/ GzPuts(len) \/ GzPrintf(len) \/ GzBuffer(len)
  PROVE  Calm
<1>1. c.pc = "idle" /\ acc' = acc
  BY Zenon DEF GzWrite, GzFwrite, GzPuts, GzPrintf, GzBuffer, Call, Idle, Same
<1>2. g \in States
  BY DEF Inv, TypeInv
<1>3. \A op, main, n : BeginInit(op, n, main) => c'.zeroed = -1 /\ g'.size = g.size
  BY <1>2, BeginsNew
<1>4. \A op : Refuse(op) => c' = c /\ g' = g
  BY DEF Refuse
<1>5. \A e : gz_error(g, e).size = g.size
  BY <1>2, ErrorSize
<1>6. GzWrite(len) => (c' = c \/ c'.zeroed = -1) /\ g'.size = g.size
  BY <1>3, <1>4, <1>5, Zenon DEF GzWrite
<1>7. GzFwrite(2, len) => (c' = c \/ c'.zeroed = -1) /\ g'.size = g.size
  BY <1>3, <1>4, <1>5, Zenon DEF GzFwrite
<1>8. GzPuts(len) => (c' = c \/ c'.zeroed = -1) /\ g'.size = g.size
  BY <1>3, <1>4, <1>5, Zenon DEF GzPuts
<1>9. GzPrintf(len) => (c' = c \/ c'.zeroed = -1) /\ g'.size = g.size
  BY <1>3, <1>4, <1>5, Zenon DEF GzPrintf
<1>10. GzBuffer(len) => c' = c /\ g'.size = g.size
  BY <1>2 DEF GzBuffer, gzbuffer, States
<1> QED  BY <1>1, <1>6, <1>7, <1>8, <1>9, <1>10, NewCalm

LEMMA SeekSize ==
  ASSUME g \in States, g.mode = "WRITE", NEW offset, NEW whence
  PROVE  gzseek64(g, 0, 0, offset, whence, TRUE).g.size = g.size
<1> DEFINE off == Relative(g, offset, whence)
           h == [g EXCEPT !.seek = FALSE]
<1>1. h \in States /\ h.size = g.size /\ h.mode = "WRITE"
  BY DEF States
<1> HIDE DEF off, h
<1>2. RawSeek(h, 0, off, TRUE).g.size = g.size
  BY <1>1 DEF RawSeek, gz_error, States
<1>3. \A k \in States : \A x : SkipRequest(k, x).size = k.size
  BY DEF SkipRequest, States
<1>4. gzrewind(h, 0, 0, TRUE).g \in States /\ gzrewind(h, 0, 0, TRUE).g.size = g.size
  BY <1>1 DEF gzrewind
<1>5. SkipSeek(h, 0, 0, off, TRUE).g.size = g.size
  BY <1>1, <1>3, <1>4 DEF SkipSeek
<1> QED  BY <1>2, <1>5 DEF gzseek64, off, h

LEMMA OtherCallsCalm ==
  ASSUME Inv, \/ GzPutc \/ GzClearerr \/ GzClose
              \/ \E f \in Flushes : GzFlush(f)
              \/ \E par \in Params : GzSetparams(par)
              \/ \E s \in Seeks : GzSeek(s[1], s[2])
  PROVE  Calm
<1>1. c.pc = "idle" /\ acc' = acc
  BY Zenon DEF GzPutc, GzClearerr, GzClose, GzFlush, GzSetparams, GzSeek, Call, Idle, Same
<1>2. g \in States /\ g.mode = "WRITE"
  BY DEF Inv, TypeInv
<1>3. \A op, main, n, f : Begin(op, n, f, main) => c'.zeroed = -1 /\ g'.size = g.size
  BY <1>2, BeginsNew
<1>4. \A op : Refuse(op) => c' = c /\ g' = g
  BY DEF Refuse
<1>5. GzPutc => (c' = c \/ c'.zeroed = -1) /\ g'.size = g.size
  BY <1>3, <1>4, Zenon DEF GzPutc
<1>6. GzClearerr => c' = c /\ g'.size = g.size
  BY <1>2, ErrorSize DEF GzClearerr
<1>7. GzClose => c'.zeroed = -1 /\ g'.size = g.size
  BY <1>3, Zenon DEF GzClose
<1>8. \A f : GzFlush(f) => (c' = c \/ c'.zeroed = -1) /\ g'.size = g.size
  BY <1>3, <1>4, Zenon DEF GzFlush
<1>9. ASSUME NEW par, GzSetparams(par)
      PROVE  (c' = c \/ c'.zeroed = -1) /\ g'.size = g.size
  <2>1. \/ Refuse("gzsetparams") \/ UNCHANGED <<g, c>>
        \/ /\ c' = [NoCall EXCEPT !.pc = IF g.seek THEN "zero" ELSE "params",
                                   !.op = "gzsetparams", !.main = "params", !.par = par]
           /\ g' = [g EXCEPT !.seek = FALSE]
    BY <1>9, Zenon DEF GzSetparams
  <2>2. [g EXCEPT !.seek = FALSE].size = g.size
    BY <1>2 DEF States
  <2>3. \A x : [NoCall EXCEPT !.pc = x, !.op = "gzsetparams", !.main = "params", !.par = par].zeroed = -1
    BY DEF NoCall
  <2> QED  BY <1>4, <2>1, <2>2, <2>3, Zenon
<1>10. ASSUME NEW offset, NEW whence, GzSeek(offset, whence)
       PROVE  c' = c /\ g'.size = g.size
  <2>1. g' = gzseek64(g, 0, 0, offset, whence, TRUE).g /\ c' = c
    BY <1>10, Zenon DEF GzSeek
  <2> QED  BY <1>2, <2>1, SeekSize
<1> QED  BY <1>1, <1>5, <1>6, <1>7, <1>8, <1>9, <1>10, NewCalm

LEMMA OpenCalm ==
  ASSUME Inv, NEW m \in Modes, GzOpen(m)
  PROVE  Calm
<1>1. c.pc = "new" /\ acc' = acc /\ c' = NoCall
  BY DEF GzOpen
<1>2. acc = <<>>
  BY <1>1 DEF Inv, ControlInv, IdleInv, Unopened
<1> QED  BY <1>1, <1>2, NoCallFacts, NewCalm

\* gz_init, gz_comp and the errors.
LEMMA FailCalm ==
  ASSUME c \in CallStates, Fail
  PROVE  ~Seeking' /\ ~Filling'
<1>1. c'.pc \in {"closing", "close", "idle"}
  BY NoCallFacts DEF Fail, CallStates
<1> QED  BY <1>1 DEF Seeking, Filling, At

LEMMA CompCalm ==
  ASSUME Inv, \/ CompInit \/ CompDirect \/ CompDirectEnds \/ CompWrite
              \/ WriteError \/ CompCorrupt \/ CompDeflate
  PROVE  Calm
<1>1. c \in CallStates /\ g \in States /\ g.want # 0
  BY GzSizes DEF Inv, TypeInv, States
<1>2. c.pc = "comp" /\ ~Seeking
  BY DEF CompInit, CompDirect, CompDirectEnds, CompWrite, WriteError, CompCorrupt, CompDeflate,
         Compress, Seeking
<1>3. c.back \in {"zeros", "put", "wrote", "moved", "params", "closing"}
  BY <1>2 DEF Inv, ControlInv, PlaceInv
<1>4. ASSUME acc' = acc, g'.size = g.size, g'.skip = g.skip, c' = c
      PROVE  Calm
  BY <1>4 DEF Calm, Seeking, Filling, At
<1>5. ASSUME acc' = acc, g'.size = g.size, g'.skip = g.skip, c' = [c EXCEPT !.pc = c.back]
      PROVE  Calm
  <2>1. c'.pc = c.back /\ c'.zeroed = c.zeroed
    BY <1>1, <1>5 DEF CallStates
  <2>2. ~Seeking' /\ (Filling' => Filling)
    BY <1>2, <1>3, <2>1 DEF Seeking, Filling, At
  <2> QED  BY <1>5, <2>1, <2>2 DEF Calm
<1>6. ASSUME acc' = acc, g'.size = g.size, NEW x, c' = [c EXCEPT !.dret = x], g'.skip = g.skip
      PROVE  Calm
  <2>1. c'.pc = c.pc /\ c'.back = c.back /\ c'.zeroed = c.zeroed
    BY <1>1, <1>6 DEF CallStates
  <2> QED  BY <1>2, <1>6, <2>1 DEF Calm, Seeking, Filling, At
<1>7. ASSUME acc' = acc, NEW e, g' = gz_error(g, e), Fail
      PROVE  Calm
  BY <1>1, <1>7, ErrorSize, FailCalm DEF Calm
<1>8. CASE CompInit
  <2>1. CASE gz_init(g) /\ c' = c
    <3>1. g'.size = g.want /\ g'.skip = g.skip /\ g.size = 0 /\ acc' = acc
      BY <1>1, <1>8, <2>1 DEF gz_init, CompInit, States
    <3> QED  BY <1>1, <2>1, <3>1 DEF Calm, Seeking, Filling, At
  <2>2. CASE g' = gz_error(g, "MEM_ERROR") /\ Fail
    BY <1>7, <1>8, <2>2 DEF CompInit
  <2> QED  BY <1>8, <2>1, <2>2, Zenon DEF CompInit
<1>9. CASE CompDirect
  BY <1>1, <1>4, <1>9 DEF CompDirect, States
<1>10. CASE CompDirectEnds
  BY <1>5, <1>10 DEF CompDirectEnds
<1>11. CASE CompWrite
  BY <1>4, <1>11 DEF CompWrite
<1>12. CASE WriteError
  BY <1>7, <1>12, Zenon DEF WriteError
<1>13. CASE CompCorrupt
  BY <1>7, <1>13, Zenon DEF CompCorrupt
<1>14. CASE CompDeflate
  <2>1. PICK room, r : /\ g' = [g EXCEPT !.in = SubSeq(@, r.m + 1, Len(@))]
                       /\ \/ c' = [c EXCEPT !.pc = c.back]
                          \/ c' = [c EXCEPT !.dret = r.ret]
    BY <1>14 DEF CompDeflate
  <2>2. g'.size = g.size /\ g'.skip = g.skip
    BY <1>1, <2>1 DEF States
  <2>3. acc' = acc
    BY <1>14 DEF CompDeflate
  <2> QED  BY <1>5, <1>6, <2>1, <2>2, <2>3
<1> QED  BY <1>8, <1>9, <1>10, <1>11, <1>12, <1>13, <1>14

\* The rest of the steps that count no byte.
LEMMA InitCalm ==
  ASSUME Inv, InitOk \/ InitNoMemory
  PROVE  Calm
<1>1. c \in CallStates /\ g \in States /\ g.want # 0
  BY GzSizes DEF Inv, TypeInv, States
<1>2. c.pc = "init" /\ c.back \in {"zero", "put", "printf"} /\ g.size = 0
  BY DEF Inv, ControlInv, PlaceInv, InitOk, InitNoMemory
<1>3. CASE InitOk
  <2>1. acc' = acc /\ g'.size # 0
    BY <1>1, <1>3 DEF InitOk, gz_init, States
  <2>2. c'.pc = c.back /\ c'.zeroed = c.zeroed
    BY <1>1, <1>3 DEF InitOk, CallStates
  <2>3. ~Filling' /\ (Seeking' => Seeking)
    BY <1>2, <2>2 DEF Filling, Seeking, At
  <2> QED  BY <2>1, <2>2, <2>3 DEF Calm
<1>4. CASE InitNoMemory
  <2>1. acc' = acc /\ g' = gz_error(g, "MEM_ERROR") /\ Fail
    BY <1>4 DEF InitNoMemory
  <2> QED  BY <1>1, <2>1, ErrorSize, FailCalm DEF Calm
<1> QED  BY <1>3, <1>4

LEMMA QuietCalm ==
  ASSUME Inv, \/ Zero \/ ZeroEnds \/ Wrote \/ PrintRefused \/ Moved \/ Flush \/ ParamsFlush
              \/ ParamsChange \/ CloseFinish \/ Closing
  PROVE  Calm
<1>1. c \in CallStates /\ g \in States
  BY DEF Inv, TypeInv
<1>2. \A back, fl : fl \in FlushValues /\ back \in Backs \ {"zeros"} /\ c' = Comp(c, fl, back) =>
        ~Seeking' /\ ~Filling'
  <2> SUFFICES ASSUME NEW back \in Backs \ {"zeros"}, NEW fl \in FlushValues, c' = Comp(c, fl, back)
               PROVE  ~Seeking' /\ ~Filling'
    OBVIOUS
  <2>1. CompFacts(Comp(c, fl, back), c, fl, back)
    BY <1>1, CompOK, Zenon
  <2>2. c'.pc = "comp" /\ c'.back = back
    BY <2>1, Zenon DEF CompFacts
  <2> QED  BY <2>2 DEF Seeking, Filling, At
<1>3. ASSUME acc' = acc, g'.size = g.size, ~Seeking', ~Filling'
      PROVE  Calm
  BY <1>3 DEF Calm
<1>4. c' = NoCall => ~Seeking' /\ ~Filling'
  BY NoCallFacts DEF Seeking, Filling, At
<1>5. CASE Zero
  <2>1. acc' = acc /\ g' = g /\ c.pc = "zero"
    BY <1>5 DEF Zero
  <2>2. c'.pc \in {"comp", "zeros"} /\ c'.zeroed = c.zeroed
    BY <1>1, <1>5 DEF Zero, Comp, CallStates
  <2> QED  BY <2>1, <2>2 DEF Calm, Seeking, Filling, At
<1>6. CASE ZeroEnds
  <2>1. c.main \in Mains
    BY <1>1, <1>6 DEF ZeroEnds, Inv, ControlInv, PlaceInv, Zeroing, CallStates
  <2>2. acc' = acc /\ g' = g /\ c'.pc = c.main
    BY <1>1, <1>6 DEF ZeroEnds, CallStates
  <2> QED  BY <1>3, <2>1, <2>2 DEF Seeking, Filling, At, Mains
<1>7. CASE Wrote
  BY <1>3, <1>4, <1>7 DEF Wrote, Done
<1>8. CASE PrintRefused
  BY <1>3, <1>4, <1>8 DEF PrintRefused, Done
<1>9. CASE Moved
  <2>1. g'.size = g.size
    BY <1>1, <1>9 DEF Moved, States
  <2> QED  BY <1>3, <1>4, <1>9, <2>1 DEF Moved, Done
<1>10. CASE Flush
  <2>1. c.arg \in FlushValues /\ "wrote" \in Backs \ {"zeros"}
    BY <1>1 DEF CallStates, Backs
  <2> QED  BY <1>2, <1>3, <1>10, <2>1 DEF Flush
<1>11. CASE ParamsFlush
  BY <1>2, <1>3, <1>11 DEF ParamsFlush, FlushValues, Backs
<1>12. CASE ParamsChange
  <2>1. g' = [g EXCEPT !.level = c.par[1], !.strategy = c.par[2]] /\ c' = NoCall /\ acc' = acc
    BY <1>12 DEF ParamsChange, Done
  <2>2. g'.size = g.size
    BY <1>1, <2>1 DEF States
  <2> QED  BY <1>3, <1>4, <2>1, <2>2
<1>13. CASE CloseFinish
  BY <1>2, <1>3, <1>13 DEF CloseFinish, FlushValues, Backs
<1>14. CASE Closing
  <2>1. g' = gz_error(g, "OK") /\ acc' = acc /\ c' = [NoCall EXCEPT !.pc = "closed"]
    BY <1>14 DEF Closing
  <2>2. c'.pc = "closed"
    BY <2>1 DEF NoCall
  <2> QED  BY <1>1, <1>3, <2>1, <2>2, ErrorSize DEF Seeking, Filling, At
<1> QED  BY <1>5, <1>6, <1>7, <1>8, <1>9, <1>10, <1>11, <1>12, <1>13, <1>14

\* What is written is counted.
LEMMA FreshLonger ==
  ASSUME TypeInv, NEW n \in Nat, acc' = acc \o Fresh_(n)
  PROVE  Longer(n)
<1>1. acc \in Seq(Int) /\ Len(acc) \in Nat
  BY EmptyInt DEF TypeInv
<1>2. /\ acc \o Fresh_(n) \in Seq(Int) /\ Len(acc \o Fresh_(n)) = Len(acc) + n
      /\ \A i \in 1 .. Len(acc) : (acc \o Fresh_(n))[i] = acc[i]
      /\ \A i \in Len(acc) + 1 .. Len(acc) + n : (acc \o Fresh_(n))[i] = i
  BY FreshOK
<1> QED  BY <1>1, <1>2 DEF Longer

LEMMA PutsGap ==
  ASSUME Inv, GapInv, PutSmall \/ PutLarge \/ Putc \/ Print_
  PROVE  GapInv'
<1>1. TypeInv /\ c \in CallStates /\ g \in States /\ c.all \in Nat /\ c.left \in Nat /\ UINT \in Nat
      /\ UINT > 0
  BY GzSizes DEF Inv, TypeInv, CallStates
<1>2. \A k \in CallStates : \A back \in Backs \ {"zeros"} : c' = Comp(k, "NO", back) =>
        ~Seeking' /\ ~Filling'
  <2> SUFFICES ASSUME NEW k \in CallStates, NEW back \in Backs \ {"zeros"}, c' = Comp(k, "NO", back)
               PROVE  ~Seeking' /\ ~Filling'
    OBVIOUS
  <2>1. "NO" \in FlushValues /\ back \in Backs
    BY DEF FlushValues
  <2>2. CompFacts(Comp(k, "NO", back), k, "NO", back)
    BY <2>1, CompOK, Zenon
  <2>3. c'.pc = "comp" /\ c'.back = back
    BY <2>2, Zenon DEF CompFacts
  <2> QED  BY <2>3 DEF Seeking, Filling, At
<1>3. c' = NoCall => ~Seeking' /\ ~Filling'
  BY NoCallFacts DEF Seeking, Filling, At
<1>4. ASSUME acc' = acc, g' = g, ~Seeking', ~Filling'
      PROVE  GapInv'
  BY <1>4, CalmKeeps DEF Calm
<1>5. ASSUME NEW n \in Nat, acc' = acc \o Fresh_(n), g'.size = g.size, g.size # 0, ~Seeking',
             ~Filling'
      PROVE  GapInv'
  BY <1>1, <1>5, FreshLonger, GrownKeeps
<1>6. ASSUME NEW n \in Nat, Buffered(n), g.size # 0, ~Seeking', ~Filling'
      PROVE  GapInv'
  <2>1. acc' = acc \o Fresh_(n) /\ g'.size = g.size
    BY <1>1, <1>6 DEF Buffered, States
  <2> QED  BY <1>5, <1>6, <2>1
<1>7. CASE PutSmall
  <2>1. PICK n \in {Least((g.size - Have) % UINT, c.left)} :
          /\ Buffered(n)
          /\ IF n = c.left THEN Done(c.all)
             ELSE c' = Comp([c EXCEPT !.left = @ - n], "NO", "put") /\ UNCHANGED <<ret, acked>>
    BY <1>7 DEF PutSmall
  <2>2. n \in Nat /\ n <= c.left
    <3>1. Have \in Int /\ g.size \in Int
      <4>1. g.in \in Seq(Int) /\ nin.off \in Nat /\ g.size \in Nat
        BY <1>1, GzSizes DEF TypeInv, States
      <4> QED  BY <4>1, EmptyInt DEF Have
    <3>2. \A x \in Int : x % UINT \in Nat
      BY <1>1
    <3>3. (g.size - Have) % UINT \in Nat
      BY <3>1, <3>2
    <3> QED  BY <1>1, <3>3 DEF Least
  <2>3. ~Seeking' /\ ~Filling'
    <3>1. CASE n = c.left
      BY <1>3, <2>1, <3>1 DEF Done
    <3>2. CASE n # c.left
      <4>1. [c EXCEPT !.left = @ - n] \in CallStates
        <5>1. c.left - n \in Nat
          BY <1>1, <2>2
        <5> QED  BY <1>1, <5>1 DEF CallStates
      <4>2. "put" \in Backs \ {"zeros"}
        BY DEF Backs
      <4> QED  BY <1>2, <2>1, <3>2, <4>1, <4>2
    <3> QED  BY <3>1, <3>2
  <2> QED  BY <1>6, <1>7, <2>1, <2>2, <2>3 DEF PutSmall
<1>8. CASE PutLarge
  <2>1. CASE g.in # <<>>
    <3>1. c' = Comp(c, "NO", "put") /\ g' = g /\ acc' = acc
      BY <1>8, <2>1 DEF PutLarge
    <3> QED  BY <1>1, <1>2, <1>4, <3>1 DEF Backs
  <2>2. CASE g.in = <<>>
    <3>1. g' = [g EXCEPT !.in = Fresh_(c.all), !.pos = @ + c.all] /\ acc' = acc \o Fresh_(c.all)
          /\ c' = Comp(c, "NO", "wrote") /\ g.size # 0
      BY <1>8, <2>2 DEF PutLarge
    <3>2. g'.size = g.size
      BY <1>1, <3>1 DEF States
    <3>3. ~Seeking' /\ ~Filling'
      BY <1>1, <1>2, <3>1 DEF Backs
    <3> QED  BY <1>1, <1>5, <3>1, <3>2, <3>3
  <2> QED  BY <2>1, <2>2
<1>9. CASE Putc
  <2>1. CASE g.size # 0 /\ Have < g.size
    <3>1. Buffered(1) /\ c' = NoCall
      BY <1>9, <2>1 DEF Putc, Done
    <3> QED  BY <1>3, <1>6, <2>1, <3>1
  <2>2. CASE ~(g.size # 0 /\ Have < g.size)
    <3>1. c' = [c EXCEPT !.pc = IF g.size = 0 THEN "init" ELSE "put", !.back = "put"] /\ g' = g
          /\ acc' = acc
      BY <1>9, <2>2 DEF Putc
    <3>2. c'.pc \in {"init", "put"} /\ c'.back = "put"
      BY <1>1, <3>1 DEF CallStates
    <3> QED  BY <1>4, <3>1, <3>2 DEF Seeking, Filling, At
  <2> QED  BY <2>1, <2>2
<1>10. CASE Print_
  <2>1. acc' = acc \o Fresh_(c.all) /\ g.size # 0
    BY <1>10 DEF Print_
  <2>2. PICK b \in {g.in \o Fresh_(c.all)} :
          IF Len(b) >= g.size
          THEN /\ g' = [g EXCEPT !.in = SubSeq(b, 1, g.size), !.pos = @ + c.all]
               /\ c' = Comp([c EXCEPT !.rest = SubSeq(b, g.size - nin'.off + 1, Len(b) - nin'.off)],
                            "NO", "moved")
          ELSE g' = [g EXCEPT !.in = b, !.pos = @ + c.all] /\ c' = NoCall
    BY <1>10, Zenon DEF Print_, Done
  <2>3. g'.size = g.size
    BY <1>1, <2>2 DEF States
  <2>4. ~Seeking' /\ ~Filling'
    <3>1. CASE c' = NoCall
      BY <1>3, <3>1
    <3>2. ASSUME NEW x, c' = Comp([c EXCEPT !.rest = x], "NO", "moved")
          PROVE  ~Seeking' /\ ~Filling'
      <4>1. c'.pc = "comp" /\ c'.back = "moved"
        BY <1>1, <3>2 DEF Comp, CallStates
      <4> QED  BY <4>1 DEF Seeking, Filling, At
    <3> QED  BY <2>2, <3>1, <3>2
  <2> QED  BY <1>1, <1>5, <2>1, <2>3, <2>4
<1> QED  BY <1>7, <1>8, <1>9, <1>10

LEMMA GapKeeps ==
  ASSUME Inv, GapInv, [Next]_vars
  PROVE  GapInv'
<1>1. CASE Step
  BY <1>1, InitCalm, CompCalm, QuietCalm, CalmKeeps, GapTurnKeeps, PutsGap, Zenon DEF Step
<1>2. CASE \E m \in Modes : GzOpen(m)
  BY <1>2, OpenCalm, CalmKeeps
<1>3. ASSUME NEW len \in Lengths,
             GzWrite(len) \/ GzFwrite(2, len) \/ GzPuts(len) \/ GzPrintf(len) \/ GzBuffer(len)
      PROVE  GapInv'
  BY <1>3, WriteCallsCalm, CalmKeeps
<1>4. CASE \/ GzPutc \/ GzClearerr \/ GzClose
           \/ \E f \in Flushes : GzFlush(f)
           \/ \E par \in Params : GzSetparams(par)
           \/ \E s \in Seeks : GzSeek(s[1], s[2])
  BY <1>4, OtherCallsCalm, CalmKeeps
<1>5. CASE UNCHANGED vars
  BY <1>5 DEF vars, GapInv, Seeking, Filling, At
<1> QED  BY <1>1, <1>2, <1>3, <1>4, <1>5, Zenon DEF Next

-----------------------------------------------------------------------------
(* What reaches the file.                                                  *)

\* gzwrite.c:160-163: zeros fill every gap but one in front of all data.
THEOREM WriterGaps == Spec => [](Careful => GapsAreZero)
<1>1. Init => AppInv /\ Inv /\ GapInv
  <2>1. Init => AppInv
    BY DEF Init, AppInv
  <2>2. Init => GapInv
    <3> SUFFICES ASSUME Init PROVE GapInv
      OBVIOUS
    <3>1. acc = <<>> /\ Len(acc) = 0
      BY EmptyInt DEF Init
    <3>2. c.pc = "new"
      BY DEF Init, NoCall
    <3> QED  BY <3>1, <3>2 DEF GapInv, Seeking, Filling, At
  <2> QED  BY <2>1, <2>2, InitInv
<1>2. AppInv /\ (Careful => Inv /\ GapInv) /\ [Next]_vars =>
        AppInv' /\ (Careful => Inv /\ GapInv)'
  <2> SUFFICES ASSUME AppInv, Careful => Inv /\ GapInv, [Next]_vars
               PROVE  AppInv' /\ (Careful' => Inv' /\ GapInv')
    OBVIOUS
  <2>1. AppInv' /\ app'.use = app.use
    BY SameUse
  <2>2. Careful' => Careful
    BY <2>1 DEF Careful, Calls, Faults
  <2>3. Careful /\ Inv => Inv'
    BY NextKeeps, StutterKeeps
  <2>4. Careful /\ Inv /\ GapInv => GapInv'
    BY GapKeeps
  <2> QED  BY <2>1, <2>2, <2>3, <2>4
<1>3. Inv /\ GapInv => GapsAreZero
  <2>1. Inv => DOMAIN acc = 1 .. Len(acc)
    BY LenProperties DEF Inv, TypeInv
  <2> QED  BY <2>1 DEF GapInv, GapsAreZero
<1> QED  BY <1>1, <1>2, <1>3, PTL DEF Spec

\* gzwrite.c:105, 580, 627: a flush that succeeds has brought everything into
\* the file, but for what an earlier Z_FINISH has left behind; so has a close,
\* when nothing failed, and the members are complete.
THEOREM WriterFlushes == Spec => [](Careful => FlushReaches /\ ClosedIsExact)
<1> QED  BY FlushAndClose, GzWriteInvariance, PTL

\* gzwrite.c:96-105, 160, 580, 627, 650: what the application was told lies in
\* the file is there, also after a close that follows failed writes, but for the
\* end of a member that a failed gzflush with Z_FINISH has left behind.
THEOREM WriterReaches == Spec => [](Careful => ReachesFile)
<1>1. (Careful => GapsAreZero) /\ (Careful => Inv) => (Careful => ReachesFile)
  BY FlushAndClose, CloseComplete DEF ReachesFile
<1> QED  BY <1>1, GzWriteInvariance, WriterGaps, PTL

=============================================================================
