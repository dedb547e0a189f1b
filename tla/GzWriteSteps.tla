----------------------------- MODULE GzWriteSteps ----------------------------
(***************************************************************************)
(* The calls of GzWrite, gzopen, gz_init and gz_comp keep the invariant of *)
(* GzWriteLemmas.                                                          *)
(***************************************************************************)
EXTENDS GzWriteLemmas

-----------------------------------------------------------------------------
(* The calls the application makes: answered at once, or begun.            *)

\* A call that is answered at once changes nothing but the answer.
LEMMA AnsweredKeeps ==
  ASSUME Inv, c.pc = "idle", c' = c, Same, app' \in [use : {app.use}, calls : 0 .. MaxCalls],
         FlushOK' => FlushOK,
         g' \in States, g'.mode = g.mode, g'.size = g.size, g'.direct = g.direct, g'.data = g.data,
         g'.pos = g.pos, g'.in = g.in,         2 * g'.want < UINT, g'.size \in {0, g'.want},
         faults > 0 => Fatal(g'.err) /\ g'.seek = g.seek,
         g'.seek => g.seek \/ Seeks # {}
  PROVE  Inv'
<1>1. c.pc = "idle" /\ c' = c /\ app' \in [use : {app.use}, calls : 0 .. MaxCalls]
  BY DEF Same
<1>2. /\ file' = file /\ nin' = nin /\ out' = out /\ d' = d /\ acc' = acc /\ acked' = acked
      /\ faults' = faults
  BY DEF Same
<1>3. TypeInv /\ ControlInv /\ EmptyInv /\ HurtInv /\ InputInv /\ CallInv /\ DataInv /\ FinInv
      /\ ShapeInv /\ DrainInv
  BY DEF Inv
<1>4. c \in CallStates
  BY <1>1, <1>3 DEF TypeInv, ControlInv, PlaceInv, ArgInv, Zeroing, CallStates
<1>5. /\ c' \in CallStates /\ c'.pc = c.pc /\ c'.op = c.op /\ c'.main = c.main /\ c'.back = c.back
      /\ c'.left = c.left /\ c'.all = c.all /\ c'.arg = c.arg /\ c'.flush = c.flush
      /\ c'.dret = c.dret /\ c'.zeroed = c.zeroed /\ c'.rest = c.rest /\ c'.ret = c.ret
      /\ c'.par = c.par
  BY <1>1, <1>4
<1>6. Sent' = Sent /\ Data' = Data
  BY <1>2 DEF Sent, Data
<1>7. /\ g' \in States /\ g'.mode = g.mode /\ g'.size = g.size /\ g'.direct = g.direct
         /\ g'.data = g.data
      /\ g'.pos = g.pos /\ g'.in = g.in
      /\ app'.use = app.use /\ app' \in [use : DOMAIN Uses, calls : Nat] /\ app'.calls <= MaxCalls
      /\ 2 * g'.want < UINT /\ g'.size \in {0, g'.want}
      /\ (faults > 0 => Fatal(g'.err) /\ g'.seek = g.seek) /\ (g'.seek => g.seek \/ Seeks # {})
      /\ (FlushOK' => FlushOK)
  BY <1>1, <1>3, UsesAssumption DEF TypeInv, MaxCalls
<1>8. TypeInv'
  BY <1>1, <1>2, <1>3, <1>5, <1>7 DEF TypeInv, MaxCalls, MaxFaults
<1>9. ControlInv'
  <2>1. IdleInv'
    BY <1>1, <1>3, <1>5 DEF ControlInv, IdleInv
  <2>2. PlaceInv'
    BY <1>1, <1>5, <1>3, <1>7 DEF ControlInv, PlaceInv, Zeroing, At, Mains
  <2>3. ArgInv'
    BY <1>1, <1>3, <1>5, <1>7 DEF ControlInv, ArgInv, Zeroing, At, Flushes, Seeks
  <2> QED  BY <2>1, <2>2, <2>3 DEF ControlInv
<1>10. EmptyInv'
  BY <1>2, <1>3, <1>7 DEF EmptyInv
<1>11. HurtInv'
  BY <1>1, <1>2, <1>3, <1>5, <1>7 DEF HurtInv, Faults
<1>12. InputInv'
  BY <1>1, <1>2, <1>3, <1>5, <1>7 DEF InputInv, Zeroing, At
<1>13. CallInv'
  BY <1>1, <1>2, <1>3, <1>5, <1>7 DEF CallInv, EndsIn, At
<1>14. DataInv'
  BY <1>1, <1>2, <1>3, <1>5, <1>6, <1>7 DEF DataInv, Broken, Closing_, At
<1>15. FinInv'
  BY <1>1, <1>2, <1>3, <1>5, <1>7 DEF FinInv, Flushes
<1>16. ShapeInv'
  BY <1>2, <1>3, <1>6, <1>7 DEF ShapeInv, Within, WellFormed
<1>17. DrainInv'
  BY <1>1, <1>2, <1>3, <1>5, <1>7 DEF DrainInv, Drained, FlushOK
<1> QED  BY <1>8, <1>9, <1>10, <1>11, <1>12, <1>13, <1>14, <1>15, <1>16, <1>17 DEF Inv

\* The arguments a call starts with.
Starts(op, len, arg, main) ==
  /\ op \in Ops /\ len \in Nat /\ arg \in FlushValues /\ main \in Mains
  /\ main = "close" <=> op = "gzclose"
  /\ main = "flush" <=> op = "gzflush"
  /\ main = "flush" => len = 0
  /\ arg # "NO" => main \in {"flush", "close"}
  /\ op = "gzflush" => arg \in Flushes
  /\ op # "gzclose" => g.err = "OK"

\* What is stored of them.
Started(k, pc, back, op, main, len, arg, par) ==
  /\ k \in CallStates /\ k.pc = pc /\ k.op = op /\ k.main = main /\ k.back = back
  /\ k.left = len /\ k.all = len /\ k.arg = arg /\ k.flush = "NO" /\ k.dret = "OK"
  /\ k.zeroed = -1 /\ k.rest = <<>> /\ k.ret = "OK" /\ k.par = par

\* A call that begins finds its buffers allocated or does not need them yet.
LEMMA BegunKeeps ==
  ASSUME Inv, NEW op, NEW len, NEW arg, NEW main, Starts(op, len, arg, main),
         NEW par \in (Levels \cup {"-1"}) \X (Strategies \cup {"dflt"}), c.pc = "idle", Same,
           ret' = ret, app' \in [use : {app.use}, calls : 0 .. MaxCalls],
         g' = [g EXCEPT !.seek = FALSE],
         Started(c', IF g.seek THEN "zero" ELSE main, "none", op, main, len, arg, par)
  PROVE  Inv'
<1>1. c.pc = "idle" /\ app' \in [use : {app.use}, calls : 0 .. MaxCalls]
      /\ g' = [g EXCEPT !.seek = FALSE]
      /\ op \in Ops /\ len \in Nat /\ arg \in FlushValues /\ main \in Mains
      /\ (main = "close" <=> op = "gzclose") /\ (main = "flush" <=> op = "gzflush")
      /\ (main = "flush" => len = 0) /\ (arg # "NO" => main \in {"flush", "close"})
      /\ (op = "gzflush" => arg \in Flushes) /\ (op # "gzclose" => g.err = "OK")
  BY DEF Same, Starts
<1>2. /\ file' = file /\ nin' = nin /\ out' = out /\ d' = d /\ acc' = acc /\ acked' = acked
      /\ faults' = faults /\ ret' = ret
  BY DEF Same, Starts
<1>3. TypeInv /\ ControlInv /\ EmptyInv /\ HurtInv /\ InputInv /\ CallInv /\ DataInv /\ FinInv
      /\ ShapeInv /\ DrainInv
  BY DEF Inv
<1>4. c \in CallStates
  BY <1>1, <1>3 DEF TypeInv, ControlInv, PlaceInv, ArgInv, Zeroing, CallStates
<1>5. /\ c' \in CallStates /\ c'.pc = (IF g.seek THEN "zero" ELSE main) /\ c'.op = op
      /\ c'.main = main /\ c'.back = "none" /\ c'.left = len /\ c'.all = len /\ c'.arg = arg
      /\ c'.flush = "NO" /\ c'.dret = "OK" /\ c'.zeroed = -1 /\ c'.rest = <<>> /\ c'.ret = "OK"
      /\ c'.par = par
  BY DEF Started
<1>6. /\ g' \in States /\ g'.mode = g.mode /\ g'.size = g.size /\ g'.direct = g.direct
         /\ g'.data = g.data
      /\ g'.pos = g.pos /\ g'.in = g.in
      /\ g'.want = g.want /\ g'.err = g.err
      /\ app'.use = app.use /\ app' \in [use : DOMAIN Uses, calls : Nat] /\ app'.calls <= MaxCalls
      /\ g'.seek = FALSE
      /\ (main = "close" <=> op = "gzclose") /\ (main = "flush" <=> op = "gzflush")
      /\ (main = "flush" => len = 0) /\ (arg # "NO" => main \in {"flush", "close"})
      /\ (op = "gzflush" => arg \in Flushes) /\ (op # "gzclose" => g.err = "OK")
      /\ (g.err = "OK" => ~Fatal(g.err))
  <2>1. g \in States /\ g.seek \in BOOLEAN
    BY <1>3 DEF TypeInv, States
  <2>2. app'.use = app.use /\ app' \in [use : DOMAIN Uses, calls : Nat] /\ app'.calls <= MaxCalls
    BY <1>1, <1>3, UsesAssumption DEF TypeInv, MaxCalls
  <2>3. g' \in States
    BY <1>1, <2>1 DEF States
  <2>4. g.err = "OK" => ~Fatal(g.err)
    BY DEF Fatal
  <2>5. g'.mode = g.mode /\ g'.size = g.size /\ g'.direct = g.direct /\ g'.data = g.data
        /\ g'.pos = g.pos /\ g'.in = g.in /\ g'.want = g.want /\ g'.err = g.err
    BY <1>1, <2>1 DEF States
  <2> QED  BY <1>1, <2>1, <2>2, <2>3, <2>4, <2>5 DEF States
<1>7. Sent' = Sent /\ Data' = Data
  BY <1>2, <1>6 DEF Sent, Data
<1>8. TypeInv'
  BY <1>1, <1>2, <1>3, <1>5, <1>6 DEF TypeInv, MaxCalls, MaxFaults
<1>9. ControlInv'
  <2>1. IdleInv'
    BY <1>1, <1>5 DEF IdleInv, Mains
  <2>2. PlaceInv'
    BY <1>1, <1>5, <1>3, <1>6 DEF PlaceInv, Zeroing, At, Mains
  <2>3. ArgInv'
    BY <1>1, <1>3, <1>5, <1>6 DEF ControlInv, ArgInv, Zeroing, At, Mains, Flushes, Seeks
  <2> QED  BY <2>1, <2>2, <2>3 DEF ControlInv
<1>10. EmptyInv'
  BY <1>2, <1>3, <1>6 DEF EmptyInv
<1>11. HurtInv'
  BY <1>1, <1>2, <1>3, <1>5, <1>6 DEF HurtInv, Faults
<1>12. InputInv'
  <2>1. c'.pc \notin {"moved", "zeros", "comp"} /\ nin' = nin /\ g'.in = g.in /\ g'.size = g.size
    BY <1>1, <1>2, <1>5, <1>6 DEF Mains
  <2>2. g.in # <<>> /\ faults = 0 => nin = Own /\ Len(g.in) <= g.size
    BY <1>1, <1>3 DEF InputInv
  <2>3. CASE faults = 0
    BY <1>2, <2>1, <2>2, <2>3 DEF InputInv
  <2>4. CASE faults # 0 /\ c'.pc = "zero"
    <3>1. faults > 0 /\ g.seek
      BY <1>1, <1>3, <1>5, <2>4, <1>6 DEF TypeInv, Mains
    <3>2. g.in = <<>>
      BY <1>1, <1>3, <3>1 DEF HurtInv, EmptyInv
    <3> QED  BY <2>1, <3>2 DEF InputInv
  <2>5. CASE faults # 0 /\ c'.pc # "zero"
    <3>1. faults > 0 /\ ~Zeroing'
      BY <1>1, <1>2, <1>3, <1>5, <2>1, <2>5 DEF TypeInv, Mains, Zeroing, At
    <3> QED  BY <1>2, <2>1, <2>5, <3>1 DEF InputInv
  <2> QED  BY <2>3, <2>4, <2>5
<1>13. CallInv'
  <2>1. EndsIn(acc, 0) /\ len - len = 0
    BY <1>1, <1>3, EmptyInt DEF EndsIn, TypeInv
  <2>2. Len(<<>>) <= len /\ Len(<<>>) <= g.size
    BY <1>1, <1>3, EmptyInt, GzSizes DEF TypeInv, States
  <2> QED  BY <1>1, <1>2, <1>5, <1>6, <2>1, <2>2 DEF CallInv, At, EndsIn, Mains
<1>14. DataInv'
  <2>1. PICK s \in Seq(Int) : Data \o s = acc /\ (s = c.rest \/ Broken)
    BY <1>3 DEF DataInv
  <2>2. c.rest = <<>>
    BY <1>1, <1>3 DEF ControlInv, ArgInv, At
  <2>3. Broken => Broken'
    BY <1>1, <1>2, <1>3, <1>5, <1>6 DEF Broken, HurtInv, Closing_, At
  <2>4. \E x \in Seq(Int) : Data' \o x = acc' /\ (x = c'.rest \/ Broken')
    BY <1>2, <1>5, <1>7, <2>1, <2>2, <2>3
  <2> QED  BY <1>2, <1>3, <1>7, <2>4 DEF DataInv
<1>15. FinInv'
  <2>1. d.fin => main = "close" /\ ~g.seek
    BY <1>1, <1>3, <1>6 DEF FinInv, EmptyInv, HurtInv
  <2> QED  BY <1>1, <1>2, <1>3, <1>5, <1>6, <2>1 DEF FinInv, Flushes, Mains
<1>16. ShapeInv'
  BY <1>2, <1>3, <1>7, <1>6 DEF ShapeInv, Within, WellFormed
<1>17. DrainInv'
  BY <1>1, <1>5 DEF DrainInv, Mains
<1> QED  BY <1>8, <1>9, <1>10, <1>11, <1>12, <1>13, <1>14, <1>15, <1>16, <1>17 DEF Inv

\* A call that begins with gz_init.
LEMMA BegunInitKeeps ==
  ASSUME Inv, NEW op, NEW len, NEW arg, NEW main, Starts(op, len, arg, main),
         NEW par \in (Levels \cup {"-1"}) \X (Strategies \cup {"dflt"}), main \in {"put",
           "printf"}, g.size = 0,
         c.pc = "idle", Same, ret' = ret, app' \in [use : {app.use}, calls : 0 .. MaxCalls],
         g' = g, Started(c', "init", IF g.seek THEN "zero" ELSE main, op, main, len, arg, par)
  PROVE  Inv'
<1>1. c.pc = "idle" /\ app' \in [use : {app.use}, calls : 0 .. MaxCalls] /\ g' = g
      /\ op \in Ops /\ len \in Nat /\ arg \in FlushValues /\ main \in Mains
      /\ (main = "close" <=> op = "gzclose") /\ (main = "flush" <=> op = "gzflush")
      /\ (main = "flush" => len = 0) /\ (arg # "NO" => main \in {"flush", "close"})
      /\ (op = "gzflush" => arg \in Flushes) /\ (op # "gzclose" => g.err = "OK")
  BY DEF Same, Starts
<1>2. /\ file' = file /\ nin' = nin /\ out' = out /\ d' = d /\ acc' = acc /\ acked' = acked
      /\ faults' = faults /\ ret' = ret
  BY DEF Same, Starts
<1>3. TypeInv /\ ControlInv /\ EmptyInv /\ HurtInv /\ InputInv /\ CallInv /\ DataInv /\ FinInv
      /\ ShapeInv /\ DrainInv
  BY DEF Inv
<1>4. c \in CallStates
  BY <1>1, <1>3 DEF TypeInv, ControlInv, PlaceInv, ArgInv, Zeroing, CallStates
<1>5. /\ c' \in CallStates /\ c'.pc = "init" /\ c'.op = op /\ c'.main = main
      /\ c'.back = (IF g.seek THEN "zero" ELSE main) /\ c'.left = len /\ c'.all = len
      /\ c'.arg = arg /\ c'.flush = "NO" /\ c'.dret = "OK" /\ c'.zeroed = -1 /\ c'.rest = <<>>
      /\ c'.ret = "OK" /\ c'.par = par
  BY DEF Started
<1>6. /\ g' \in States /\ g'.mode = g.mode /\ g'.size = g.size /\ g'.direct = g.direct
         /\ g'.data = g.data
      /\ g'.pos = g.pos /\ g'.in = g.in
      /\ g'.want = g.want /\ g'.err = g.err
      /\ app'.use = app.use /\ app' \in [use : DOMAIN Uses, calls : Nat] /\ app'.calls <= MaxCalls
      /\ g'.seek = g.seek /\ main \in {"put", "printf"} /\ g.size = 0
      /\ (main = "close" <=> op = "gzclose") /\ (main = "flush" <=> op = "gzflush")
      /\ (main = "flush" => len = 0) /\ (arg # "NO" => main \in {"flush", "close"})
      /\ (op = "gzflush" => arg \in Flushes) /\ (op # "gzclose" => g.err = "OK")
      /\ (g.err = "OK" => ~Fatal(g.err))
  <2>1. g \in States /\ g.seek \in BOOLEAN
    BY <1>3 DEF TypeInv, States
  <2>2. app'.use = app.use /\ app' \in [use : DOMAIN Uses, calls : Nat] /\ app'.calls <= MaxCalls
    BY <1>1, <1>3, UsesAssumption DEF TypeInv, MaxCalls
  <2>3. g' \in States
    BY <1>1, <2>1 DEF States
  <2>4. g.err = "OK" => ~Fatal(g.err)
    BY DEF Fatal
  <2>5. g'.mode = g.mode /\ g'.size = g.size /\ g'.direct = g.direct /\ g'.data = g.data
        /\ g'.pos = g.pos /\ g'.in = g.in /\ g'.want = g.want /\ g'.err = g.err
    BY <1>1, <2>1 DEF States
  <2> QED  BY <1>1, <2>1, <2>2, <2>3, <2>4, <2>5 DEF States
<1>7. Sent' = Sent /\ Data' = Data
  BY <1>2, <1>6 DEF Sent, Data
<1>8. TypeInv'
  BY <1>1, <1>2, <1>3, <1>5, <1>6 DEF TypeInv, MaxCalls, MaxFaults
<1>9. ControlInv'
  <2>1. IdleInv'
    BY <1>1, <1>5 DEF IdleInv
  <2>2. PlaceInv'
    BY <1>1, <1>5, <1>3, <1>6 DEF PlaceInv, Zeroing, At, Mains
  <2>3. ArgInv'
    BY <1>1, <1>3, <1>5, <1>6 DEF ControlInv, ArgInv, Zeroing, At, Mains, Flushes, Seeks
  <2> QED  BY <2>1, <2>2, <2>3 DEF ControlInv
<1>10. EmptyInv'
  BY <1>2, <1>3, <1>6 DEF EmptyInv
<1>11. HurtInv'
  BY <1>1, <1>2, <1>3, <1>5, <1>6 DEF HurtInv, Faults
<1>12. InputInv'
  <2>1. c'.pc \notin {"moved", "zeros", "comp"} /\ nin' = nin /\ g'.in = g.in /\ g'.size = g.size
    BY <1>1, <1>2, <1>5, <1>6 DEF Mains
  <2>2. g.in # <<>> /\ faults = 0 => nin = Own /\ Len(g.in) <= g.size
    BY <1>1, <1>3 DEF InputInv
  <2>3. CASE faults = 0
    BY <1>2, <2>1, <2>2, <2>3 DEF InputInv
  <2>4. CASE faults # 0 /\ c'.pc = "zero"
    <3>1. faults > 0 /\ g.seek
      BY <1>1, <1>3, <1>5, <2>4, <1>6 DEF TypeInv, Mains
    <3>2. g.in = <<>>
      BY <1>1, <1>3, <3>1 DEF HurtInv, EmptyInv
    <3> QED  BY <2>1, <3>2 DEF InputInv
  <2>5. CASE faults # 0 /\ c'.pc # "zero"
    <3>1. faults > 0 /\ ~Zeroing'
      BY <1>1, <1>2, <1>3, <1>5, <2>1, <2>5 DEF TypeInv, Mains, Zeroing, At
    <3> QED  BY <1>2, <2>1, <2>5, <3>1 DEF InputInv
  <2> QED  BY <2>3, <2>4, <2>5
<1>13. CallInv'
  <2>1. EndsIn(acc, 0) /\ len - len = 0
    BY <1>1, <1>3, EmptyInt DEF EndsIn, TypeInv
  <2>2. Len(<<>>) <= len /\ Len(<<>>) <= g.size
    BY <1>1, <1>3, EmptyInt, GzSizes DEF TypeInv, States
  <2> QED  BY <1>1, <1>2, <1>5, <1>6, <2>1, <2>2 DEF CallInv, At, EndsIn, Mains
<1>14. DataInv'
  <2>1. PICK s \in Seq(Int) : Data \o s = acc /\ (s = c.rest \/ Broken)
    BY <1>3 DEF DataInv
  <2>2. c.rest = <<>>
    BY <1>1, <1>3 DEF ControlInv, ArgInv, At
  <2>3. Broken => Broken'
    BY <1>1, <1>2, <1>3, <1>5, <1>6 DEF Broken, HurtInv, Closing_, At
  <2>4. \E x \in Seq(Int) : Data' \o x = acc' /\ (x = c'.rest \/ Broken')
    BY <1>2, <1>5, <1>7, <2>1, <2>2, <2>3
  <2> QED  BY <1>2, <1>3, <1>7, <2>4 DEF DataInv
<1>15. FinInv'
  <2>1. ~d.fin
    BY <1>3, <1>6 DEF EmptyInv
  <2> QED  BY <1>2, <1>5, <2>1 DEF FinInv
<1>16. ShapeInv'
  BY <1>2, <1>3, <1>7, <1>6 DEF ShapeInv, Within, WellFormed
<1>17. DrainInv'
  BY <1>1, <1>5 DEF DrainInv, Mains
<1> QED  BY <1>8, <1>9, <1>10, <1>11, <1>12, <1>13, <1>14, <1>15, <1>16, <1>17 DEF Inv

\* A call that begins gets through only while calls are left, and finds the
\* file idle.
LEMMA CallFacts ==
  ASSUME Inv, NEW op, Call(op)
  PROVE  /\ c.pc = "idle" /\ op \in Calls /\ app.use \in DOMAIN Uses
         /\ app' \in [use : {app.use}, calls : 0 .. MaxCalls]
<1>1. app \in [use : DOMAIN Uses, calls : Nat] /\ MaxCalls \in Nat
  BY UsesAssumption DEF Inv, TypeInv, MaxCalls
<1>2. c.pc = "idle" /\ op \in Calls /\ app.calls < MaxCalls /\ app' = [app EXCEPT !.calls = @ + 1]
  BY DEF Call, Idle
<1> QED  BY <1>1, <1>2

\* An answer given at once says nothing of a flush.
LEMMA Quiet ==
  ASSUME NEW op, NEW val, NEW n, AtOnce(op, val, n), op # "gzflush" \/ val # "OK"
  PROVE  ~FlushOK'
BY DEF AtOnce, NoRet, FlushOK

\* A call that is refused, or has nothing to do.
LEMMA RefusedKeeps ==
  ASSUME Inv, NEW op, Call(op), NEW o, NEW val, NEW n, AtOnce(o, val, n),
         o # "gzflush" \/ val # "OK", g' = g, c' = c, Same
  PROVE  Inv'
<1>1. c.pc = "idle" /\ app' \in [use : {app.use}, calls : 0 .. MaxCalls]
  BY CallFacts
<1>2. g \in States /\ 2 * g.want < UINT /\ g.size \in {0, g.want} /\ (faults > 0 => Fatal(g.err))
  BY <1>1 DEF Inv, TypeInv, HurtInv
<1>3. ~FlushOK'
  BY Quiet
<1> QED  BY <1>1, <1>2, <1>3, AnsweredKeeps

\* An answer that is an error.
LEMMA ErrorKeeps ==
  ASSUME Inv, NEW op, Call(op), NEW o, NEW e \in Errors, AtOnce(o, e, 0), Fatal(e),
         g' = gz_error(g, e), c' = c, Same
  PROVE  Inv'
<1>1. c.pc = "idle" /\ app' \in [use : {app.use}, calls : 0 .. MaxCalls]
  BY CallFacts
<1>2. g \in States /\ 2 * g.want < UINT /\ g.size \in {0, g.want} /\ g.data = <<>>
  BY DEF Inv, TypeInv
<1>3. ~FlushOK'
  BY Quiet DEF Fatal
<1>4. g' = [g EXCEPT !.err = e, !.data = <<>>]
  BY <1>2 DEF gz_error
<1>5. /\ g' \in States /\ g'.mode = g.mode /\ g'.size = g.size /\ g'.direct = g.direct
      /\ g'.data = g.data /\ g'.pos = g.pos /\ g'.in = g.in /\ g'.want = g.want
      /\ g'.err = e /\ g'.seek = g.seek
  BY <1>2, <1>4 DEF States
<1> QED  BY <1>1, <1>2, <1>3, <1>5, AnsweredKeeps

NoParams == <<"-1", "dflt">>

\* What a call without parameters has in their place.
LEMMA NoParamsType == NoParams \in (Levels \cup {"-1"}) \X (Strategies \cup {"dflt"})
BY DEF NoParams

\* Begin, and BeginInit, with the arguments of any call.
LEMMA BeginKeeps ==
  ASSUME Inv, NEW op, NEW len, NEW arg, NEW main, Starts(op, len, arg, main),
         c.pc = "idle", app' \in [use : {app.use}, calls : 0 .. MaxCalls], Same,
         Begin(op, len, arg, main)
  PROVE  Inv'
<1> DEFINE pc == IF g.seek THEN "zero" ELSE main
<1>1. /\ g' = [g EXCEPT !.seek = FALSE] /\ ret' = ret
      /\ c' = [NoCall EXCEPT !.pc = pc, !.op = op, !.main = main, !.left = len, !.all = len,
         !.arg = arg]
  BY DEF Begin
<1>2. pc \in Pcs /\ "none" \in Backs
  BY DEF Starts, Mains, Pcs, Backs
<1>3. Started(c', pc, "none", op, main, len, arg, NoParams)
  <2> HIDE DEF pc
  <2> QED  BY <1>1, <1>2, NoCallFacts DEF Starts, Started, CallStates, NoParams
<1> QED  BY <1>1, <1>3, NoParamsType, BegunKeeps, Zenon

\* A call that writes begins with gz_init if there are no buffers.
LEMMA BeginInitKeeps ==
  ASSUME Inv, NEW op \in {"gzwrite", "gzfwrite", "gzputs", "gzprintf"}, NEW len \in Nat,
         NEW main \in {"put", "printf"}, g.err = "OK",
         c.pc = "idle", app' \in [use : {app.use}, calls : 0 .. MaxCalls], Same,
         BeginInit(op, len, main)
  PROVE  Inv'
<1>1. Starts(op, len, "NO", main)
  BY DEF Starts, Ops, Mains, FlushValues
<1>2. CASE g.size # 0
  <2>1. Begin(op, len, "NO", main)
    BY <1>2 DEF BeginInit
  <2> QED  BY <1>1, <2>1, BeginKeeps
<1>3. CASE g.size = 0
  <2> DEFINE back == IF g.seek THEN "zero" ELSE main
  <2>1. /\ g' = g /\ ret' = ret
        /\ c' = [NoCall EXCEPT !.pc = "init", !.back = back, !.op = op, !.main = main, !.left = len,
                               !.all = len]
    BY <1>3 DEF BeginInit
  <2>2. "init" \in Pcs /\ back \in Backs
    BY DEF Pcs, Backs
  <2>3. Started(c', "init", back, op, main, len, "NO", NoParams)
    <3> HIDE DEF back
    <3> QED  BY <1>1, <2>1, <2>2, NoCallFacts DEF Starts, Started, CallStates, NoParams
  <2> QED  BY <1>1, <1>3, <2>1, <2>3, NoParamsType, BegunInitKeeps, Zenon
<1> QED  BY <1>2, <1>3

\* The lengths an application gives are unsigned.
LEMMA LengthsType ==
  ASSUME app.use \in DOMAIN Uses
  PROVE  Lengths \subseteq Nat /\ \A n \in Lengths : n < UINT
BY UsesAssumption, GzSizes DEF Lengths

\* gzbuffer is refused when there are buffers, or sets their size.
LEMMA GzBufferKeeps ==
  ASSUME Inv, NEW size \in Lengths, GzBuffer(size)
  PROVE  Inv'
<1>1. Call("gzbuffer") /\ c' = c /\ Same
  BY DEF GzBuffer
<1>2. CASE BufferRefused(g, size)
  <2>1. AtOnce("gzbuffer", "ERRNO", 0) /\ g' = g
    BY <1>2 DEF GzBuffer
  <2> QED  BY <1>1, <2>1, RefusedKeeps
<1>3. CASE ~BufferRefused(g, size)
  <2>1. AtOnce("gzbuffer", "OK", 0) /\ g' = gzbuffer(g, size)
    BY <1>3 DEF GzBuffer
  <2>2. c.pc = "idle" /\ app' \in [use : {app.use}, calls : 0 .. MaxCalls]
        /\ app.use \in DOMAIN Uses
    BY <1>1, CallFacts
  <2>3. size \in Nat /\ size < UINT /\ UINT \in Nat /\ UINT > 4
    BY <2>2, LengthsType, GzSizes
  <2>4. 2 * size < UINT
    <3>1. SUFFICES ASSUME 2 * size >= UINT
                   PROVE  (2 * size) % UINT < size
      BY <1>3, <2>3 DEF BufferRefused
    <3>2. 2 * size - UINT \in 0 .. UINT - 1 /\ 2 * size = (2 * size - UINT) + UINT
      BY <2>3, <3>1
    <3>3. (2 * size) % UINT = 2 * size - UINT
      BY <2>3, <3>2
    <3> QED  BY <2>3, <3>3
  <2>5. g \in States /\ g.size = 0 /\ (faults > 0 => Fatal(g.err))
    BY <1>3, <2>2 DEF Inv, TypeInv, HurtInv, BufferRefused
  <2>6. /\ g' \in States /\ g'.mode = g.mode /\ g'.size = g.size /\ g'.direct = g.direct
        /\ g'.data = g.data /\ g'.pos = g.pos /\ g'.in = g.in /\ g'.seek = g.seek /\ g'.err = g.err
        /\ 2 * g'.want < UINT
    <3> DEFINE w == IF size < 2 THEN 2 ELSE size
    <3>1. w \in 2 .. UINT /\ 2 * w < UINT
      BY <2>3, <2>4
    <3>2. g' = [g EXCEPT !.want = w]
      BY <2>1 DEF gzbuffer
    <3> HIDE DEF w
    <3> QED  BY <2>5, <3>1, <3>2 DEF States
  <2>7. ~FlushOK'
    BY <2>1, Quiet
  <2> QED  BY <1>1, <2>2, <2>5, <2>6, <2>7, AnsweredKeeps
<1> QED  BY <1>2, <1>3

\* gzwrite is refused, too long, empty, or begins.
LEMMA GzWriteKeeps ==
  ASSUME Inv, NEW len \in Lengths, GzWrite(len)
  PROVE  Inv'
<1>1. Call("gzwrite") /\ Same
  BY DEF GzWrite
<1>2. c.pc = "idle" /\ app' \in [use : {app.use}, calls : 0 .. MaxCalls] /\ len \in Nat
  BY <1>1, CallFacts, LengthsType
<1>3. \/ Refuse("gzwrite")
      \/ AtOnce("gzwrite", "DATA_ERROR", 0) /\ g' = gz_error(g, "DATA_ERROR") /\ UNCHANGED c
      \/ AtOnce("gzwrite", "OK", 0) /\ UNCHANGED <<g, c>>
      \/ g.err = "OK" /\ BeginInit("gzwrite", len, "put")
  BY Zenon DEF GzWrite
<1> QED  BY <1>1, <1>2, <1>3, RefusedKeeps, ErrorKeeps, BeginInitKeeps DEF Refuse, Fatal, Errors

\* gzfwrite is refused when the product overflows.
LEMMA GzFwriteKeeps ==
  ASSUME Inv, NEW nitems \in Lengths, GzFwrite(2, nitems)
  PROVE  Inv'
<1>1. Call("gzfwrite") /\ Same
  BY DEF GzFwrite
<1> DEFINE len == (nitems * 2) % UINT
<1>2. c.pc = "idle" /\ app' \in [use : {app.use}, calls : 0 .. MaxCalls] /\ len \in Nat
  BY <1>1, CallFacts, LengthsType, GzSizes
<1> HIDE DEF len
<1>3. \/ Refuse("gzfwrite")
      \/ AtOnce("gzfwrite", "STREAM_ERROR", 0) /\ g' = gz_error(g, "STREAM_ERROR") /\ UNCHANGED c
      \/ AtOnce("gzfwrite", "OK", 0) /\ UNCHANGED <<g, c>>
      \/ g.err = "OK" /\ BeginInit("gzfwrite", len, "put")
  BY Zenon DEF GzFwrite, len
<1> QED  BY <1>1, <1>2, <1>3, RefusedKeeps, ErrorKeeps, BeginInitKeeps DEF Refuse, Fatal, Errors

\* gzputs, gzprintf and gzputc begin unless there is an error.
LEMMA GzPutsKeeps ==
  ASSUME Inv, NEW len \in Lengths, GzPuts(len)
  PROVE  Inv'
<1>1. Call("gzputs") /\ Same
  BY DEF GzPuts
<1>2. c.pc = "idle" /\ app' \in [use : {app.use}, calls : 0 .. MaxCalls] /\ len \in Nat
  BY <1>1, CallFacts, LengthsType
<1>3. \/ Refuse("gzputs")
      \/ AtOnce("gzputs", "OK", 0) /\ UNCHANGED <<g, c>>
      \/ g.err = "OK" /\ BeginInit("gzputs", len, "put")
  BY Zenon DEF GzPuts
<1> QED  BY <1>1, <1>2, <1>3, RefusedKeeps, BeginInitKeeps DEF Refuse

LEMMA GzPrintfKeeps ==
  ASSUME Inv, NEW len \in Lengths, GzPrintf(len)
  PROVE  Inv'
<1>1. Call("gzprintf") /\ Same
  BY DEF GzPrintf
<1>2. c.pc = "idle" /\ app' \in [use : {app.use}, calls : 0 .. MaxCalls] /\ len \in Nat
  BY <1>1, CallFacts, LengthsType
<1>3. Refuse("gzprintf") \/ (g.err = "OK" /\ BeginInit("gzprintf", len, "printf"))
  BY DEF GzPrintf
<1> QED  BY <1>1, <1>2, <1>3, RefusedKeeps, BeginInitKeeps DEF Refuse

LEMMA GzPutcKeeps ==
  ASSUME Inv, GzPutc
  PROVE  Inv'
<1>1. Call("gzputc") /\ Same
  BY DEF GzPutc
<1>2. c.pc = "idle" /\ app' \in [use : {app.use}, calls : 0 .. MaxCalls]
  BY <1>1, CallFacts
<1>3. Refuse("gzputc") \/ (g.err = "OK" /\ Begin("gzputc", 1, "NO", "putc"))
  BY DEF GzPutc
<1>4. g.err = "OK" => Starts("gzputc", 1, "NO", "putc")
  BY DEF Starts, Ops, Mains, FlushValues
<1> QED  BY <1>1, <1>2, <1>3, <1>4, RefusedKeeps, BeginKeeps DEF Refuse

\* gzflush begins unless there is an error.
LEMMA GzFlushKeeps ==
  ASSUME Inv, NEW f \in Flushes, GzFlush(f)
  PROVE  Inv'
<1>1. Call("gzflush") /\ Same
  BY DEF GzFlush
<1>2. c.pc = "idle" /\ app' \in [use : {app.use}, calls : 0 .. MaxCalls] /\ f \in FlushValues
  BY <1>1, CallFacts, UsesAssumption DEF Flushes, FlushValues
<1>3. Refuse("gzflush") \/ (g.err = "OK" /\ Begin("gzflush", 0, f, "flush"))
  BY DEF GzFlush
<1>4. g.err = "OK" => Starts("gzflush", 0, f, "flush")
  BY <1>2 DEF Starts, Ops, Mains
<1> QED  BY <1>1, <1>2, <1>3, <1>4, RefusedKeeps, BeginKeeps DEF Refuse

\* gzsetparams begins when there is something to change.
LEMMA GzSetparamsKeeps ==
  ASSUME Inv, NEW par \in Params, GzSetparams(par)
  PROVE  Inv'
<1>1. Call("gzsetparams") /\ Same
  BY DEF GzSetparams
<1>2. c.pc = "idle" /\ app' \in [use : {app.use}, calls : 0 .. MaxCalls]
      /\ par \in (Levels \cup {"-1"}) \X (Strategies \cup {"dflt"})
  BY <1>1, CallFacts, UsesAssumption DEF Params
<1>3. \/ Refuse("gzsetparams")
      \/ AtOnce("gzsetparams", "OK", 0) /\ UNCHANGED <<g, c>>
      \/ /\ g.err = "OK" /\ g' = [g EXCEPT !.seek = FALSE] /\ ret' = ret
         /\ c' = [NoCall EXCEPT !.pc = IF g.seek THEN "zero" ELSE "params",
                                !.op = "gzsetparams", !.main = "params", !.par = par]
  BY Zenon DEF GzSetparams
<1>4. CASE Refuse("gzsetparams") \/ (AtOnce("gzsetparams", "OK", 0) /\ UNCHANGED <<g, c>>)
  BY <1>1, <1>4, RefusedKeeps DEF Refuse
<1>5. CASE /\ g.err = "OK" /\ g' = [g EXCEPT !.seek = FALSE] /\ ret' = ret
           /\ c' = [NoCall EXCEPT !.pc = IF g.seek THEN "zero" ELSE "params",
                                  !.op = "gzsetparams", !.main = "params", !.par = par]
  <2> DEFINE pc == IF g.seek THEN "zero" ELSE "params"
  <2>1. Starts("gzsetparams", 0, "NO", "params")
    BY <1>5 DEF Starts, Ops, Mains, FlushValues
  <2>2. pc \in Pcs /\ "none" \in Backs
    BY DEF Pcs, Backs
  <2>3. Started(c', pc, "none", "gzsetparams", "params", 0, "NO", par)
    <3>1. c' = [NoCall EXCEPT !.pc = pc, !.op = "gzsetparams", !.main = "params", !.par = par]
      BY <1>5
    <3> HIDE DEF pc
    <3> QED  BY <1>2, <2>1, <2>2, <3>1, NoCallFacts DEF Starts, Started, CallStates
  <2> QED  BY <1>1, <1>2, <1>5, <2>1, <2>3, BegunKeeps, Zenon
<1> QED  BY <1>3, <1>4, <1>5

\* gzseek notes how far to skip.
LEMMA GzSeekKeeps ==
  ASSUME Inv, NEW s \in Seeks, GzSeek(s[1], s[2])
  PROVE  Inv'
<1>1. Call("gzseek") /\ c' = c /\ Same
  BY DEF GzSeek
<1>2. c.pc = "idle" /\ app' \in [use : {app.use}, calls : 0 .. MaxCalls] /\ s[1] \in Int
  BY <1>1, CallFacts, UsesAssumption DEF Seeks
<1> DEFINE r == gzseek64(g, 0, 0, s[1], s[2], TRUE)
           off == Relative(g, s[1], s[2])
           h == [g EXCEPT !.seek = FALSE]
<1>3. g' = r.g /\ AtOnce("gzseek", IF r.ret = -1 THEN "ERRNO" ELSE "OK", r.ret)
  BY DEF GzSeek
<1>4. /\ Fatal(g.err) \/ s[2] = "END" => r = [g |-> g, fd |-> 0, ret |-> -1]
      /\ ~(Fatal(g.err) \/ s[2] = "END") /\ ~InRawArea(g, off) => r = SkipSeek(h, 0, 0, off, TRUE)
  BY Zenon DEF gzseek64
<1> HIDE DEF r
<1>5. /\ g \in States /\ g.mode = "WRITE" /\ g.data = <<>> /\ 2 * g.want < UINT
      /\ g.size \in {0, g.want} /\ (faults > 0 => Fatal(g.err))
  BY <1>2 DEF Inv, TypeInv, HurtInv
<1>6. off \in Int
  BY <1>2, <1>5 DEF Relative, States
<1>7. h \in States /\ h.mode = "WRITE" /\ h.data = <<>>
  BY <1>5 DEF States
<1> HIDE DEF off, h
<1>8. r.g = g \/ (~Fatal(g.err) /\ (r.g = h \/ (off \in Nat /\ r.g = SkipRequest(h, off))))
  <2>1. CASE Fatal(g.err) \/ s[2] = "END"
    <3>1. r = [g |-> g, fd |-> 0, ret |-> -1]
      BY <1>4, <2>1, Zenon
    <3> QED  BY <3>1
  <2>2. CASE ~(Fatal(g.err) \/ s[2] = "END")
    <3>1. ~InRawArea(g, off)
      BY <1>5 DEF InRawArea
    <3>2. r = SkipSeek(h, 0, 0, off, TRUE)
      BY <1>4, <2>2, <3>1, Zenon
    <3>3. CASE off >= 0
      <4>1. r = [g |-> SkipRequest(h, off), fd |-> 0, ret |-> h.pos + off]
        <5>0. ~(off < 0)
          BY <1>6, <3>3
        <5>1. SkipSeek(h, 0, 0, off, TRUE) = [g |-> SkipRequest(h, off), fd |-> 0,
              ret |-> h.pos + off]
          BY <3>3, <5>0, Zenon DEF SkipSeek
        <5> QED  BY <3>2, <5>1, Zenon
      <4> QED  BY <1>6, <2>2, <3>3, <4>1
    <3>4. CASE ~(off >= 0)
      <4>1. off < 0 /\ h.mode # "READ"
        BY <1>6, <1>7, <3>4
      <4>2. r = [g |-> h, fd |-> 0, ret |-> -1]
        BY <3>2, <3>4, <4>1, Zenon DEF SkipSeek
      <4> QED  BY <2>2, <4>2
    <3> QED  BY <3>3, <3>4
  <2> QED  BY <2>1, <2>2
<1>9. off \in Nat => /\ SkipRequest(h, off) \in States
                     /\ SkipRequest(h, off) = [h EXCEPT !.seek = off # 0,
                        !.skip = IF off # 0 THEN off ELSE @]
  <2>1. SUFFICES ASSUME off \in Nat
                 PROVE  /\ SkipRequest(h, off) \in States
                        /\ SkipRequest(h, off)
                           = [h EXCEPT !.seek = off # 0, !.skip = IF off # 0 THEN off ELSE @]
    OBVIOUS
  <2>2. SubSeq(h.data, 0 + 1, Len(h.data)) = h.data
    BY <1>7, EmptyInt
  <2>3. h.next + 0 = h.next /\ h.pos + 0 = h.pos /\ off - 0 = off
    BY <1>7, <2>1 DEF States
  <2>4. SkipRequest(h, off) = [h EXCEPT !.data = SubSeq(@, 0 + 1, Len(@)), !.next = @ + 0,
        !.pos = @ + 0,
                                        !.seek = off # 0, !.skip = IF off # 0 THEN off ELSE @]
    BY <1>7, <2>3 DEF SkipRequest
  <2>5. SkipRequest(h, off) = [h EXCEPT !.seek = off # 0, !.skip = IF off # 0 THEN off ELSE @]
    BY <1>7, <2>2, <2>3, <2>4 DEF States
  <2> QED  BY <1>7, <2>1, <2>5 DEF States
<1>10. /\ g' \in States /\ g'.mode = g.mode /\ g'.size = g.size /\ g'.direct = g.direct
      /\ g'.data = g.data /\ g'.pos = g.pos /\ g'.in = g.in /\ g'.want = g.want
      /\ g'.err = g.err /\ (Fatal(g.err) => g'.seek = g.seek)
  <2>1. CASE r.g = g
    BY <1>3, <1>5, <2>1
  <2>2. CASE ~Fatal(g.err) /\ r.g = h
    BY <1>3, <1>5, <1>7, <2>2 DEF h, States
  <2>3. CASE ~Fatal(g.err) /\ off \in Nat /\ r.g = SkipRequest(h, off)
    <3>1. g' \in States /\ g' = [h EXCEPT !.seek = off # 0, !.skip = IF off # 0 THEN off ELSE @]
      BY <1>3, <1>9, <2>3
    <3>2. h.mode = g.mode /\ h.size = g.size /\ h.direct = g.direct /\ h.data = g.data
          /\ h.pos = g.pos /\ h.in = g.in /\ h.want = g.want /\ h.err = g.err
      BY <1>5 DEF h, States
    <3> QED  BY <1>7, <2>3, <3>1, <3>2 DEF States
  <2> QED  BY <1>8, <2>1, <2>2, <2>3
<1>11. ~FlushOK'
  BY <1>3, Quiet
<1> QED  BY <1>1, <1>2, <1>5, <1>10, <1>11, AnsweredKeeps

\* gzclearerr, where it clears no failure.
LEMMA GzClearerrKeeps ==
  ASSUME Inv, Careful, GzClearerr
  PROVE  Inv'
<1>1. Call("gzclearerr") /\ g' = gzclearerr(g) /\ c' = c /\ ret' = ret /\ Same
  BY DEF GzClearerr
<1>2. /\ c.pc = "idle" /\ app' \in [use : {app.use}, calls : 0 .. MaxCalls]
      /\ "gzclearerr" \in Calls /\ app.use \in DOMAIN Uses
  BY <1>1, CallFacts
<1>3. Faults = {}
  BY <1>2 DEF Careful
<1>4. /\ g \in States /\ g.mode = "WRITE" /\ g.data = <<>> /\ 2 * g.want < UINT
      /\ g.size \in {0, g.want} /\ ~(faults > 0)
  BY <1>3 DEF Inv, TypeInv, HurtInv
<1>5. g' = [g EXCEPT !.err = "OK", !.data = g.data]
  BY <1>1, <1>4 DEF gzclearerr, gz_error, Fatal
<1>6. /\ g' \in States /\ g'.mode = g.mode /\ g'.size = g.size /\ g'.direct = g.direct
      /\ g'.data = g.data /\ g'.pos = g.pos /\ g'.in = g.in /\ g'.want = g.want /\ g'.seek = g.seek
  BY <1>4, <1>5 DEF States, Errors
<1>7. FlushOK' => FlushOK
  BY <1>1 DEF FlushOK
<1> QED  BY <1>1, <1>2, <1>4, <1>6, <1>7, AnsweredKeeps

\* gzclose begins whatever has happened.
LEMMA GzCloseKeeps ==
  ASSUME Inv, GzClose
  PROVE  Inv'
<1>1. c.pc = "idle" /\ Begin("gzclose", 0, "FINISH", "close") /\ app' = app /\ Same
  BY DEF GzClose, Idle
<1>2. app' \in [use : {app.use}, calls : 0 .. MaxCalls]
  BY <1>1, UsesAssumption DEF Inv, TypeInv, MaxCalls
<1>3. Starts("gzclose", 0, "FINISH", "close")
  BY DEF Starts, Ops, Mains, FlushValues
<1> QED  BY <1>1, <1>2, <1>3, BeginKeeps

-----------------------------------------------------------------------------
(* gzopen, and the initial states.                                         *)

\* A file that has just been opened for writing.
JustOpened(h) ==
  /\ h \in States /\ h.mode = "WRITE" /\ h.data = <<>> /\ 2 * h.want < UINT /\ h.size = 0
  /\ h.pos = 0 /\ h.in = <<>> /\ h.seek = FALSE /\ h.err = "OK"

\* gz_reset, and gz_open's position at the end of the file.
LEMMA Placed ==
  ASSUME NEW e \in States, NEW x \in Int, NEW z \in Seq(Int)
  PROVE  [e EXCEPT !.pos = x, !.in = z] \in States
BY DEF States

\* gz_reset of a new state.
LEMMA ResetOK ==
  ASSUME NEW f \in States, f.mode = "WRITE", 2 * f.want < UINT, f.size = 0
  PROVE  JustOpened(gz_reset(f))
<1>1. gz_reset(f) = [f EXCEPT !.err = "OK", !.data = <<>>, !.seek = FALSE, !.pos = 0, !.in = <<>>]
  BY DEF gz_reset, gz_error, Fatal, States
<1>2. <<>> \in Seq(Int) /\ "OK" \in Errors
  BY EmptyInt DEF Errors
<1>3. gz_reset(f) \in States
  <2> DEFINE e == [f EXCEPT !.err = "OK", !.data = <<>>, !.seek = FALSE]
  <2>1. e \in States
    BY <1>2 DEF States
  <2>2. gz_reset(f) = [e EXCEPT !.pos = 0, !.in = <<>>]
    BY <1>1 DEF States
  <2> HIDE DEF e
  <2>3. 0 \in Int
    OBVIOUS
  <2>4. \A x \in Int, z \in Seq(Int) : [e EXCEPT !.pos = x, !.in = z] \in States
    BY <2>1, Placed
  <2>5. [e EXCEPT !.pos = 0, !.in = <<>>] \in States
    BY <1>2, <2>3, <2>4, Zenon
  <2> QED  BY <2>2, <2>5, Zenon
<1> QED  BY <1>1, <1>3 DEF JustOpened, States

\* gz_open for writing.
LEMMA OpenedOK ==
  ASSUME NEW m, IsMode(m), OpenMode(m) # "r"
  PROVE  JustOpened(gz_open(m))
<1> DEFINE direct == Holds(m, "T")
           level == LastOf(m, Levels, "-1")
           strategy == LastOf(m, Strategies, "dflt")
<1>1. direct \in BOOLEAN /\ level \in Levels \cup {"-1"} /\ strategy \in Strategies \cup {"dflt"}
  BY LastOfType DEF Holds
<1> DEFINE f == Fresh("WRITE", direct, level, strategy)
<1>2. gz_open(m) = gz_reset(Fresh("WRITE", FALSE \/ direct, level, strategy))
  BY Zenon DEF gz_open
<1>3. gz_open(m) = gz_reset(f)
  <2>1. direct = (FALSE \/ direct)
    BY <1>1
  <2> QED  BY <1>2, <2>1, Zenon
<1> HIDE DEF direct, level, strategy
<1>4. /\ UINT \in Nat /\ GZBUFSIZE \in Nat /\ GZBUFSIZE >= 2 /\ UINT > 2 * GZBUFSIZE
  BY GzSizes
<1>5. GZBUFSIZE \in 2 .. UINT /\ 0 \in 0 .. UINT
  BY <1>4
<1>6. f \in States /\ f.mode = "WRITE" /\ f.size = 0 /\ f.want = GZBUFSIZE /\ f.data = <<>>
  BY <1>1, <1>5, EmptyInt DEF States, Fresh, Errors
<1> HIDE DEF f
<1>7. 2 * GZBUFSIZE < UINT
  BY <1>4
<1> QED  BY <1>3, <1>6, <1>7, ResetOK

\* The deflate state there is before deflateInit2.
LEMMA NewDeflate ==
  /\ NoDeflate \in DeflateStates /\ NoDeflate.pend = <<>> /\ NoDeflate.held = <<>>
  /\ NoDeflate.fin = FALSE /\ NoDeflate.head = FALSE /\ NoDeflate.live = FALSE
BY EmptyInt, EmptyCells DEF NoDeflate, DeflateStates, Levels, Strategies

\* What stands in the file before: nothing, or an empty member.
Empties == {<<>>, <<Cell("H", <<>>), Cell("T", <<>>)>>}

\* An empty file, and one with an empty member, decode to nothing.
LEMMA EmptiesOK ==
  ASSUME NEW f \in Empties
  PROVE  f \in Seq(Cells) /\ Decoded(f) = <<>> /\ WellFormed(f) /\ ~Within(f)
         /\ (f \o <<>>) \o <<>> = f
<1>1. CASE f = <<>>
  <2>1. f \in Seq(Cells) /\ Decoded(f) = <<>> /\ ~Within(f)
    BY <1>1, EmptyCells, DecodedEmpty DEF Within
  <2>2. WellFormed(f)
    BY <1>1 DEF WellFormed
  <2> QED  BY <2>1, <2>2, EmptyCells
<1>2. CASE f = <<Cell("H", <<>>), Cell("T", <<>>)>>
  <2> DEFINE a == Cell("H", <<>>)
             b == Cell("T", <<>>)
  <2>1. a \in Cells /\ b \in Cells /\ a.v = <<>> /\ b.v = <<>> /\ a.k = "H" /\ b.k = "T"
    BY EmptyInt DEF Cell, Cells
  <2>2. <<a>> \in Seq(Cells) /\ Decoded(<<a>>) = <<>>
    BY EmptyInt, CellType
  <2> HIDE DEF a, b
  <2>3. f = Append(<<a>>, b)
    <3>1. f = <<a, b>>
      BY <1>2 DEF a, b
    <3>2. <<a, b>> = Append(<<a>>, b)
      OBVIOUS
    <3> QED  BY <3>1, <3>2
  <2>4. Decoded(f) = <<>> \o <<>>
    BY <2>1, <2>2, <2>3, DecodedAppend
  <2>5. f \in Seq(Cells) /\ Decoded(f) = <<>>
    BY <2>1, <2>2, <2>3, <2>4, AppendProperties, EmptyInt
  <2>6. Len(f) = 2 /\ f[1] = a /\ f[2] = b /\ DOMAIN f = 1 .. 2 /\ f # <<>>
    <3>1. f = <<a, b>>
      BY <1>2 DEF a, b
    <3> QED  BY <3>1
  <2>7. WellFormed(f) /\ ~Within(f)
    BY <2>1, <2>6 DEF WellFormed, Within
  <2> QED  BY <2>5, <2>7, EmptyCells
<1> QED  BY <1>1, <1>2 DEF Empties

\* A file is opened.
LEMMA GzOpenKeeps ==
  ASSUME Inv, NEW m \in Modes, GzOpen(m)
  PROVE  Inv'
<1>1. /\ c.pc = "new" /\ OpenMode(m) # "r" /\ g' = gz_open(m) /\ c' = NoCall
      /\ file' = IF OpenMode(m) = "w" THEN <<>> ELSE file
  BY DEF GzOpen
<1>2. /\ nin' = nin /\ out' = out /\ d' = d /\ ret' = ret /\ acc' = acc /\ acked' = acked
      /\ faults' = faults /\ app' = app
  BY DEF GzOpen
<1>3. TypeInv /\ ControlInv /\ EmptyInv /\ HurtInv /\ InputInv /\ CallInv /\ DataInv /\ FinInv
      /\ ShapeInv /\ DrainInv
  BY DEF Inv
<1>4. c \in CallStates
  BY <1>1, <1>3 DEF TypeInv, ControlInv, PlaceInv, ArgInv, Zeroing, CallStates
<1>5. /\ c' \in CallStates /\ c'.pc = "idle" /\ c'.op = "none" /\ c'.main = "none"
      /\ c'.back = "none" /\ c'.left = 0 /\ c'.all = 0 /\ c'.arg = "NO" /\ c'.flush = "NO"
      /\ c'.dret = "OK" /\ c'.zeroed = -1 /\ c'.rest = <<>> /\ c'.ret = "OK"
      /\ c'.par = <<"-1", "dflt">>
  BY <1>1, NoCallFacts
<1>6. /\ g' \in States /\ g'.mode = "WRITE" /\ g'.data = <<>> /\ 2 * g'.want < UINT /\ g'.size = 0
      /\ g'.pos = 0 /\ g'.in = <<>> /\ g'.seek = FALSE
      /\ file' \in Empties /\ file' \in Seq(Cells) /\ acc = <<>> /\ acked = {} /\ d = NoDeflate
      /\ out.cells = <<>> /\ out.avail = 0 /\ ret = NoRet /\ faults = 0
  <2>1. app.use \in DOMAIN Uses
    BY <1>3 DEF TypeInv
  <2>2. IsMode(m)
    <3>1. m \in Seq(STRING)
      BY <2>1, UsesAssumption DEF Modes
    <3> QED  BY <3>1, LenProperties DEF IsMode
  <2>3. JustOpened(gz_open(m))
    BY <1>1, <2>2, OpenedOK
  <2>4. Unopened
    BY <1>1, <1>3 DEF ControlInv, IdleInv
  <2>5. file' \in Empties
    BY <1>1, <2>4 DEF Unopened, Empties
  <2> QED  BY <1>1, <2>3, <2>4, <2>5, EmptiesOK DEF JustOpened, Unopened
<1>7. Sent' = file' /\ Data' = <<>> /\ WellFormed(file') /\ ~Within(file')
  <2>1. Decoded(file') = <<>> /\ WellFormed(file') /\ ~Within(file')
        /\ (file' \o <<>>) \o <<>> = file'
    BY <1>6, EmptiesOK
  <2>2. Sent' = file'
    BY <1>2, <1>6, <2>1, NewDeflate DEF Sent
  <2>3. (<<>> \o <<>>) \o <<>> = <<>>
    BY EmptyInt
  <2>4. Data' = (Decoded(file') \o <<>>) \o <<>>
    BY <1>2, <1>6, <2>2, NewDeflate DEF Data
  <2> QED  BY <2>1, <2>2, <2>3, <2>4
<1>8. TypeInv'
  BY <1>2, <1>3, <1>5, <1>6, EmptyInt DEF TypeInv, MaxCalls, MaxFaults
<1>9. ControlInv'
  <2>1. IdleInv'
    BY <1>1, <1>5, NoCallFacts DEF IdleInv
  <2>2. PlaceInv'
    BY <1>5, <1>6 DEF PlaceInv, Zeroing, At, Mains
  <2>3. ArgInv'
    BY <1>5, <1>6 DEF ArgInv, Zeroing, At, Mains
  <2> QED  BY <2>1, <2>2, <2>3 DEF ControlInv
<1>10. EmptyInv'
  BY <1>2, <1>6, NewDeflate DEF EmptyInv
<1>11. HurtInv'
  BY <1>2, <1>6 DEF HurtInv
<1>12. InputInv'
  BY <1>6, <1>5 DEF InputInv
<1>13. CallInv'
  <2>1. EndsIn(acc, 0)
    BY <1>6, EmptyInt DEF EndsIn
  <2>2. Len(<<>>) = 0
    BY EmptyInt
  <2> QED  BY <1>2, <1>5, <1>6, <2>1, <2>2 DEF CallInv, EndsIn, At
<1>14. DataInv'
  <2>1. Data' \o <<>> = acc' /\ <<>> \in Seq(Int) /\ 1 .. Len(acc') = {} /\ acked' = {}
    BY <1>2, <1>7, <1>6, EmptyInt
  <2> QED  BY <1>2, <1>5, <1>7, <1>6, <2>1 DEF DataInv
<1>15. FinInv'
  BY <1>2, <1>5, <1>6, NewDeflate DEF FinInv
<1>16. ShapeInv'
  BY <1>2, <1>7, <1>6, NewDeflate DEF ShapeInv, Within, WellFormed
<1>17. DrainInv'
  BY <1>2, <1>5, <1>6 DEF DrainInv, FlushOK, NoRet
<1> QED  BY <1>8, <1>9, <1>10, <1>11, <1>12, <1>13, <1>14, <1>15, <1>16, <1>17 DEF Inv

\* The initial states satisfy the invariant.
LEMMA InitInv ==
  ASSUME Init
  PROVE  Inv
<1>1. JustOpened(g)
  <2>1. IsMode(<<"w">>)
    BY DEF IsMode
  <2>2. OpenMode(<<"w">>) # "r"
    <3>1. {<<"w">>[i] : i \in DOMAIN <<"w">>} = {"w"}
      OBVIOUS
    <3>2. OpenMode(<<"w">>) \in ({"r", "w", "a"} \cap {"w"}) \cup {"NONE"}
      BY <2>1, <3>1, LastOfType DEF OpenMode
    <3> QED  BY <3>2
  <2> QED  BY <2>1, <2>2, OpenedOK DEF Init
<1>2. c = [NoCall EXCEPT !.pc = "new"] /\ nin = Own /\ app \in [use : DOMAIN Uses, calls : {0}]
  BY DEF Init
<1>3. /\ g \in States /\ g.mode = "WRITE" /\ g.data = <<>> /\ 2 * g.want < UINT /\ g.size = 0
      /\ g.pos = 0 /\ g.in = <<>> /\ g.seek = FALSE
      /\ file \in Empties /\ file \in Seq(Cells) /\ acc = <<>> /\ acked = {} /\ d = NoDeflate
      /\ out.cells = <<>> /\ out.avail = 0 /\ ret = NoRet /\ faults = 0
      /\ out \in [cells : Seq(Cells), avail : Nat] /\ Unopened
  <2>1. file \in Empties /\ Unopened /\ out = [cells |-> <<>>, avail |-> 0]
    BY DEF Init, Empties, Unopened
  <2> QED  BY <1>1, <2>1, EmptiesOK, EmptyCells DEF JustOpened, Unopened
<1>4. app \in [use : DOMAIN Uses, calls : Nat] /\ app.calls <= MaxCalls /\ MaxFaults \in Nat
      /\ nin \in [user : BOOLEAN, off : Nat]
  BY <1>2, UsesAssumption DEF MaxCalls, MaxFaults, Own
<1>5. /\ c \in CallStates /\ c.pc = "new" /\ c.op = "none" /\ c.main = "none" /\ c.back = "none"
      /\ c.left = 0 /\ c.all = 0 /\ c.arg = "NO" /\ c.flush = "NO" /\ c.dret = "OK"
      /\ c.zeroed = -1 /\ c.rest = <<>> /\ c.ret = "OK" /\ c.par = <<"-1", "dflt">>
      /\ c = [NoCall EXCEPT !.pc = c.pc]
  <2>1. "new" \in Pcs
    BY DEF Pcs
  <2> QED  BY <1>2, <2>1, NoCallFacts DEF CallStates
<1>6. Sent = file /\ Data = <<>> /\ WellFormed(file) /\ ~Within(file)
  <2>1. Decoded(file) = <<>> /\ WellFormed(file) /\ ~Within(file) /\ (file \o <<>>) \o <<>> = file
    BY <1>3, EmptiesOK
  <2>2. Sent = file
    BY <1>3, <2>1, NewDeflate DEF Sent
  <2>3. (<<>> \o <<>>) \o <<>> = <<>>
    BY EmptyInt
  <2>4. Data = (Decoded(file) \o <<>>) \o <<>>
    BY <1>3, <2>2, NewDeflate DEF Data
  <2> QED  BY <2>1, <2>2, <2>3, <2>4
<1>7. TypeInv
  BY <1>4, <1>5, <1>3, NewDeflate, EmptyInt, EmptyCells DEF TypeInv, MaxFaults
<1>8. ControlInv
  <2>1. IdleInv
    BY <1>5, <1>3 DEF IdleInv
  <2>2. PlaceInv
    BY <1>5, <1>3 DEF PlaceInv, Zeroing, At, Mains
  <2>3. ArgInv
    BY <1>5, <1>3 DEF ArgInv, Zeroing, At, Mains
  <2> QED  BY <2>1, <2>2, <2>3 DEF ControlInv
<1>9. EmptyInv
  BY <1>3, NewDeflate DEF EmptyInv
<1>10. HurtInv
  BY <1>3 DEF HurtInv
<1>11. InputInv
  BY <1>3, <1>5 DEF InputInv
<1>12. CallInv
  <2>1. EndsIn(acc, 0)
    BY <1>3, EmptyInt DEF EndsIn
  <2>2. Len(<<>>) = 0
    BY EmptyInt
  <2> QED  BY <1>5, <1>3, <2>1, <2>2 DEF CallInv, EndsIn, At
<1>13. DataInv
  <2>1. Data \o <<>> = acc /\ <<>> \in Seq(Int) /\ 1 .. Len(acc) = {} /\ acked = {}
    BY <1>6, <1>3, EmptyInt
  <2> QED  BY <1>5, <1>6, <1>3, <2>1 DEF DataInv
<1>14. FinInv
  BY <1>3, NewDeflate DEF FinInv
<1>15. ShapeInv
  BY <1>6, <1>3, NewDeflate DEF ShapeInv, Within, WellFormed
<1>16. DrainInv
  BY <1>5, <1>3 DEF DrainInv, FlushOK, NoRet
<1> QED  BY <1>7, <1>8, <1>9, <1>10, <1>11, <1>12, <1>13, <1>14, <1>15, <1>16 DEF Inv

-----------------------------------------------------------------------------
(* gz_init, and what fails.                                                *)

\* Buffers are allocated for a call that writes.
LEMMA InitOkKeeps ==
  ASSUME Inv, InitOk
  PROVE  Inv'
<1>1. c.pc = "init" /\ gz_init([g EXCEPT !.seek = FALSE]) /\ c' = [c EXCEPT !.pc = c.back]
  BY DEF InitOk
<1>2. /\ file' = file /\ nin' = nin /\ ret' = ret /\ acc' = acc /\ acked' = acked
      /\ faults' = faults /\ app' = app
  BY DEF InitOk
<1>3. TypeInv /\ ControlInv /\ EmptyInv /\ HurtInv /\ InputInv /\ CallInv /\ DataInv /\ FinInv
      /\ ShapeInv /\ DrainInv
  BY DEF Inv
<1>4. c \in CallStates /\ c.back \in {"zero", "put", "printf"}
  BY <1>1, <1>3 DEF TypeInv, ControlInv, PlaceInv, ArgInv, Zeroing, CallStates
<1>5. /\ c' \in CallStates /\ c'.pc = c.back /\ c'.op = c.op /\ c'.main = c.main
      /\ c'.back = c.back /\ c'.left = c.left /\ c'.all = c.all /\ c'.arg = c.arg
      /\ c'.flush = c.flush /\ c'.dret = c.dret /\ c'.zeroed = c.zeroed /\ c'.rest = c.rest
      /\ c'.ret = c.ret /\ c'.par = c.par
  BY <1>1, <1>4, ZenonT(60) DEF CallStates, Pcs, Mains, Backs
<1>6. /\ g' \in States /\ g'.mode = g.mode /\ g'.size = g.want /\ g'.size \in {g.want}
         /\ g'.direct = g.direct
      /\ g'.data = g.data /\ g'.pos = g.pos /\ g'.in = g.in /\ g'.want = g.want /\ g'.err = g.err
      /\ g'.seek = FALSE /\ g'.skip = g.skip /\ g.in = <<>> /\ g.want # 0 /\ g.size = 0
      /\ out'.cells = <<>> /\ out'.avail \in 0 .. g.want /\ out' \in [cells : Seq(Cells),
         avail : Nat]
      /\ d' \in DeflateStates /\ d'.pend = <<>> /\ d'.held = <<>> /\ ~d'.fin /\ ~d'.head
      /\ (d'.live => ~g.direct) /\ d.pend = <<>> /\ d.held = <<>> /\ ~d.fin /\ ~d.head
         /\ out.cells = <<>>
  <2>0. g.size = 0 /\ g.in = <<>> /\ d.pend = <<>> /\ d.held = <<>> /\ ~d.fin /\ ~d.head
        /\ out.cells = <<>>
        /\ (d.live => ~g.direct)
    BY <1>1, <1>3 DEF EmptyInv, ControlInv, PlaceInv
  <2>1. g \in States /\ g.want \in Nat /\ g.want # 0 /\ g.want <= UINT
    <3>1. UINT \in Nat
      BY GzSizes
    <3>2. g \in States /\ g.want \in 2 .. UINT
      BY <1>3 DEF TypeInv, States
    <3> QED  BY <3>1, <3>2
  <2>2. g' = [g EXCEPT !.seek = FALSE, !.size = g.want]
    BY <1>1 DEF gz_init
  <2>3. /\ g' \in States /\ g'.mode = g.mode /\ g'.size = g.want /\ g'.direct = g.direct
        /\ g'.data = g.data /\ g'.pos = g.pos /\ g'.in = g.in /\ g'.want = g.want /\ g'.err = g.err
        /\ g'.seek = FALSE /\ g'.skip = g.skip
    <3>1. g.want \in 0 .. UINT
      BY <2>1
    <3> QED  BY <2>1, <2>2, <3>1 DEF States
  <2>4. CASE g.direct
    <3>1. out' = out /\ d' = d
      BY <1>1, <2>4 DEF gz_init, Compressing
    <3>2. out.avail \in 0 .. g.want /\ d \in DeflateStates /\ out \in [cells : Seq(Cells),
          avail : Nat]
      BY <1>3, <2>0, <2>1, EmptyCells DEF TypeInv
    <3> QED  BY <2>0, <2>1, <2>3, <2>4, <3>1, <3>2
  <2>5. CASE ~g.direct
    <3>1. out' = [cells |-> <<>>, avail |-> g.want]
          /\ d' = [NoDeflate EXCEPT !.live = TRUE, !.level = g.level, !.strategy = g.strategy]
      BY <1>1, <2>5 DEF gz_init, Compressing
    <3>2. d' \in DeflateStates /\ d'.pend = <<>> /\ d'.held = <<>> /\ ~d'.fin /\ ~d'.head
      BY <2>1, <3>1, EmptyInt, EmptyCells DEF NoDeflate, DeflateStates, States
    <3> QED  BY <2>0, <2>1, <2>3, <2>5, <3>1, <3>2, EmptyCells
  <2> QED  BY <2>4, <2>5
<1>7. Sent' = Sent /\ Data' = Data
  BY <1>2, <1>6 DEF Sent, Data
<1>8. TypeInv'
  <2>1. out' \in [cells : Seq(Cells), avail : Nat] /\ Len(out'.cells) + out'.avail <= g'.size
    BY <1>3, <1>6, EmptyCells, GzSizes DEF TypeInv, States
  <2> QED  BY <1>2, <1>3, <1>5, <1>6, <2>1 DEF TypeInv, MaxCalls, MaxFaults
<1>9. ControlInv'
  <2>1. IdleInv'
    BY <1>1, <1>4, <1>5, <1>6 DEF IdleInv, Mains
  <2>2. PlaceInv'
    BY <1>1, <1>2, <1>3, <1>4, <1>5, <1>6 DEF ControlInv, PlaceInv, Zeroing, At, Mains
  <2>3. ArgInv'
    BY <1>1, <1>2, <1>3, <1>4, <1>5, <1>6
       DEF ControlInv, ArgInv, PlaceInv, Zeroing, At, Mains, Flushes, Seeks
  <2> QED  BY <2>1, <2>2, <2>3 DEF ControlInv
<1>10. EmptyInv'
  BY <1>6 DEF EmptyInv
<1>11. HurtInv'
  BY <1>1, <1>2, <1>3, <1>4, <1>5, <1>6 DEF HurtInv, Faults, ControlInv, PlaceInv
<1>12. InputInv'
  BY <1>6, <1>3 DEF InputInv, EmptyInv
<1>13. CallInv'
  <2>1. Len(c.rest) <= g'.size
    <3>1. Len(c.rest) <= 0 /\ Len(c.rest) \in Nat
      BY <1>3, <1>4, <1>6, EmptyInt DEF CallInv, CallStates
    <3>2. g'.size \in Nat
      BY <1>3, <1>6 DEF TypeInv, States
    <3> QED  BY <3>1, <3>2
  <2> QED  BY <1>1, <1>2, <1>3, <1>4, <1>5, <2>1 DEF CallInv, EndsIn, At, ControlInv, PlaceInv
<1>14. DataInv'
  <2>1. PICK s \in Seq(Int) : Data \o s = acc /\ (s = c.rest \/ Broken)
    BY <1>3 DEF DataInv
  <2>2. s = c.rest
    BY <1>1, <1>3, <2>1 DEF Broken, ControlInv, PlaceInv
  <2> QED  BY <1>2, <1>3, <1>5, <1>7, <2>1, <2>2 DEF DataInv
<1>15. FinInv'
  BY <1>6 DEF FinInv
<1>16. ShapeInv'
  BY <1>3, <1>7, <1>6 DEF ShapeInv, EmptyInv, Within, WellFormed
<1>17. DrainInv'
  BY <1>1, <1>3, <1>4, <1>5 DEF DrainInv, ControlInv, PlaceInv
<1> QED  BY <1>8, <1>9, <1>10, <1>11, <1>12, <1>13, <1>14, <1>15, <1>16, <1>17 DEF Inv

\* They are allocated for a call that has nothing to write.
LEMMA AllocKeeps ==
  ASSUME Inv, c.pc = "comp", g.size = 0, gz_init(g),
         UNCHANGED <<c, ret, acked, faults, file, nin, acc, app>>
  PROVE  Inv'
<1>1. c.pc = "comp" /\ g.size = 0 /\ gz_init(g) /\ c' = c
  BY DEF Inv
<1>2. /\ file' = file /\ nin' = nin /\ ret' = ret /\ acc' = acc /\ acked' = acked
      /\ faults' = faults /\ app' = app
  BY DEF Inv
<1>3. TypeInv /\ ControlInv /\ EmptyInv /\ HurtInv /\ InputInv /\ CallInv /\ DataInv /\ FinInv
      /\ ShapeInv /\ DrainInv
  BY DEF Inv
<1>4. c \in CallStates
  BY <1>1, <1>3 DEF TypeInv, ControlInv, PlaceInv, ArgInv, Zeroing, CallStates
<1>5. /\ c' \in CallStates /\ c'.pc = c.pc /\ c'.op = c.op /\ c'.main = c.main /\ c'.back = c.back
      /\ c'.left = c.left /\ c'.all = c.all /\ c'.arg = c.arg /\ c'.flush = c.flush
      /\ c'.dret = c.dret /\ c'.zeroed = c.zeroed /\ c'.rest = c.rest /\ c'.ret = c.ret
      /\ c'.par = c.par
  BY <1>1, <1>4
<1>6. /\ g' \in States /\ g'.mode = g.mode /\ g'.size = g.want /\ g'.size \in {g.want}
         /\ g'.direct = g.direct
      /\ g'.data = g.data /\ g'.pos = g.pos /\ g'.in = g.in /\ g'.want = g.want /\ g'.err = g.err
      /\ g'.seek = FALSE /\ g'.skip = g.skip /\ g.in = <<>> /\ g.want # 0 /\ g.size = 0
      /\ out'.cells = <<>> /\ out'.avail \in 0 .. g.want /\ out' \in [cells : Seq(Cells),
         avail : Nat]
      /\ d' \in DeflateStates /\ d'.pend = <<>> /\ d'.held = <<>> /\ ~d'.fin /\ ~d'.head
      /\ (d'.live => ~g.direct) /\ d.pend = <<>> /\ d.held = <<>> /\ ~d.fin /\ ~d.head
         /\ out.cells = <<>>
  <2>0. g.size = 0 /\ g.in = <<>> /\ d.pend = <<>> /\ d.held = <<>> /\ ~d.fin /\ ~d.head
        /\ out.cells = <<>>
        /\ (d.live => ~g.direct)
    BY <1>1, <1>3 DEF EmptyInv, ControlInv, PlaceInv
  <2>1. g \in States /\ g.want \in Nat /\ g.want # 0 /\ g.want <= UINT
    <3>1. UINT \in Nat
      BY GzSizes
    <3>2. g \in States /\ g.want \in 2 .. UINT
      BY <1>3 DEF TypeInv, States
    <3> QED  BY <3>1, <3>2
  <2>2. g' = [g EXCEPT !.seek = FALSE, !.size = g.want]
    <3>1. g.seek = FALSE
      BY <1>1, <1>3, <2>1 DEF ControlInv, PlaceInv, States
    <3>2. g' = [g EXCEPT !.size = g.want]
      BY <1>1 DEF gz_init
    <3> QED  BY <2>1, <3>1, <3>2 DEF States
  <2>3. /\ g' \in States /\ g'.mode = g.mode /\ g'.size = g.want /\ g'.direct = g.direct
        /\ g'.data = g.data /\ g'.pos = g.pos /\ g'.in = g.in /\ g'.want = g.want /\ g'.err = g.err
        /\ g'.seek = FALSE /\ g'.skip = g.skip
    <3>1. g.want \in 0 .. UINT
      BY <2>1
    <3> QED  BY <2>1, <2>2, <3>1 DEF States
  <2>4. CASE g.direct
    <3>1. out' = out /\ d' = d
      BY <1>1, <2>4 DEF gz_init, Compressing
    <3>2. out.avail \in 0 .. g.want /\ d \in DeflateStates /\ out \in [cells : Seq(Cells),
          avail : Nat]
      BY <1>3, <2>0, <2>1, EmptyCells DEF TypeInv
    <3> QED  BY <2>0, <2>1, <2>3, <2>4, <3>1, <3>2
  <2>5. CASE ~g.direct
    <3>1. out' = [cells |-> <<>>, avail |-> g.want]
          /\ d' = [NoDeflate EXCEPT !.live = TRUE, !.level = g.level, !.strategy = g.strategy]
      BY <1>1, <2>5 DEF gz_init, Compressing
    <3>2. d' \in DeflateStates /\ d'.pend = <<>> /\ d'.held = <<>> /\ ~d'.fin /\ ~d'.head
      BY <2>1, <3>1, EmptyInt, EmptyCells DEF NoDeflate, DeflateStates, States
    <3> QED  BY <2>0, <2>1, <2>3, <2>5, <3>1, <3>2, EmptyCells
  <2> QED  BY <2>4, <2>5
<1>7. Sent' = Sent /\ Data' = Data
  BY <1>2, <1>6 DEF Sent, Data
<1>8. TypeInv'
  <2>1. out' \in [cells : Seq(Cells), avail : Nat] /\ Len(out'.cells) + out'.avail <= g'.size
    BY <1>3, <1>6, EmptyCells, GzSizes DEF TypeInv, States
  <2> QED  BY <1>2, <1>3, <1>5, <1>6, <2>1 DEF TypeInv, MaxCalls, MaxFaults
<1>9. ControlInv'
  <2>1. IdleInv'
    BY <1>1, <1>4, <1>5, <1>6 DEF IdleInv, Mains
  <2>2. PlaceInv'
    BY <1>1, <1>2, <1>3, <1>4, <1>5, <1>6 DEF ControlInv, PlaceInv, Zeroing, At, Mains
  <2>3. ArgInv'
    BY <1>1, <1>2, <1>3, <1>4, <1>5, <1>6
       DEF ControlInv, ArgInv, PlaceInv, Zeroing, At, Mains, Flushes, Seeks
  <2> QED  BY <2>1, <2>2, <2>3 DEF ControlInv
<1>10. EmptyInv'
  BY <1>6 DEF EmptyInv
<1>11. HurtInv'
  BY <1>1, <1>2, <1>3, <1>4, <1>5, <1>6 DEF HurtInv, Faults, ControlInv, PlaceInv
<1>12. InputInv'
  BY <1>6, <1>3 DEF InputInv, EmptyInv
<1>13. CallInv'
  <2>1. Len(c.rest) <= g'.size
    <3>1. Len(c.rest) <= 0 /\ Len(c.rest) \in Nat
      BY <1>3, <1>4, <1>6, EmptyInt DEF CallInv, CallStates
    <3>2. g'.size \in Nat
      BY <1>3, <1>6 DEF TypeInv, States
    <3> QED  BY <3>1, <3>2
  <2> QED  BY <1>1, <1>2, <1>3, <1>4, <1>5, <2>1 DEF CallInv, EndsIn, At, ControlInv, PlaceInv
<1>14. DataInv'
  <2>1. PICK s \in Seq(Int) : Data \o s = acc /\ (s = c.rest \/ Broken)
    BY <1>3 DEF DataInv
  <2>2. s = c.rest
    BY <1>1, <1>3, <2>1 DEF Broken, ControlInv, PlaceInv
  <2> QED  BY <1>2, <1>3, <1>5, <1>7, <2>1, <2>2 DEF DataInv
<1>15. FinInv'
  BY <1>6 DEF FinInv
<1>16. ShapeInv'
  BY <1>3, <1>7, <1>6 DEF ShapeInv, EmptyInv, Within, WellFormed
<1>17. DrainInv'
  BY <1>1, <1>3, <1>4, <1>5 DEF DrainInv, ControlInv, PlaceInv
<1> QED  BY <1>8, <1>9, <1>10, <1>11, <1>12, <1>13, <1>14, <1>15, <1>16, <1>17 DEF Inv

\* A failure ends a call that is not gzclose.
LEMMA FailedCallKeeps ==
  ASSUME NEW e \in Errors, Inv, c.pc \in {"init", "comp"}, Fatal(e), faults' = faults + 1,
         faults + 1 <= MaxFaults, Faults # {}, g' = gz_error(g, e), Fail,
         UNCHANGED <<file, nin, out, d, acc, app>>, c.op # "gzclose"
  PROVE  Inv'
<1>1. c.pc \in {"init", "comp"} /\ c.op # "gzclose" /\ c' = NoCall /\ ret'.val = g'.err
      /\ faults' = faults + 1 /\ faults + 1 <= MaxFaults /\ Faults # {}
      /\ e \in Errors /\ Fatal(e) /\ e # "OK" /\ g' = gz_error(g, e)
  BY DEF Fail, Fatal
<1>2. /\ file' = file /\ nin' = nin /\ out' = out /\ d' = d /\ acc' = acc /\ app' = app
      /\ acked' = acked
  BY DEF Fail, Fatal
<1>3. TypeInv /\ ControlInv /\ EmptyInv /\ HurtInv /\ InputInv /\ CallInv /\ DataInv /\ FinInv
      /\ ShapeInv /\ DrainInv
  BY DEF Inv
<1>4. c \in CallStates
  BY <1>1, <1>3 DEF TypeInv, ControlInv, PlaceInv, ArgInv, Zeroing, CallStates
<1>5. /\ c' \in CallStates /\ c'.pc = "idle" /\ c'.op = "none" /\ c'.main = "none"
      /\ c'.back = "none" /\ c'.left = 0 /\ c'.all = 0 /\ c'.arg = "NO" /\ c'.flush = "NO"
      /\ c'.dret = "OK" /\ c'.zeroed = -1 /\ c'.rest = <<>> /\ c'.ret = "OK"
      /\ c'.par = <<"-1", "dflt">>
  BY <1>1, NoCallFacts
<1>6. /\ g' \in States /\ g'.mode = g.mode /\ g'.size = g.size /\ g'.direct = g.direct
         /\ g'.data = g.data
      /\ g'.pos = g.pos /\ g'.in = g.in /\ g'.want = g.want /\ g'.err = e /\ g'.seek = g.seek
      /\ faults' > 0 /\ faults' \in 0 .. MaxFaults
      /\ (g.seek => c.pc = "init") /\ (c.pc = "init" => g.size = 0)
  <2>1. g \in States /\ g.data = <<>> /\ faults \in 0 .. MaxFaults /\ MaxFaults \in Nat
    BY <1>3, UsesAssumption DEF TypeInv, MaxFaults
  <2>2. g' = [g EXCEPT !.err = e, !.data = <<>>]
    BY <1>1, <2>1 DEF gz_error
  <2>3. /\ g' \in States /\ g'.mode = g.mode /\ g'.size = g.size /\ g'.direct = g.direct
           /\ g'.data = g.data
        /\ g'.pos = g.pos /\ g'.in = g.in /\ g'.want = g.want /\ g'.err = e /\ g'.seek = g.seek
    BY <1>1, <2>1, <2>2, ZenonT(60) DEF States
  <2>4. (g.seek => c.pc = "init") /\ (c.pc = "init" => g.size = 0)
    BY <1>1, <1>3 DEF ControlInv, PlaceInv
  <2> QED  BY <1>1, <2>1, <2>3, <2>4
<1>7. Sent' = Sent /\ Data' = Data
  BY <1>2, <1>6 DEF Sent, Data
<1>8. TypeInv'
  BY <1>2, <1>3, <1>5, <1>6, UsesAssumption DEF TypeInv, MaxCalls, MaxFaults
<1>9. ControlInv'
  BY <1>1, <1>2, <1>3, <1>5, <1>6, NoCallFacts
     DEF ControlInv, IdleInv, PlaceInv, ArgInv, Zeroing, At, Seeks, Mains
<1>10. EmptyInv'
  BY <1>2, <1>3, <1>6 DEF EmptyInv
<1>11. HurtInv'
  BY <1>1, <1>2, <1>5, <1>6, <1>3 DEF HurtInv, Faults
<1>12. InputInv'
  BY <1>5, <1>6 DEF InputInv, Zeroing, At
<1>13. CallInv'
  <2>1. EndsIn(acc, 0)
    BY <1>3, EmptyInt DEF EndsIn, TypeInv
  <2>2. Len(<<>>) = 0 /\ 0 <= g.size
    BY <1>3, EmptyInt DEF TypeInv, States
  <2> QED  BY <1>2, <1>5, <1>6, <2>1, <2>2 DEF CallInv, EndsIn, At
<1>14. DataInv'
  <2>1. PICK s \in Seq(Int) : Data \o s = acc /\ (s = c.rest \/ Broken)
    BY <1>3 DEF DataInv
  <2>2. CASE g.size = 0
    <3>1. s = c.rest
      BY <1>1, <2>1, <2>2 DEF Broken
    <3>2. c.rest = <<>>
      <4>1. c.rest \in Seq(Int) /\ Len(c.rest) <= 0
        BY <1>3, <1>4, <2>2 DEF CallInv, CallStates
      <4> QED  BY <4>1, EmptyInt
    <3>3. c'.rest = <<>>
      BY <1>5, <3>2
    <3>4. \E x \in Seq(Int) : Data' \o x = acc' /\ (x = c'.rest \/ Broken')
      BY <1>2, <1>7, <2>1, <3>1, <3>2, <3>3
    <3> QED  BY <1>2, <1>3, <1>7, <3>4 DEF DataInv
  <2>3. CASE g.size # 0
    <3>1. Broken'
      BY <1>1, <1>3, <1>5, <1>6, <2>3 DEF Broken, Closing_, ControlInv, PlaceInv
    <3>2. \E x \in Seq(Int) : Data' \o x = acc' /\ (x = c'.rest \/ Broken')
      BY <1>2, <1>7, <2>1, <3>1
    <3> QED  BY <1>2, <1>3, <1>7, <3>2 DEF DataInv
  <2> QED  BY <2>2, <2>3
<1>15. FinInv'
  <2>1. d.fin => c.flush = "FINISH" /\ c.pc = "comp" /\ d.held = <<>> /\ g.in = <<>>
    BY <1>1, <1>3 DEF FinInv
  <2> QED  BY <1>1, <1>2, <1>3, <1>5, <1>6, <2>1
           DEF FinInv, ControlInv, PlaceInv, ArgInv, At, Flushes
<1>16. ShapeInv'
  BY <1>2, <1>3, <1>7, <1>6 DEF ShapeInv, Within, WellFormed
<1>17. DrainInv'
  BY <1>1, <1>5, <1>6 DEF DrainInv, FlushOK
<1> QED  BY <1>8, <1>9, <1>10, <1>11, <1>12, <1>13, <1>14, <1>15, <1>16, <1>17 DEF Inv

\* A failure does not end gzclose.
LEMMA FailedCloseKeeps ==
  ASSUME NEW e \in Errors, Inv, c.pc \in {"init", "comp"}, Fatal(e), faults' = faults + 1,
         faults + 1 <= MaxFaults, Faults # {}, g' = gz_error(g, e), Fail,
         UNCHANGED <<file, nin, out, d, acc, app>>, c.op = "gzclose"
  PROVE  Inv'
<1>1. c.pc = "comp" /\ c.op = "gzclose"
      /\ c' = [c EXCEPT !.pc = IF c.back = "closing" THEN "closing" ELSE "close", !.ret = g'.err]
      /\ faults' = faults + 1 /\ faults + 1 <= MaxFaults /\ Faults # {}
      /\ e \in Errors /\ Fatal(e) /\ e # "OK" /\ g' = gz_error(g, e)
  BY DEF Fail, Fatal, Inv, ControlInv, PlaceInv
<1>2. /\ file' = file /\ nin' = nin /\ out' = out /\ d' = d /\ acc' = acc /\ app' = app
      /\ acked' = acked
  BY DEF Fail, Fatal
<1>3. TypeInv /\ ControlInv /\ EmptyInv /\ HurtInv /\ InputInv /\ CallInv /\ DataInv /\ FinInv
      /\ ShapeInv /\ DrainInv
  BY DEF Inv
<1>4. c \in CallStates
  BY <1>1, <1>3 DEF TypeInv, ControlInv, PlaceInv, ArgInv, Zeroing, CallStates
<1>5. /\ g' \in States /\ g'.mode = g.mode /\ g'.size = g.size /\ g'.direct = g.direct
         /\ g'.data = g.data
      /\ g'.pos = g.pos /\ g'.in = g.in /\ g'.want = g.want /\ g'.err = e /\ g'.seek = g.seek
      /\ faults' > 0 /\ faults' \in 0 .. MaxFaults
      /\ (g.seek => c.pc = "init") /\ (c.pc = "init" => g.size = 0)
  <2>1. g \in States /\ g.data = <<>> /\ faults \in 0 .. MaxFaults /\ MaxFaults \in Nat
    BY <1>3, UsesAssumption DEF TypeInv, MaxFaults
  <2>2. g' = [g EXCEPT !.err = e, !.data = <<>>]
    BY <1>1, <2>1 DEF gz_error
  <2>3. /\ g' \in States /\ g'.mode = g.mode /\ g'.size = g.size /\ g'.direct = g.direct
           /\ g'.data = g.data
        /\ g'.pos = g.pos /\ g'.in = g.in /\ g'.want = g.want /\ g'.err = e /\ g'.seek = g.seek
    BY <1>1, <2>1, <2>2 DEF States
  <2>4. (g.seek => c.pc = "init") /\ (c.pc = "init" => g.size = 0)
    BY <1>1, <1>3 DEF ControlInv, PlaceInv
  <2> QED  BY <1>1, <2>1, <2>3, <2>4
<1>6. /\ c' \in CallStates /\ c'.pc = (IF c.back = "closing" THEN "closing" ELSE "close")
      /\ c'.op = c.op /\ c'.main = c.main /\ c'.back = c.back /\ c'.left = c.left
      /\ c'.all = c.all /\ c'.arg = c.arg /\ c'.flush = c.flush /\ c'.dret = c.dret
      /\ c'.zeroed = c.zeroed /\ c'.rest = c.rest /\ c'.ret = e /\ c'.par = c.par
  <2> DEFINE p == IF c.back = "closing" THEN "closing" ELSE "close"
  <2>1. p \in Pcs
    BY DEF Pcs
  <2>2. c' = [c EXCEPT !.pc = p, !.ret = e]
    BY <1>1, <1>5
  <2> HIDE DEF p
  <2>3. /\ c' \in CallStates /\ c'.pc = p /\ c'.op = c.op /\ c'.main = c.main
        /\ c'.back = c.back /\ c'.left = c.left /\ c'.all = c.all /\ c'.arg = c.arg
        /\ c'.flush = c.flush /\ c'.dret = c.dret /\ c'.zeroed = c.zeroed /\ c'.rest = c.rest
        /\ c'.ret = e /\ c'.par = c.par
    BY <1>1, <1>4, <2>1, <2>2, ZenonT(60) DEF CallStates
  <2> QED  BY <2>3 DEF p
<1>7. Sent' = Sent /\ Data' = Data
  BY <1>2, <1>5 DEF Sent, Data
<1>8. TypeInv'
  BY <1>2, <1>3, <1>6, <1>5, UsesAssumption DEF TypeInv, MaxCalls, MaxFaults
<1>9. ControlInv'
  <2>1. IdleInv'
    BY <1>6 DEF IdleInv
  <2>2. PlaceInv'
    BY <1>1, <1>3, <1>4, <1>6, <1>5 DEF ControlInv, PlaceInv, Zeroing, At, Mains
  <2>3. ArgInv'
    BY <1>1, <1>2, <1>3, <1>4, <1>6, <1>5
       DEF ControlInv, ArgInv, PlaceInv, Zeroing, At, Mains, Flushes, Seeks
  <2> QED  BY <2>1, <2>2, <2>3 DEF ControlInv
<1>10. EmptyInv'
  BY <1>2, <1>3, <1>5 DEF EmptyInv
<1>11. HurtInv'
  BY <1>1, <1>2, <1>6, <1>5, <1>3 DEF HurtInv, Faults
<1>12. InputInv'
  BY <1>6, <1>5 DEF InputInv, Zeroing, At
<1>13. CallInv'
  BY <1>1, <1>2, <1>3, <1>4, <1>6, <1>5 DEF CallInv, EndsIn, At, ControlInv, PlaceInv
<1>14. DataInv'
  <2>1. PICK s \in Seq(Int) : Data \o s = acc /\ (s = c.rest \/ Broken)
    BY <1>3 DEF DataInv
  <2>2. CASE g.size = 0
    <3>1. s = c.rest
      BY <1>1, <2>1, <2>2 DEF Broken
    <3>2. c.rest = <<>>
      <4>1. c.rest \in Seq(Int) /\ Len(c.rest) <= 0
        BY <1>3, <1>4, <2>2 DEF CallInv, CallStates
      <4> QED  BY <4>1, EmptyInt
    <3>3. c'.rest = <<>>
      BY <1>6, <3>2
    <3>4. \E x \in Seq(Int) : Data' \o x = acc' /\ (x = c'.rest \/ Broken')
      BY <1>2, <1>7, <2>1, <3>1, <3>2, <3>3
    <3> QED  BY <1>2, <1>3, <1>7, <3>4 DEF DataInv
  <2>3. CASE g.size # 0
    <3>1. Broken'
      BY <1>1, <1>3, <1>6, <1>5, <2>3 DEF Broken, Closing_, ControlInv, PlaceInv
    <3>2. \E x \in Seq(Int) : Data' \o x = acc' /\ (x = c'.rest \/ Broken')
      BY <1>2, <1>7, <2>1, <3>1
    <3> QED  BY <1>2, <1>3, <1>7, <3>2 DEF DataInv
  <2> QED  BY <2>2, <2>3
<1>15. FinInv'
  <2>1. d.fin => c.flush = "FINISH" /\ c.pc = "comp" /\ d.held = <<>> /\ g.in = <<>>
    BY <1>1, <1>3 DEF FinInv
  <2> QED  BY <1>1, <1>2, <1>3, <1>6, <1>5, <2>1
           DEF FinInv, ControlInv, PlaceInv, ArgInv, At, Flushes
<1>16. ShapeInv'
  BY <1>2, <1>3, <1>7, <1>5 DEF ShapeInv, Within, WellFormed
<1>17. DrainInv'
  BY <1>1, <1>6 DEF DrainInv
<1> QED  BY <1>8, <1>9, <1>10, <1>11, <1>12, <1>13, <1>14, <1>15, <1>16, <1>17 DEF Inv

\* A failure: memory that is not there, a write() that fails.
LEMMA FailedKeeps ==
  ASSUME Inv, c.pc \in {"init", "comp"}, NEW e \in Errors, Fatal(e), NEW what, MayFail(what),
         g' = gz_error(g, e), Fail, UNCHANGED <<file, nin, out, d, acc, app>>
  PROVE  Inv'
<1>1. faults' = faults + 1 /\ faults < MaxFaults /\ Faults # {}
  BY DEF MayFail
<1>2. faults + 1 <= MaxFaults
  BY <1>1, UsesAssumption DEF Inv, TypeInv, MaxFaults
<1> QED  BY <1>1, <1>2, FailedCallKeeps, FailedCloseKeeps

\* There is no memory for the buffers.
LEMMA InitNoMemoryKeeps ==
  ASSUME Inv, InitNoMemory
  PROVE  Inv'
<1>1. "MEM_ERROR" \in Errors /\ Fatal("MEM_ERROR")
  BY DEF Errors, Fatal
<1> QED  BY <1>1, FailedKeeps DEF InitNoMemory

\* gz_comp calls gz_init, which may fail.
LEMMA CompInitKeeps ==
  ASSUME Inv, CompInit
  PROVE  Inv'
<1>1. "MEM_ERROR" \in Errors /\ Fatal("MEM_ERROR")
  BY DEF Errors, Fatal
<1>2. CASE gz_init(g) /\ UNCHANGED <<c, ret, acked, faults>>
  BY <1>2, AllocKeeps DEF CompInit
<1>3. CASE /\ MayFail("mem") /\ g' = gz_error(g, "MEM_ERROR") /\ Fail
           /\ UNCHANGED <<out, d>>
  BY <1>1, <1>3, FailedKeeps DEF CompInit
<1> QED  BY <1>2, <1>3 DEF CompInit

\* write() fails: what it was given stays in the buffer.
LEMMA WriteErrorKeeps ==
  ASSUME Inv, WriteError
  PROVE  Inv'
<1>1. "ERRNO" \in Errors /\ Fatal("ERRNO")
  BY DEF Errors, Fatal
<1>2. c.pc = "comp"
  BY DEF WriteError, Compress
<1> QED  BY <1>1, <1>2, FailedKeeps DEF WriteError

\* deflate() is not called again once it has been told to end the stream.
LEMMA CompCorruptNever ==
  ASSUME Inv
  PROVE  ~CompCorrupt
BY DEF CompCorrupt, Compress, Inv, FinInv

-----------------------------------------------------------------------------
(* gz_comp: write() and deflate().                                         *)

\* Transparent writing of k bytes.
LEMMA CompDirectSomeKeeps ==
  ASSUME NEW k \in 1 .. Len(g.in), Inv, c.pc = "comp", g.size # 0, g.direct, c' = c,
         file' = file \o Raw(g.in, k), g' = [g EXCEPT !.in = SubSeq(g.in, k + 1, Len(g.in))],
         nin' = [nin EXCEPT !.off = @ + k], UNCHANGED <<out, d, ret, acc, acked, faults, app>>
  PROVE  Inv'
<1>1. /\ c.pc = "comp" /\ g.size # 0 /\ g.direct /\ c' = c /\ k \in 1 .. Len(g.in)
      /\ file' = file \o Raw(g.in, k) /\ g' = [g EXCEPT !.in = SubSeq(g.in, k + 1, Len(g.in))]
      /\ nin' = [nin EXCEPT !.off = @ + k]
  BY DEF Inv
<1>2. /\ out' = out /\ d' = d /\ ret' = ret /\ acc' = acc /\ acked' = acked /\ faults' = faults
      /\ app' = app
  BY DEF Inv
<1>3. TypeInv /\ ControlInv /\ EmptyInv /\ HurtInv /\ InputInv /\ CallInv /\ DataInv /\ FinInv
      /\ ShapeInv /\ DrainInv
  BY DEF Inv
<1>4. c \in CallStates
  BY <1>1, <1>3 DEF TypeInv, ControlInv, PlaceInv, ArgInv, Zeroing, CallStates
<1>5. /\ c' \in CallStates /\ c'.pc = c.pc /\ c'.op = c.op /\ c'.main = c.main /\ c'.back = c.back
      /\ c'.left = c.left /\ c'.all = c.all /\ c'.arg = c.arg /\ c'.flush = c.flush
      /\ c'.dret = c.dret /\ c'.zeroed = c.zeroed /\ c'.rest = c.rest /\ c'.ret = c.ret
      /\ c'.par = c.par
  BY <1>1, <1>4
<1>6. /\ g' \in States /\ g'.mode = g.mode /\ g'.size = g.size /\ g'.direct = g.direct
         /\ g'.data = g.data
      /\ g'.pos = g.pos /\ g'.want = g.want /\ g'.seek = g.seek /\ g'.err = g.err
      /\ g'.in = SubSeq(g.in, k + 1, Len(g.in)) /\ nin' \in [user : BOOLEAN, off : Nat]
      /\ file' \in Seq(Cells) /\ Decoded(file') \o g'.in = Decoded(file) \o g.in
  <2>1. g \in States /\ g.in \in Seq(Int) /\ Len(g.in) \in Nat /\ file \in Seq(Cells)
        /\ nin \in [user : BOOLEAN, off : Nat]
    BY <1>3, EmptyInt DEF TypeInv, States
  <2>2. k \in 0 .. Len(g.in) /\ k \in Nat
    BY <1>1, <2>1
  <2>3. SubSeq(g.in, k + 1, Len(g.in)) \in Seq(Int)
    BY <2>1, <2>2, CutInt
  <2>4. file \o Raw(g.in, k) \in Seq(Cells)
        /\ Decoded(file \o Raw(g.in, k)) \o SubSeq(g.in, k + 1, Len(g.in)) = Decoded(file) \o g.in
    BY <2>1, <2>2, DataRaw
  <2>5. /\ g' \in States /\ g'.mode = g.mode /\ g'.size = g.size /\ g'.direct = g.direct
           /\ g'.data = g.data
        /\ g'.pos = g.pos /\ g'.want = g.want /\ g'.seek = g.seek /\ g'.err = g.err
          /\ g'.in = SubSeq(g.in, k + 1, Len(g.in))
    BY <1>1, <2>1, <2>3, ZenonT(60) DEF States
  <2>6. nin' \in [user : BOOLEAN, off : Nat]
    <3>1. nin.off + k \in Nat
      BY <2>1, <2>2
    <3>2. nin' = [nin EXCEPT !.off = nin.off + k]
      BY <1>1
    <3> QED  BY <2>1, <3>1, <3>2
  <2> QED  BY <1>1, <2>4, <2>5, <2>6
<1>7. Data' = Data
  <2>1. d.pend = <<>> /\ d.held = <<>> /\ out.cells = <<>>
    BY <1>1, <1>3 DEF EmptyInv
  <2>2. Sent = file /\ Sent' = file' /\ Decoded(file) \in Seq(Int) /\ Decoded(file') \in Seq(Int)
    <3>1. file \in Seq(Cells) /\ file' \in Seq(Cells)
      BY <1>3, <1>6 DEF TypeInv
    <3>2. Sent = file /\ Sent' = file'
      BY <1>2, <2>1, <3>1, EmptyCells DEF Sent
    <3> QED  BY <3>1, <3>2, DecodedType
  <2>3. Data = Decoded(file) \o g.in /\ Data' = Decoded(file') \o g'.in
    BY <1>2, <2>1, <2>2, EmptyInt DEF Data
  <2> QED  BY <1>6, <2>3
<1>8. TypeInv'
  BY <1>2, <1>3, <1>5, <1>6 DEF TypeInv, MaxCalls, MaxFaults
<1>9. ControlInv'
  <2>1. IdleInv'
    BY <1>1, <1>4, <1>5 DEF IdleInv, Mains
  <2>2. PlaceInv'
    <3>1. c' = c /\ g'.seek = g.seek /\ g'.size = g.size
      BY <1>1, <1>6
    <3> QED  BY <1>3, <3>1 DEF ControlInv, PlaceInv, Zeroing, At
  <2>3. ArgInv'
    <3>1. c' = c /\ g'.seek = g.seek /\ app' = app
      BY <1>1, <1>6
    <3> QED  BY <1>3, <3>1 DEF ControlInv, ArgInv, Zeroing, At, Flushes, Seeks
  <2> QED  BY <2>1, <2>2, <2>3 DEF ControlInv
<1>10. EmptyInv'
  BY <1>1, <1>2, <1>3, <1>6 DEF EmptyInv
<1>11. HurtInv'
  BY <1>1, <1>2, <1>3, <1>5, <1>6 DEF HurtInv, Faults
<1>12. InputInv'
  BY <1>1, <1>5 DEF InputInv, Zeroing, At
<1>13. CallInv'
  BY <1>1, <1>2, <1>3, <1>5, <1>6 DEF CallInv, EndsIn, At
<1>14. DataInv'
  <2>1. Broken => Broken'
    BY <1>1, <1>2, <1>5, <1>6 DEF Broken, Closing_, At
  <2> QED  BY <1>2, <1>3, <1>5, <1>7, <2>1 DEF DataInv
<1>15. FinInv'
  BY <1>1, <1>2, <1>3, <1>5 DEF FinInv, EmptyInv
<1>16. ShapeInv'
  BY <1>1, <1>6 DEF ShapeInv
<1>17. DrainInv'
  BY <1>1, <1>5 DEF DrainInv
<1> QED  BY <1>8, <1>9, <1>10, <1>11, <1>12, <1>13, <1>14, <1>15, <1>16, <1>17 DEF Inv

\* Transparent writing.
LEMMA CompDirectKeeps ==
  ASSUME Inv, CompDirect
  PROVE  Inv'
<1>1. PICK k \in 1 .. Len(g.in) :
        /\ file' = file \o [i \in 1 .. k |-> Cell("R", <<g.in[i]>>)]
        /\ g' = [g EXCEPT !.in = SubSeq(@, k + 1, Len(@))]
        /\ nin' = [nin EXCEPT !.off = @ + k]
  BY DEF CompDirect
<1>2. file' = file \o Raw(g.in, k)
  BY <1>1 DEF Raw
<1>3. g' = [g EXCEPT !.in = SubSeq(g.in, k + 1, Len(g.in))]
  BY <1>1
<1> QED  BY <1>1, <1>2, <1>3, CompDirectSomeKeeps DEF CompDirect

\* It ends when the input is empty.
LEMMA CompDirectEndsKeeps ==
  ASSUME Inv, CompDirectEnds
  PROVE  Inv'
<1>1. c' = [c EXCEPT !.pc = c.back] /\ c.pc = "comp" /\ g.size # 0 /\ g.direct /\ g.in = <<>>
  BY DEF CompDirectEnds
<1>2. /\ file' = file /\ g' = g /\ nin' = nin /\ out' = out /\ d' = d /\ ret' = ret /\ acc' = acc
      /\ acked' = acked /\ faults' = faults /\ app' = app
  BY DEF CompDirectEnds
<1>3. TypeInv /\ ControlInv /\ EmptyInv /\ HurtInv /\ InputInv /\ CallInv /\ DataInv /\ FinInv
      /\ ShapeInv /\ DrainInv
  BY DEF Inv
<1>4. c \in CallStates /\ c.back \in {"zeros", "put", "wrote", "moved", "params", "closing"}
  BY <1>1, <1>3 DEF TypeInv, ControlInv, PlaceInv, ArgInv, Zeroing, CallStates
<1>5. /\ c' \in CallStates /\ c'.pc = c.back /\ c'.op = c.op /\ c'.main = c.main
      /\ c'.back = c.back /\ c'.left = c.left /\ c'.all = c.all /\ c'.arg = c.arg
      /\ c'.flush = c.flush /\ c'.dret = c.dret /\ c'.zeroed = c.zeroed /\ c'.rest = c.rest
      /\ c'.ret = c.ret /\ c'.par = c.par
  BY <1>1, <1>4 DEF CallStates, Pcs, Mains, Backs
<1>6. Sent' = Sent /\ Data' = Data
  BY <1>2 DEF Sent, Data
<1>7. TypeInv'
  BY <1>1, <1>2, <1>3, <1>5 DEF TypeInv, MaxCalls, MaxFaults
<1>8. ControlInv'
  <2>1. IdleInv'
    BY <1>1, <1>4, <1>5 DEF IdleInv, Mains
  <2>2. PlaceInv'
    BY <1>1, <1>2, <1>3, <1>4, <1>5 DEF ControlInv, PlaceInv, Zeroing, At, Mains
  <2>3. ArgInv'
    BY <1>1, <1>2, <1>3, <1>4, <1>5
       DEF ControlInv, ArgInv, PlaceInv, Zeroing, At, Mains, Flushes, Seeks
  <2> QED  BY <2>1, <2>2, <2>3 DEF ControlInv
<1>9. EmptyInv'
  BY <1>2, <1>3 DEF EmptyInv
<1>10. HurtInv'
  BY <1>1, <1>2, <1>3, <1>4, <1>5 DEF HurtInv, Faults
<1>11. InputInv'
  BY <1>1, <1>2, <1>3, <1>4, <1>5 DEF InputInv, Zeroing, At, Mains
<1>12. CallInv'
  BY <1>1, <1>2, <1>3, <1>4, <1>5
     DEF CallInv, EndsIn, At, CallStates, TypeInv, ControlInv, PlaceInv, ArgInv, Zeroing, Mains
<1>13. DataInv'
  BY <1>1, <1>2, <1>3, <1>4, <1>5, <1>6 DEF DataInv, Broken, Closing_, At
<1>14. FinInv'
  BY <1>1, <1>2, <1>3, <1>4, <1>5 DEF FinInv, EmptyInv, Flushes
<1>15. ShapeInv'
  BY <1>1, <1>2, <1>3, <1>4, <1>5, <1>6 DEF ShapeInv, Within, WellFormed
<1>16. DrainInv'
  BY <1>1, <1>2, <1>3, <1>4, <1>5, <1>6
     DEF DrainInv, Drained, Finished, FlushOK, EmptyInv, Flushes, Mains
<1> QED  BY <1>7, <1>8, <1>9, <1>10, <1>11, <1>12, <1>13, <1>14, <1>15, <1>16 DEF Inv

\* write() takes k cells of the output buffer.
LEMMA CompWriteSomeKeeps ==
  ASSUME NEW k \in 1 .. Len(out.cells), Inv, c.pc = "comp", g.size # 0, ~g.direct, c' = c,
         file' = file \o SubSeq(out.cells, 1, k),
         out' = [out EXCEPT !.cells = SubSeq(out.cells, k + 1, Len(out.cells))],
         UNCHANGED <<g, nin, d, ret, acc, acked, faults, app>>
  PROVE  Inv'
<1>1. /\ c.pc = "comp" /\ g.size # 0 /\ ~g.direct /\ c' = c /\ k \in 1 .. Len(out.cells)
      /\ file' = file \o SubSeq(out.cells, 1, k)
      /\ out' = [out EXCEPT !.cells = SubSeq(out.cells, k + 1, Len(out.cells))]
  BY DEF Inv
<1>2. /\ g' = g /\ nin' = nin /\ d' = d /\ ret' = ret /\ acc' = acc /\ acked' = acked
      /\ faults' = faults /\ app' = app
  BY DEF Inv
<1>3. TypeInv /\ ControlInv /\ EmptyInv /\ HurtInv /\ InputInv /\ CallInv /\ DataInv /\ FinInv
      /\ ShapeInv /\ DrainInv
  BY DEF Inv
<1>4. c \in CallStates
  BY <1>1, <1>3 DEF TypeInv, ControlInv, PlaceInv, ArgInv, Zeroing, CallStates
<1>5. /\ c' \in CallStates /\ c'.pc = c.pc /\ c'.op = c.op /\ c'.main = c.main /\ c'.back = c.back
      /\ c'.left = c.left /\ c'.all = c.all /\ c'.arg = c.arg /\ c'.flush = c.flush
      /\ c'.dret = c.dret /\ c'.zeroed = c.zeroed /\ c'.rest = c.rest /\ c'.ret = c.ret
      /\ c'.par = c.par
  BY <1>1, <1>4
<1>6. /\ file' \in Seq(Cells) /\ out' \in [cells : Seq(Cells), avail : Nat] /\ out.cells # <<>>
      /\ out'.cells = SubSeq(out.cells, k + 1, Len(out.cells)) /\ out'.avail = out.avail
      /\ Len(out'.cells) + out'.avail <= g.size
  <2>1. file \in Seq(Cells) /\ out \in [cells : Seq(Cells), avail : Nat] /\ Len(out.cells) \in Nat
        /\ Len(out.cells) + out.avail <= g.size /\ g.size \in Nat
    BY <1>3, EmptyCells DEF TypeInv, States
  <2>2. k \in 0 .. Len(out.cells) /\ out.cells # <<>> /\ k \in Nat
    BY <1>1, <2>1, EmptyCells
  <2> DEFINE a == SubSeq(out.cells, 1, k)
             b == SubSeq(out.cells, k + 1, Len(out.cells))
  <2>3. a \in Seq(Cells) /\ b \in Seq(Cells) /\ Len(b) = Len(out.cells) - k
    BY <2>1, <2>2, CutCells
  <2>4. out' = [out EXCEPT !.cells = b] /\ file' = file \o a
    BY <1>1
  <2> HIDE DEF a, b
  <2>5. out'.cells = b /\ out'.avail = out.avail /\ out' \in [cells : Seq(Cells), avail : Nat]
    BY <2>1, <2>3, <2>4
  <2>6. Len(out'.cells) + out'.avail <= g.size
    <3>1. out.avail \in Nat /\ k \in Nat /\ Len(out'.cells) = Len(out.cells) - k
      BY <2>1, <2>2, <2>3, <2>5
    <3> DEFINE x == Len(out.cells)
               y == Len(out'.cells)
    <3>2. x \in Nat /\ x + out.avail <= g.size /\ y = x - k /\ out'.avail = out.avail
      BY <2>1, <2>5, <3>1
    <3>3. g.size \in Nat
      BY <2>1
    <3> HIDE DEF x, y
    <3>4. y + out'.avail <= g.size
      BY <3>1, <3>2, <3>3, SMTT(40)
    <3> QED  BY <3>4 DEF y
  <2>7. file' \in Seq(Cells)
    BY <2>1, <2>3, <2>4, CatCellsType
  <2> QED  BY <2>2, <2>5, <2>6, <2>7 DEF b
<1>7. Sent' = Sent /\ Data' = Data
  <2>1. file \in Seq(Cells) /\ out.cells \in Seq(Cells) /\ k \in 0 .. Len(out.cells)
    BY <1>1, <1>3, EmptyCells DEF TypeInv
  <2>2. file' \o out'.cells = file \o out.cells
    <3>1. (file \o SubSeq(out.cells, 1, k)) \o SubSeq(out.cells, k + 1,
          Len(out.cells)) = file \o out.cells
      BY <2>1, SentWritten, Zenon
    <3> QED  BY <1>1, <1>6, <3>1, Zenon
  <2> QED  BY <1>2, <2>2 DEF Sent, Data
<1>8. TypeInv'
  BY <1>2, <1>3, <1>5, <1>6 DEF TypeInv, MaxCalls, MaxFaults
<1>9. ControlInv'
  <2>1. IdleInv'
    BY <1>1, <1>4, <1>5 DEF IdleInv, Mains
  <2>2. PlaceInv'
    BY <1>1, <1>2, <1>3, <1>4, <1>5 DEF ControlInv, PlaceInv, Zeroing, At, Mains
  <2>3. ArgInv'
    BY <1>1, <1>2, <1>3, <1>4, <1>5
       DEF ControlInv, ArgInv, PlaceInv, Zeroing, At, Mains, Flushes, Seeks
  <2> QED  BY <2>1, <2>2, <2>3 DEF ControlInv
<1>10. EmptyInv'
  BY <1>1, <1>2, <1>3 DEF EmptyInv
<1>11. HurtInv'
  BY <1>1, <1>2, <1>3, <1>5 DEF HurtInv, Faults
<1>12. InputInv'
  BY <1>1, <1>5 DEF InputInv, Zeroing, At
<1>13. CallInv'
  BY <1>1, <1>2, <1>3, <1>5 DEF CallInv, EndsIn, At
<1>14. DataInv'
  BY <1>1, <1>2, <1>3, <1>5, <1>7 DEF DataInv, Broken, Closing_, At
<1>15. FinInv'
  BY <1>1, <1>2, <1>3, <1>5, <1>6 DEF FinInv, Flushes
<1>16. ShapeInv'
  BY <1>2, <1>3, <1>7 DEF ShapeInv, Within, WellFormed
<1>17. DrainInv'
  BY <1>1, <1>5 DEF DrainInv
<1> QED  BY <1>8, <1>9, <1>10, <1>11, <1>12, <1>13, <1>14, <1>15, <1>16, <1>17 DEF Inv

\* write() takes some cells of the output buffer.
LEMMA CompWriteKeeps ==
  ASSUME Inv, CompWrite
  PROVE  Inv'
<1>1. PICK k \in 1 .. Len(out.cells) :
        /\ file' = file \o SubSeq(out.cells, 1, k)
        /\ out' = [out EXCEPT !.cells = SubSeq(@, k + 1, Len(@))]
  BY DEF CompWrite
<1>2. out' = [out EXCEPT !.cells = SubSeq(out.cells, k + 1, Len(out.cells))]
  BY <1>1
<1> QED  BY <1>1, <1>2, CompWriteSomeKeeps DEF CompWrite, Compress, Compressing

\* A call of deflate() leaves what is on its way to the file as it is.
LEMMA Deflating ==
  ASSUME TypeInv, ShapeInv, ~g.direct, NEW room \in Nat, Len(out.cells) + room <= g.size, NEW r,
         NEW flush, Deflated(d, g.in, room, flush, r), file' = file,
         g' = [g EXCEPT !.in = SubSeq(g.in, r.m + 1, Len(g.in))],
         nin' = [nin EXCEPT !.off = @ + r.m],
         out' = [cells |-> out.cells \o r.out, avail |-> room - Len(r.out)], d' = r.e
  PROVE  /\ g' \in States /\ g'.mode = g.mode /\ g'.size = g.size /\ g'.direct = g.direct
         /\ g'.data = g.data /\ g'.pos = g.pos /\ g'.want = g.want /\ g'.seek = g.seek
         /\ g'.err = g.err /\ g'.in = SubSeq(g.in, r.m + 1, Len(g.in))
         /\ nin' \in [user : BOOLEAN, off : Nat]
         /\ out' \in [cells : Seq(Cells), avail : Nat] /\ Len(out'.cells) + out'.avail <= g.size
         /\ out'.cells = out.cells \o r.out /\ out'.avail = room - Len(r.out)
         /\ d' \in DeflateStates /\ d'.live = d.live
         /\ Data' = Data /\ ShapeInv'
<1>1. /\ g \in States /\ g.in \in Seq(Int) /\ Len(g.in) \in Nat
         /\ nin \in [user : BOOLEAN, off : Nat]
      /\ out.cells \in Seq(Cells) /\ Len(out.cells) \in Nat /\ d \in DeflateStates
         /\ d.held \in Seq(Int)
      /\ d.pend \in Seq(Cells) /\ file \in Seq(Cells) /\ g.size \in Nat
  BY EmptyInt, EmptyCells DEF TypeInv, States, DeflateStates
<1>2. /\ r.m \in 0 .. Len(g.in) /\ r.out \in Seq(Cells) /\ Len(r.out) <= room
         /\ r.e \in DeflateStates
      /\ r.e.live = d.live
  BY DEF Deflated
<1>3. PICK new : Grown(d, g.in, r, new)
  BY DEF Deflated
<1>4. /\ new \in Seq(Cells) /\ r.out \o r.e.pend = d.pend \o new
      /\ Decoded(new) \o r.e.held = d.held \o SubSeq(g.in, 1, r.m)
      /\ \/ new = <<>> /\ r.e.head = d.head /\ r.e.fin = d.fin
         \/ new = <<>> /\ d.fin /\ r.e.fin
         \/ ~d.fin /\ Shaped(d.head, new, r.e.fin) /\ r.e.head
  BY <1>3 DEF Grown
<1>5. r.m \in Nat /\ r.e.pend \in Seq(Cells) /\ r.e.held \in Seq(Int) /\ Len(r.out) \in Nat
      /\ r.e.fin \in BOOLEAN /\ r.e.head \in BOOLEAN /\ d.fin \in BOOLEAN /\ d.head \in BOOLEAN
  <2>1. r.m \in Nat
    BY <1>1, <1>2
  <2>2. Len(r.out) \in Nat
    BY <1>2, EmptyCells
  <2>3. r.e.pend \in Seq(Cells) /\ r.e.held \in Seq(Int) /\ r.e.fin \in BOOLEAN
        /\ r.e.head \in BOOLEAN
    BY <1>2 DEF DeflateStates
  <2>4. d.fin \in BOOLEAN /\ d.head \in BOOLEAN
    BY <1>1 DEF DeflateStates
  <2> QED  BY <2>1, <2>2, <2>3, <2>4
<1>6. SubSeq(g.in, r.m + 1, Len(g.in)) \in Seq(Int)
  BY <1>1, <1>2, CutInt
<1>7. /\ g' \in States /\ g'.mode = g.mode /\ g'.size = g.size /\ g'.direct = g.direct
      /\ g'.data = g.data /\ g'.pos = g.pos /\ g'.want = g.want /\ g'.seek = g.seek
      /\ g'.err = g.err /\ g'.in = SubSeq(g.in, r.m + 1, Len(g.in))
  BY <1>1, <1>6 DEF States
<1>8. nin' \in [user : BOOLEAN, off : Nat]
  <2> DEFINE m == r.m
  <2>1. nin.off \in Nat /\ m \in Nat
    BY <1>1, <1>5
  <2>2. nin' = [nin EXCEPT !.off = nin.off + m]
    OBVIOUS
  <2> HIDE DEF m
  <2>3. nin.off + m \in Nat
    BY <2>1
  <2> QED  BY <1>1, <2>2, <2>3
<1>9. /\ out'.cells = out.cells \o r.out /\ out'.avail = room - Len(r.out)
      /\ out' \in [cells : Seq(Cells), avail : Nat] /\ Len(out'.cells) + out'.avail <= g.size
  <2>1. out.cells \o r.out \in Seq(Cells) /\ Len(out.cells \o r.out) = Len(out.cells) + Len(r.out)
    BY <1>1, <1>2, ConcatProperties
  <2>2. room - Len(r.out) \in Nat
    BY <1>2, <1>5
  <2>3. out'.cells = out.cells \o r.out /\ out'.avail = room - Len(r.out)
        /\ out' \in [cells : Seq(Cells), avail : Nat]
    BY <2>1, <2>2
  <2>4. Len(out'.cells) + out'.avail = Len(out.cells) + room
    <3> DEFINE x == Len(out'.cells)
               y == Len(out.cells)
               z == Len(r.out)
    <3>1. x = y + z /\ out'.avail = room - z
      BY <2>1, <2>3
    <3>2. y \in Nat /\ z \in Nat
      BY <1>1, <1>5
    <3> HIDE DEF x, y, z
    <3>3. x + out'.avail = y + room
      BY <3>1, <3>2
    <3> QED  BY <3>3 DEF x, y
  <2> QED  BY <2>3, <2>4
<1>10. Sent' = Sent \o new /\ Sent \in Seq(Cells)
  <2>1. (file \o (out.cells \o r.out)) \o r.e.pend = ((file \o out.cells) \o d.pend) \o new
    <3>1. file \in Seq(Cells) /\ out.cells \in Seq(Cells) /\ d.pend \in Seq(Cells)
          /\ r.out \in Seq(Cells)
          /\ r.e.pend \in Seq(Cells) /\ new \in Seq(Cells)
      BY <1>1, <1>2, <1>4, <1>5
    <3>2. r.out \o r.e.pend = d.pend \o new
      BY <1>4
    <3>3. SentGrowsTo(file, out.cells, d.pend, r.out, r.e.pend, new)
      BY <3>1, <3>2, SentGrows, Zenon
    <3> QED  BY <3>3 DEF SentGrowsTo
  <2>2. Sent' = (file \o (out.cells \o r.out)) \o r.e.pend
    BY <1>9 DEF Sent
  <2> QED  BY <2>1, <2>2, DataType DEF Sent
<1>11. Data' = Data
  <2>1. (Decoded(Sent \o new) \o r.e.held) \o SubSeq(g.in, r.m + 1,
        Len(g.in)) = (Decoded(Sent) \o d.held) \o g.in
    <3>1. Sent \in Seq(Cells) /\ new \in Seq(Cells) /\ d.held \in Seq(Int) /\ r.e.held \in Seq(Int)
          /\ g.in \in Seq(Int) /\ r.m \in 0 .. Len(g.in)
      BY <1>1, <1>2, <1>4, <1>5, <1>10
    <3>2. Decoded(new) \o r.e.held = d.held \o SubSeq(g.in, 1, r.m)
      BY <1>4
    <3>3. DataGrowsTo(Sent, new, d.held, r.e.held, g.in, r.m)
      BY <3>1, <3>2, DataGrows, Zenon
    <3> QED  BY <3>3 DEF DataGrowsTo
  <2>2. Data' = (Decoded(Sent \o new) \o r.e.held) \o SubSeq(g.in, r.m + 1, Len(g.in))
    BY <1>7, <1>10 DEF Data
  <2> QED  BY <2>1, <2>2 DEF Data
<1>12. ShapeInv'
  <2>1. WellFormed(Sent) /\ IF d.fin THEN Sent # <<>> /\ ~Within(Sent) ELSE d.head <=> Within(Sent)
    BY DEF ShapeInv
  <2> DEFINE t == Sent \o new
  <2>2. WellFormed(t) /\ IF r.e.fin THEN t # <<>> /\ ~Within(t) ELSE r.e.head <=> Within(t)
    <3>1. CASE new = <<>> /\ ((r.e.head = d.head /\ r.e.fin = d.fin) \/ (d.fin /\ r.e.fin))
      <4>1. t = Sent
        BY <1>10, <3>1, EmptyCells
      <4> HIDE DEF t
      <4> QED  BY <2>1, <3>1, <4>1
    <3>2. CASE ~d.fin /\ Shaped(d.head, new, r.e.fin) /\ r.e.head
      <4>1. WellFormed(t) /\ t # <<>> /\ (r.e.fin <=> ~Within(t))
        BY <1>4, <1>5, <1>10, <2>1, <3>2, ShapeGrows, SMTT(40)
      <4> HIDE DEF t
      <4> QED  BY <1>5, <3>2, <4>1
    <3> QED  BY <1>4, <3>1, <3>2
  <2>3. Sent' = t
    BY <1>10
  <2> HIDE DEF t
  <2>4. ShapeInv' <=> (~g'.direct => /\ WellFormed(t)
                                     /\ IF d'.fin THEN t # <<>>
                                        /\ ~Within(t) ELSE d'.head <=> Within(t))
    BY <2>3 DEF ShapeInv, Within, WellFormed
  <2> QED  BY <2>2, <2>4
<1> QED  BY <1>2, <1>7, <1>8, <1>9, <1>11, <1>12

\* deflate() has put something out: it is called again.
LEMMA DeflateMoreKeeps ==
  ASSUME NEW r, NEW room \in Nat, Inv, c.pc = "comp", g.size # 0, ~g.direct, room > 0,
         Len(out.cells) + room <= g.size, Deflated(d, g.in, room, c.flush, r),
         g' = [g EXCEPT !.in = SubSeq(g.in, r.m + 1, Len(g.in))],
         nin' = [nin EXCEPT !.off = @ + r.m],
         out' = [cells |-> out.cells \o r.out, avail |-> room - Len(r.out)],
         d.fin => c.flush = "FINISH",
         d' = r.e, c' = [c EXCEPT !.dret = r.ret],
         UNCHANGED <<file, ret, acc, acked, faults, app>>
  PROVE  Inv'
<1>1. /\ c.pc = "comp" /\ g.size # 0 /\ ~g.direct /\ Deflated(d, g.in, room, c.flush, r)
      /\ (d.fin => c.flush = "FINISH") /\ r.ret \in {"OK", "STREAM_END"}
      /\ c' = [c EXCEPT !.dret = r.ret] /\ d' = r.e
  BY DEF Deflated
<1>2. /\ file' = file /\ ret' = ret /\ acc' = acc /\ acked' = acked /\ faults' = faults
      /\ app' = app
  BY DEF Deflated
<1>3. TypeInv /\ ControlInv /\ EmptyInv /\ HurtInv /\ InputInv /\ CallInv /\ DataInv /\ FinInv
      /\ ShapeInv /\ DrainInv
  BY DEF Inv
<1>4. c \in CallStates
  BY <1>1, <1>3 DEF TypeInv, ControlInv, PlaceInv, ArgInv, Zeroing, CallStates
<1>5. /\ c' \in CallStates /\ c'.pc = c.pc /\ c'.op = c.op /\ c'.main = c.main /\ c'.back = c.back
      /\ c'.left = c.left /\ c'.all = c.all /\ c'.arg = c.arg /\ c'.flush = c.flush
      /\ c'.dret = r.ret /\ c'.zeroed = c.zeroed /\ c'.rest = c.rest /\ c'.ret = c.ret
      /\ c'.par = c.par
  BY <1>1, <1>4, SMTT(40) DEF CallStates, Pcs, Mains, Backs
<1>6. /\ g' \in States /\ g'.mode = g.mode /\ g'.size = g.size /\ g'.direct = g.direct
      /\ g'.data = g.data /\ g'.pos = g.pos /\ g'.want = g.want /\ g'.seek = g.seek
      /\ g'.err = g.err /\ nin' \in [user : BOOLEAN, off : Nat]
      /\ out' \in [cells : Seq(Cells), avail : Nat] /\ Len(out'.cells) + out'.avail <= g.size
      /\ d' \in DeflateStates /\ d'.live = d.live
  BY <1>1, <1>2, <1>3, Deflating
<1>7. /\ g'.in = SubSeq(g.in, r.m + 1, Len(g.in)) /\ (g.in = <<>> \/ r.m = Len(g.in)
         => g'.in = <<>>)
      /\ out'.avail = room - Len(r.out) /\ (Len(r.out) = room => out'.avail = 0)
      /\ out'.cells = out.cells \o r.out
  <2>1. g'.in = SubSeq(g.in, r.m + 1, Len(g.in)) /\ out'.avail = room - Len(r.out)
        /\ out'.cells = out.cells \o r.out
    BY <1>1, <1>2, <1>3, Deflating
  <2>2. g.in \in Seq(Int) /\ Len(g.in) \in Nat /\ r.m \in 0 .. Len(g.in)
    BY <1>1, <1>3, EmptyInt DEF TypeInv, States, Deflated
  <2>3. SubSeq(g.in, r.m + 1, Len(g.in)) \in Seq(Int)
        /\ Len(SubSeq(g.in, r.m + 1, Len(g.in))) = Len(g.in) - r.m
    BY <2>2, CutInt
  <2>4. g.in = <<>> => r.m = Len(g.in)
    BY <2>2, EmptyInt
  <2>5. r.m = Len(g.in) => Len(SubSeq(g.in, r.m + 1, Len(g.in))) = 0
    BY <2>2, <2>3
  <2>6. g.in = <<>> \/ r.m = Len(g.in) => g'.in = <<>>
    BY <2>1, <2>3, <2>4, <2>5, EmptyInt
  <2>7. Len(r.out) = room => out'.avail = 0
    BY <2>1
  <2> QED  BY <2>1, <2>6, <2>7
<1>8. Data' = Data /\ ShapeInv'
  BY <1>1, <1>2, <1>3, Deflating
<1>9. TypeInv'
  BY <1>2, <1>3, <1>5, <1>6 DEF TypeInv, MaxCalls, MaxFaults
<1>10. ControlInv'
  <2>1. IdleInv'
    BY <1>1, <1>4, <1>5 DEF IdleInv, Mains
  <2>2. PlaceInv'
    BY <1>1, <1>3, <1>5, <1>6 DEF ControlInv, PlaceInv, Zeroing, At, Mains
  <2>3. ArgInv'
    BY <1>1, <1>2, <1>3, <1>5, <1>6
       DEF ControlInv, ArgInv, PlaceInv, Zeroing, At, Mains, Flushes, Seeks
  <2> QED  BY <2>1, <2>2, <2>3 DEF ControlInv
<1>11. EmptyInv'
  BY <1>1, <1>3, <1>6 DEF EmptyInv
<1>12. HurtInv'
  BY <1>1, <1>2, <1>3, <1>5, <1>6 DEF HurtInv, Faults
<1>13. InputInv'
  BY <1>1, <1>5 DEF InputInv, Zeroing, At
<1>14. CallInv'
  BY <1>1, <1>2, <1>3, <1>5, <1>6 DEF CallInv, EndsIn, At
<1>15. DataInv'
  <2>1. Broken => Broken'
    BY <1>1, <1>2, <1>5, <1>6 DEF Broken, Closing_, At
  <2> QED  BY <1>2, <1>3, <1>5, <1>8, <2>1 DEF DataInv
<1>16. FinInv'
  <2>1. d'.fin => c.flush = "FINISH" /\ d'.held = <<>> /\ g'.in = <<>>
    <3>1. CASE d.fin
      <4>1. g.in = <<>> /\ c.flush = "FINISH" /\ r.e.held = <<>>
        BY <1>1, <1>3, <3>1 DEF FinInv, Deflated
      <4> QED  BY <1>1, <1>7, <4>1
    <3>2. CASE ~d.fin
      BY <1>1, <1>7, <3>2 DEF Deflated
    <3> QED  BY <3>1, <3>2
  <2>2. d'.fin /\ d'.pend = <<>> => c'.dret = "STREAM_END" \/ out'.avail = 0
    BY <1>1, <1>5, <1>7 DEF Deflated
  <2> QED  BY <1>1, <1>5, <2>1, <2>2 DEF FinInv
<1>17. ShapeInv'
  BY <1>8
<1>18. DrainInv'
  BY <1>1, <1>5 DEF DrainInv
<1> QED  BY <1>9, <1>10, <1>11, <1>12, <1>13, <1>14, <1>15, <1>16, <1>17, <1>18 DEF Inv

\* It has put nothing out: all input is taken, all it had to write is written.
LEMMA DeflateEndsKeeps ==
  ASSUME NEW r, NEW room \in Nat, Inv, c.pc = "comp", g.size # 0, ~g.direct, room > 0,
         Len(out.cells) + room <= g.size, Deflated(d, g.in, room, c.flush, r),
         g' = [g EXCEPT !.in = SubSeq(g.in, r.m + 1, Len(g.in))],
         nin' = [nin EXCEPT !.off = @ + r.m],
         out' = [cells |-> out.cells \o r.out, avail |-> room - Len(r.out)],
         d.fin => c.flush = "FINISH",
         r.out = <<>>, d' = r.e, c' = [c EXCEPT !.pc = c.back], c.flush # "FINISH",
         c.flush # "NO" => out.cells = <<>>,
         UNCHANGED <<file, ret, acc, acked, faults, app>>
  PROVE  Inv'
<1>1. /\ c.pc = "comp" /\ g.size # 0 /\ ~g.direct /\ Deflated(d, g.in, room, c.flush, r)
      /\ (d.fin => c.flush = "FINISH") /\ r.ret \in {"OK", "STREAM_END"}
      /\ c' = [c EXCEPT !.pc = c.back] /\ d' = r.e /\ r.out = <<>> /\ c.flush # "FINISH"
      /\ (c.flush # "NO" => out.cells = <<>>)
  BY DEF Deflated
<1>2. /\ file' = file /\ ret' = ret /\ acc' = acc /\ acked' = acked /\ faults' = faults
      /\ app' = app
  BY DEF Deflated
<1>3. TypeInv /\ ControlInv /\ EmptyInv /\ HurtInv /\ InputInv /\ CallInv /\ DataInv /\ FinInv
      /\ ShapeInv /\ DrainInv
  BY DEF Inv
<1>4. c \in CallStates /\ c.back \in {"zeros", "put", "wrote", "moved", "params", "closing"}
  BY <1>1, <1>3 DEF TypeInv, ControlInv, PlaceInv, ArgInv, Zeroing, CallStates
<1>5. /\ c' \in CallStates /\ c'.pc = c.back /\ c'.op = c.op /\ c'.main = c.main
      /\ c'.back = c.back /\ c'.left = c.left /\ c'.all = c.all /\ c'.arg = c.arg
      /\ c'.flush = c.flush /\ c'.dret = c.dret /\ c'.zeroed = c.zeroed /\ c'.rest = c.rest
      /\ c'.ret = c.ret /\ c'.par = c.par
  BY <1>1, <1>4, ZenonT(60) DEF CallStates, Pcs, Mains, Backs
<1>6. /\ g' \in States /\ g'.mode = g.mode /\ g'.size = g.size /\ g'.direct = g.direct
      /\ g'.data = g.data /\ g'.pos = g.pos /\ g'.want = g.want /\ g'.seek = g.seek
      /\ g'.err = g.err /\ nin' \in [user : BOOLEAN, off : Nat]
      /\ out' \in [cells : Seq(Cells), avail : Nat] /\ Len(out'.cells) + out'.avail <= g.size
      /\ d' \in DeflateStates /\ d'.live = d.live
  BY <1>1, <1>2, <1>3, Deflating
<1>7. /\ g'.in = SubSeq(g.in, r.m + 1, Len(g.in)) /\ (g.in = <<>> \/ r.m = Len(g.in)
         => g'.in = <<>>)
      /\ out'.avail = room - Len(r.out) /\ (Len(r.out) = room => out'.avail = 0)
      /\ out'.cells = out.cells \o r.out
  <2>1. g'.in = SubSeq(g.in, r.m + 1, Len(g.in)) /\ out'.avail = room - Len(r.out)
        /\ out'.cells = out.cells \o r.out
    BY <1>1, <1>2, <1>3, Deflating
  <2>2. g.in \in Seq(Int) /\ Len(g.in) \in Nat /\ r.m \in 0 .. Len(g.in)
    BY <1>1, <1>3, EmptyInt DEF TypeInv, States, Deflated
  <2>3. SubSeq(g.in, r.m + 1, Len(g.in)) \in Seq(Int)
        /\ Len(SubSeq(g.in, r.m + 1, Len(g.in))) = Len(g.in) - r.m
    BY <2>2, CutInt
  <2>4. g.in = <<>> => r.m = Len(g.in)
    BY <2>2, EmptyInt
  <2>5. r.m = Len(g.in) => Len(SubSeq(g.in, r.m + 1, Len(g.in))) = 0
    BY <2>2, <2>3
  <2>6. g.in = <<>> \/ r.m = Len(g.in) => g'.in = <<>>
    BY <2>1, <2>3, <2>4, <2>5, EmptyInt
  <2>7. Len(r.out) = room => out'.avail = 0
    BY <2>1
  <2> QED  BY <2>1, <2>6, <2>7
<1>8. Data' = Data /\ ShapeInv'
  BY <1>1, <1>2, <1>3, Deflating
<1>9. ~d.fin /\ g'.in = <<>> /\ d'.pend = <<>> /\ (c.flush = "SYNC" => d'.held = <<>>)
      /\ out'.cells = out.cells
  <2>1. out.cells \o <<>> = out.cells
    BY <1>3, EmptyCells DEF TypeInv
  <2> QED  BY <1>1, <1>7, <2>1 DEF Deflated
<1>10. TypeInv'
  BY <1>2, <1>3, <1>5, <1>6 DEF TypeInv, MaxCalls, MaxFaults
<1>11. ControlInv'
  <2>1. IdleInv'
    BY <1>1, <1>4, <1>5 DEF IdleInv, Mains
  <2>2. PlaceInv'
    BY <1>1, <1>2, <1>3, <1>4, <1>5, <1>6 DEF ControlInv, PlaceInv, Zeroing, At, Mains
  <2>3. ArgInv'
    BY <1>1, <1>2, <1>3, <1>4, <1>5, <1>6
       DEF ControlInv, ArgInv, PlaceInv, Zeroing, At, Mains, Flushes, Seeks
  <2> QED  BY <2>1, <2>2, <2>3 DEF ControlInv
<1>12. EmptyInv'
  BY <1>1, <1>3, <1>6 DEF EmptyInv
<1>13. HurtInv'
  BY <1>1, <1>2, <1>3, <1>5, <1>6 DEF HurtInv, Faults
<1>14. InputInv'
  BY <1>9 DEF InputInv
<1>15. CallInv'
  BY <1>1, <1>2, <1>3, <1>4, <1>5, <1>6 DEF CallInv, EndsIn, At
<1>16. DataInv'
  <2>1. Broken => Broken'
    BY <1>1, <1>2, <1>3, <1>4, <1>5, <1>6 DEF ControlInv, PlaceInv, Broken, Closing_, At
  <2> QED  BY <1>2, <1>3, <1>5, <1>8, <2>1 DEF DataInv
<1>17. FinInv'
  <2>1. ~d'.fin
    BY <1>1, <1>7, <1>9 DEF Deflated
  <2> QED  BY <2>1, <1>5, <1>4 DEF FinInv
<1>18. ShapeInv'
  BY <1>8
<1>19. DrainInv'
  <2>1. c.back = "wrote" /\ c.arg \in {"SYNC", "FINISH"} => c.flush = "SYNC"
    BY <1>1, <1>3 DEF ControlInv, ArgInv, At
  <2>2. c.back # "closing"
    BY <1>1, <1>3 DEF ControlInv, ArgInv, At
  <2>3. c.flush = "SYNC" => Drained'
    BY <1>1, <1>9, <1>7 DEF Drained, Deflated
  <2> QED  BY <1>1, <1>4, <1>5, <2>1, <2>2, <2>3 DEF DrainInv
<1> QED  BY <1>10, <1>11, <1>12, <1>13, <1>14, <1>15, <1>16, <1>17, <1>18, <1>19 DEF Inv

\* It has put nothing out after Z_FINISH: the member is complete.
LEMMA DeflateFinishedKeeps ==
  ASSUME NEW r, NEW room \in Nat, Inv, c.pc = "comp", g.size # 0, ~g.direct, room > 0,
         Len(out.cells) + room <= g.size, Deflated(d, g.in, room, c.flush, r),
         g' = [g EXCEPT !.in = SubSeq(g.in, r.m + 1, Len(g.in))],
         nin' = [nin EXCEPT !.off = @ + r.m],
         out' = [cells |-> out.cells \o r.out, avail |-> room - Len(r.out)],
         d.fin => c.flush = "FINISH",
         r.out = <<>>, d' = deflateReset(r.e), c' = [c EXCEPT !.pc = c.back], c.flush = "FINISH",
         c.dret = "STREAM_END" \/ out.avail = 0 => out.cells = <<>>,
         UNCHANGED <<file, ret, acc, acked, faults, app>>
  PROVE  Inv'
<1>1. /\ c.pc = "comp" /\ g.size # 0 /\ ~g.direct /\ Deflated(d, g.in, room, "FINISH", r)
      /\ c' = [c EXCEPT !.pc = c.back] /\ d' = deflateReset(r.e) /\ r.out = <<>>
         /\ c.flush = "FINISH" /\ room > 0
      /\ (c.dret = "STREAM_END" \/ out.avail = 0 => out.cells = <<>>)
  BY DEF Deflated
<1>2. /\ file' = file /\ ret' = ret /\ acc' = acc /\ acked' = acked /\ faults' = faults
      /\ app' = app
  BY DEF Deflated
<1>3. TypeInv /\ ControlInv /\ EmptyInv /\ HurtInv /\ InputInv /\ CallInv /\ DataInv /\ FinInv
      /\ ShapeInv /\ DrainInv
  BY DEF Inv
<1>4. c \in CallStates /\ c.back \in {"zeros", "put", "wrote", "moved", "params", "closing"}
  BY <1>1, <1>3 DEF TypeInv, ControlInv, PlaceInv, ArgInv, Zeroing, CallStates
<1>5. /\ c' \in CallStates /\ c'.pc = c.back /\ c'.op = c.op /\ c'.main = c.main
      /\ c'.back = c.back /\ c'.left = c.left /\ c'.all = c.all /\ c'.arg = c.arg
      /\ c'.flush = c.flush /\ c'.dret = c.dret /\ c'.zeroed = c.zeroed /\ c'.rest = c.rest
      /\ c'.ret = c.ret /\ c'.par = c.par
  BY <1>1, <1>4, SMTT(40) DEF CallStates, Pcs, Mains, Backs
<1>6. /\ d.fin /\ d.held = <<>> /\ d.pend = <<>> /\ g.in = <<>> /\ g'.in = <<>>
         /\ out'.cells = out.cells
      /\ r.e \in DeflateStates /\ r.e.live = d.live /\ r.m = 0 /\ out'.avail = room
  <2>1. d.fin /\ r.e.pend = <<>> /\ r.e \in DeflateStates /\ r.e.live = d.live
        /\ r.m \in 0 .. Len(g.in)
    BY <1>1 DEF Deflated
  <2>2. d.held = <<>> /\ g.in = <<>>
    BY <1>3, <2>1 DEF FinInv
  <2>3. PICK new : Grown(d, g.in, r, new)
    BY <1>1 DEF Deflated
  <2>4. new = <<>> /\ r.out \o r.e.pend = d.pend \o new
    BY <2>1, <2>3 DEF Grown
  <2>5. d.pend = <<>>
    BY <1>1, <1>3, <2>1, <2>4, EmptyCells DEF TypeInv, DeflateStates
  <2>6. r.m = 0
    BY <2>1, <2>2, EmptyInt
  <2>7. g'.in = <<>>
    <3>1. g' = [g EXCEPT !.in = SubSeq(<<>>, 1, 0)]
      BY <2>2, <2>6, EmptyInt
    <3>2. SubSeq(<<>>, 1, 0) = <<>>
      OBVIOUS
    <3> QED  BY <1>3, <3>1, <3>2 DEF TypeInv, States
  <2>8. out.cells \o <<>> = out.cells /\ Len(<<>>) = 0
    BY <1>3, EmptyCells DEF TypeInv
  <2>9. out'.cells = out.cells /\ out'.avail = room
    BY <1>1, <2>8
  <2> QED  BY <2>1, <2>2, <2>5, <2>6, <2>7, <2>9
<1>7. /\ g' \in States /\ g'.mode = g.mode /\ g'.size = g.size /\ g'.direct = g.direct
      /\ g'.data = g.data /\ g'.pos = g.pos /\ g'.want = g.want /\ g'.seek = g.seek
      /\ g'.err = g.err /\ nin' \in [user : BOOLEAN, off : Nat]
      /\ out' \in [cells : Seq(Cells), avail : Nat] /\ Len(out'.cells) + out'.avail <= g.size
      /\ d' \in DeflateStates /\ d'.live = d.live /\ d'.pend = <<>> /\ d'.held = <<>>
      /\ ~d'.fin /\ ~d'.head
      /\ g'.in = <<>>
  <2>1. g \in States /\ <<>> \in Seq(Int) /\ nin \in [user : BOOLEAN, off : Nat]
        /\ nin.off + 0 = nin.off
        /\ out.cells \in Seq(Cells)
    BY <1>3, EmptyInt DEF TypeInv
  <2>2. g' = [g EXCEPT !.in = <<>>]
    <3>1. SubSeq(g.in, r.m + 1, Len(g.in)) = <<>>
      <4>1. g'.in = SubSeq(g.in, r.m + 1, Len(g.in))
        BY <2>1 DEF States
      <4> QED  BY <1>6, <4>1
    <3> QED  BY <3>1
  <2>3. /\ g' \in States /\ g'.mode = g.mode /\ g'.size = g.size /\ g'.direct = g.direct
        /\ g'.data = g.data /\ g'.pos = g.pos /\ g'.want = g.want /\ g'.seek = g.seek
        /\ g'.err = g.err
    BY <2>1, <2>2, ZenonT(60) DEF States
  <2>4. nin' = nin
    BY <1>6, <2>1
  <2>5. out' \in [cells : Seq(Cells), avail : Nat] /\ Len(out'.cells) + out'.avail <= g.size
    <3>1. out' = [cells |-> out'.cells, avail |-> out'.avail]
      BY <1>6
    <3> QED  BY <1>6, <2>1, <3>1
  <2>6. /\ d' \in DeflateStates /\ d'.live = d.live /\ d'.pend = <<>> /\ d'.held = <<>>
        /\ ~d'.fin /\ ~d'.head
    <3>1. d' = [r.e EXCEPT !.head = FALSE, !.held = <<>>, !.pend = <<>>, !.fin = FALSE,
          !.fresh = TRUE]
      BY <1>1 DEF deflateReset
    <3> QED  BY <1>6, <3>1, EmptyInt, EmptyCells, ZenonT(60) DEF DeflateStates
  <2> QED  BY <1>6, <2>1, <2>3, <2>4, <2>5, <2>6
<1>8. Sent' = Sent /\ Data' = Data
  BY <1>2, <1>6, <1>7 DEF Sent, Data
<1>9. g'.in = <<>>
  BY <1>6
<1>10. TypeInv'
  BY <1>2, <1>3, <1>5, <1>7 DEF TypeInv, MaxCalls, MaxFaults
<1>11. ControlInv'
  <2>1. IdleInv'
    BY <1>1, <1>4, <1>5 DEF IdleInv, Mains
  <2>2. PlaceInv'
    BY <1>1, <1>2, <1>3, <1>4, <1>5, <1>7 DEF ControlInv, PlaceInv, Zeroing, At, Mains
  <2>3. ArgInv'
    BY <1>1, <1>2, <1>3, <1>4, <1>5, <1>7
       DEF ControlInv, ArgInv, PlaceInv, Zeroing, At, Mains, Flushes, Seeks
  <2> QED  BY <2>1, <2>2, <2>3 DEF ControlInv
<1>12. EmptyInv'
  BY <1>1, <1>3, <1>7 DEF EmptyInv
<1>13. HurtInv'
  BY <1>1, <1>2, <1>3, <1>5, <1>7 DEF HurtInv, Faults
<1>14. InputInv'
  BY <1>9 DEF InputInv
<1>15. CallInv'
  BY <1>1, <1>2, <1>3, <1>4, <1>5, <1>7 DEF CallInv, EndsIn, At
<1>16. DataInv'
  <2>1. Broken => Broken'
    BY <1>1, <1>2, <1>3, <1>4, <1>5, <1>7 DEF ControlInv, PlaceInv, Broken, Closing_, At
  <2> QED  BY <1>2, <1>3, <1>5, <1>8, <2>1 DEF DataInv
<1>17. FinInv'
  BY <1>7 DEF FinInv
<1>18. ShapeInv'
  <2>1. ~g.direct => WellFormed(Sent) /\ Sent # <<>> /\ ~Within(Sent)
    BY <1>3, <1>6 DEF ShapeInv
  <2>2. ~d'.fin /\ ~d'.head
    BY <1>7
  <2> QED  BY <1>8, <1>7, <2>1, <2>2 DEF ShapeInv, Within, WellFormed
<1>19. DrainInv'
  <2>1. out.cells = <<>> \/ (faults > 0 /\ "FINISH" \in Flushes)
    BY <1>1, <1>3, <1>6 DEF FinInv
  <2>2. c.back = "wrote" => Drained'
    <3>1. c.back = "wrote" => faults = 0
      BY <1>1, <1>3 DEF TypeInv, HurtInv, ControlInv, PlaceInv, At
    <3> QED  BY <1>6, <1>7, <2>1, <3>1 DEF Drained
  <2>3. c.back = "closing" => Finished'
    <3>1. ~g.direct => Sent # <<>> /\ ~Within(Sent)
      BY <1>3, <1>6 DEF ShapeInv
    <3> QED  BY <1>2, <1>8, <1>6, <1>7, <2>1, <3>1 DEF Finished, Flushes, Within
  <2> QED  BY <1>1, <1>4, <1>5, <2>2, <2>3 DEF DrainInv
<1> QED  BY <1>10, <1>11, <1>12, <1>13, <1>14, <1>15, <1>16, <1>17, <1>18, <1>19 DEF Inv

\* deflate() is called with room in the buffer, and puts something out or ends.
LEMMA CompDeflateKeeps ==
  ASSUME Inv, CompDeflate
  PROVE  Inv'
<1> DEFINE space == IF out.avail = 0 THEN g.size ELSE out.avail
<1>1. /\ c.pc = "comp" /\ g.size # 0 /\ ~g.direct /\ (MustWrite => out.cells = <<>>)
      /\ (d.fin => c.flush = "FINISH") /\ UNCHANGED <<file, ret, acc, acked, faults, app>>
  BY DEF CompDeflate, Compress, Compressing
<1>2. PICK room \in {space} : \E r \in Deflates(d, g.in, room, c.flush) :
         /\ g' = [g EXCEPT !.in = SubSeq(@, r.m + 1, Len(@))]
         /\ nin' = [nin EXCEPT !.off = @ + r.m]
         /\ out' = [cells |-> out.cells \o r.out, avail |-> room - Len(r.out)]
         /\ IF r.out = <<>>
            THEN /\ d' = IF c.flush = "FINISH" THEN deflateReset(r.e) ELSE r.e
                 /\ c' = [c EXCEPT !.pc = c.back]
            ELSE /\ d' = r.e /\ c' = [c EXCEPT !.dret = r.ret]
  BY DEF CompDeflate
<1>3. PICK r \in Deflates(d, g.in, room, c.flush) :
         /\ g' = [g EXCEPT !.in = SubSeq(@, r.m + 1, Len(@))]
         /\ nin' = [nin EXCEPT !.off = @ + r.m]
         /\ out' = [cells |-> out.cells \o r.out, avail |-> room - Len(r.out)]
         /\ IF r.out = <<>>
            THEN /\ d' = IF c.flush = "FINISH" THEN deflateReset(r.e) ELSE r.e
                 /\ c' = [c EXCEPT !.pc = c.back]
            ELSE /\ d' = r.e /\ c' = [c EXCEPT !.dret = r.ret]
  BY <1>2
<1>4. /\ g.size \in Nat /\ out.avail \in Nat /\ Len(out.cells) \in Nat
         /\ Len(out.cells) + out.avail <= g.size
      /\ d \in DeflateStates /\ g.in \in Seq(Int) /\ (d.fin => d.held = <<>>)
  BY EmptyCells DEF Inv, TypeInv, States, FinInv
<1>5. room \in Nat /\ room > 0 /\ Len(out.cells) + room <= g.size
  <2>1. CASE out.avail = 0
    <3>1. Len(out.cells) = 0
      BY <1>1, <2>1, EmptyCells DEF MustWrite
    <3> QED  BY <1>1, <1>2, <1>4, <2>1, <3>1
  <2>2. CASE out.avail # 0
    BY <1>1, <1>2, <1>4, <2>2
  <2> QED  BY <2>1, <2>2
<1>6. Deflated(d, g.in, room, c.flush, r)
  BY <1>3, <1>4, <1>5, DeflatesOK
<1>7. g' = [g EXCEPT !.in = SubSeq(g.in, r.m + 1, Len(g.in))]
  BY <1>3
<1>8. CASE r.out # <<>>
  <2>1. d' = r.e /\ c' = [c EXCEPT !.dret = r.ret]
    BY <1>3, <1>8
  <2> QED  BY <1>1, <1>3, <1>5, <1>6, <1>7, <2>1, DeflateMoreKeeps
<1>9. CASE r.out = <<>> /\ c.flush # "FINISH"
  <2>1. d' = r.e /\ c' = [c EXCEPT !.pc = c.back]
    BY <1>3, <1>9
  <2>2. c.flush # "NO" => out.cells = <<>>
    BY <1>1, <1>9 DEF MustWrite
  <2> QED  BY <1>1, <1>3, <1>5, <1>6, <1>7, <1>9, <2>1, <2>2, DeflateEndsKeeps
<1>10. CASE r.out = <<>> /\ c.flush = "FINISH"
  <2>1. d' = deflateReset(r.e) /\ c' = [c EXCEPT !.pc = c.back]
    BY <1>3, <1>10
  <2>2. c.dret = "STREAM_END" \/ out.avail = 0 => out.cells = <<>>
    BY <1>1, <1>10 DEF MustWrite
  <2> QED  BY <1>1, <1>3, <1>5, <1>6, <1>7, <1>10, <2>1, <2>2, DeflateFinishedKeeps
<1> QED  BY <1>8, <1>9, <1>10

=============================================================================
