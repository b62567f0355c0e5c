----------------------------- MODULE ViewerProofs -----------------------------
(***************************************************************************)
(* Proofs about Viewer, for packages of any size, any number of loads and  *)
(* timers.                                                                 *)
(***************************************************************************)
EXTENDS Viewer, SequenceTheorems, TLAPS

\* TypeOK in parts.
PageOK ==
  /\ loading \subseteq Pkgs \X Kinds /\ kDone \in Int /\ shown \in BOOLEAN
  /\ cur \in Pkgs /\ slider \in Int
  /\ playing \in BOOLEAN /\ crossed \in BOOLEAN /\ behind \in BOOLEAN
CursorOK == cursor \in [Pkgs -> Int]
FigureOK == figure \in [Pkgs -> Pkgs \union {None}]
FetchOK  == fetching \in [Pkgs -> Nat]
CanvasOK == canvas \in [of : Pkgs \union {None}, no : Int]
Fx       == [queue : Queues, timer : BOOLEAN, loose : Nat]
SpeedOK  == speed \in [delay : Int, faster : BOOLEAN, slower : BOOLEAN]

Types == /\ PageOK /\ CursorOK /\ FigureOK /\ FetchOK /\ CanvasOK
         /\ fx \in Fx /\ SpeedOK

LEMMA TypesIsTypeOK == Types => TypeOK
  BY DEF Types, TypeOK, PageOK, CursorOK, FigureOK, FetchOK, CanvasOK, Fx, SpeedOK

-----------------------------------------------------------------------------
(* The queue.                                                              *)

LEMMA FxFields ==
  ASSUME NEW f \in Fx
  PROVE  /\ f.queue \in Queues /\ f.timer \in BOOLEAN /\ f.loose \in Nat
         /\ [f EXCEPT !.timer = FALSE] \in Fx
         /\ [f EXCEPT !.timer = FALSE].queue = f.queue
         /\ ~ [f EXCEPT !.timer = FALSE].timer
         /\ [f EXCEPT !.timer = FALSE].loose = f.loose
         /\ [f EXCEPT !.timer = TRUE] \in Fx
         /\ [f EXCEPT !.timer = TRUE].queue = f.queue
         /\ [f EXCEPT !.timer = TRUE].timer
  BY DEF Fx

LEMMA LooseFields ==
  ASSUME NEW f \in Fx, f.loose > 0
  PROVE  /\ [f EXCEPT !.loose = @ - 1] \in Fx
         /\ [f EXCEPT !.loose = @ - 1].queue = f.queue
  BY DEF Fx

LEMMA Singleton ==
  ASSUME NEW e \in Symbols
  PROVE  <<e>> \in Queues /\ Len(<<e>>) = 1 /\ <<e>>[1] = e
  <1>1. ASSUME NEW S, NEW x \in S PROVE <<x>> \in Seq(S)
    OBVIOUS
  <1>2. <<e>> \in Queues
    BY <1>1 DEF Queues
  <1>3. Len(<<e>>) = 1
    OBVIOUS
  <1>4. <<e>>[1] = e
    OBVIOUS
  <1>5. QED BY <1>2, <1>3, <1>4

LEMMA EmptyQueue == <<>> \in Queues
  BY EmptySeq DEF Queues

LEMMA LooseSum ==
  ASSUME NEW f \in Fx
  PROVE  f.loose + (IF f.timer THEN 1 ELSE 0) \in Nat
  <1>1. PICK n \in Nat : n = f.loose
    BY FxFields
  <1>2. n + 1 \in Nat /\ n + 0 \in Nat
    OBVIOUS
  <1>3. CASE f.timer
    BY <1>1, <1>2, <1>3
  <1>4. CASE ~ f.timer
    BY <1>1, <1>2, <1>4
  <1>5. QED BY <1>3, <1>4

LEMMA WaitingType ==
  ASSUME NEW f \in Fx
  PROVE  Waiting(f) \in Queues
  <1>1. PICK q \in Queues : q = f.queue
    BY FxFields
  <1>2. q # <<>> => Tail(q) \in Queues
    BY HeadTailProperties DEF Queues
  <1>3. Waiting(f) = q \/ (q # <<>> /\ Waiting(f) = Tail(q))
    BY <1>1 DEF Waiting
  <1>4. QED BY <1>2, <1>3

\* The queue with a function under way, put together from what waits.
LEMMA SentinelOn ==
  ASSUME NEW w \in Queues, w # <<>>
  PROVE  /\ <<"inprogress">> \o Tail(w) \in Queues
         /\ Len(<<"inprogress">> \o Tail(w)) = Len(w)
         /\ (<<"inprogress">> \o Tail(w))[1] = "inprogress"
         /\ \A i \in 2 .. Len(w) : (<<"inprogress">> \o Tail(w))[i] = w[i]
  <1>1. PICK e \in Symbols : e = "inprogress"
    BY DEF Symbols
  <1>2. PICK s \in Queues : s = <<e>> /\ Len(s) = 1 /\ s[1] = e
    BY Singleton
  <1>3. PICK r \in Queues : r = Tail(w) /\ Len(r) = Len(w) - 1
                            /\ \A i \in 1 .. Len(r) : r[i] = w[i + 1]
    BY HeadTailProperties DEF Queues
  <1>4. Len(w) \in Nat \ {0} /\ Len(r) \in Nat
    BY <1>3, EmptySeq, LenProperties DEF Queues
  <1>5. /\ s \o r \in Queues /\ Len(s \o r) = Len(s) + Len(r)
        /\ \A i \in 1 .. Len(s) + Len(r) :
             (s \o r)[i] = IF i <= Len(s) THEN s[i] ELSE r[i - Len(s)]
    BY ConcatProperties DEF Queues
  <1>6. PICK b : b = s \o r
    OBVIOUS
  <1>7. b \in Queues /\ Len(b) = Len(w) /\ b[1] = e
    BY <1>2, <1>3, <1>4, <1>5, <1>6
  <1>8. ASSUME NEW i \in 2 .. Len(w)
        PROVE  b[i] = w[i]
    <2>1. b[i] = r[i - 1]
      BY <1>2, <1>3, <1>4, <1>5, <1>6
    <2>2. i - 1 \in 1 .. Len(r) /\ (i - 1) + 1 = i
      BY <1>3, <1>4
    <2>3. QED BY <1>3, <2>1, <2>2
  <1>9. b = <<"inprogress">> \o Tail(w)
    BY <1>1, <1>2, <1>3, <1>6
  <1>10. QED BY <1>1, <1>7, <1>8, <1>9

LEMMA BeginType ==
  ASSUME NEW f \in Fx, Waiting(f) # <<>>
  PROVE  /\ Begin(f) \in Fx /\ ~ Begin(f).timer
         /\ Begin(f).queue = <<"inprogress">> \o Tail(Waiting(f))
  <1>1. PICK n \in Nat : n = f.loose + (IF f.timer THEN 1 ELSE 0)
    BY LooseSum
  <1>2. PICK q \in Queues : q = <<"inprogress">> \o Tail(Waiting(f))
    BY WaitingType, SentinelOn
  <1>3. Begin(f) = [queue |-> q, timer |-> FALSE, loose |-> n]
    BY <1>1, <1>2 DEF Begin
  <1>4. QED BY <1>2, <1>3 DEF Fx

LEMMA DequeueType ==
  ASSUME NEW f \in Fx
  PROVE  /\ Dequeue(f) \in Fx
         /\ Waiting(f) = <<>> => Dequeue(f).queue = <<>>
         /\ Waiting(f) # <<>> => /\ Dequeue(f).timer
                                 /\ Dequeue(f).queue = Begin(f).queue
  <1>1. CASE Waiting(f) = <<>>
    <2>1. PICK n \in Nat : n = f.loose + (IF f.timer THEN 1 ELSE 0)
      BY LooseSum
    <2>2. Dequeue(f) = [queue |-> <<>>, timer |-> FALSE, loose |-> n]
      BY <1>1, <2>1 DEF Dequeue
    <2>3. PICK q \in Queues : q = <<>>
      BY EmptyQueue
    <2>4. Dequeue(f) = [queue |-> q, timer |-> FALSE, loose |-> n]
      BY <2>2, <2>3
    <2>5. QED BY <1>1, <2>3, <2>4 DEF Fx
  <1>2. CASE Waiting(f) # <<>>
    <2>1. PICK g \in Fx : g = Begin(f)
      BY <1>2, BeginType
    <2>2. Dequeue(f) = [g EXCEPT !.timer = TRUE]
      BY <1>2, <2>1 DEF Dequeue
    <2>3. PICK h \in Fx : h = [g EXCEPT !.timer = TRUE] /\ h.timer /\ h.queue = g.queue
      BY FxFields
    <2>4. QED BY <1>2, <2>1, <2>2, <2>3
  <1>3. QED BY <1>1, <1>2

LEMMA UpcomingIs ==
  ASSUME NEW f \in Fx, Upcoming(f) # "none"
  PROVE  Waiting(f) # <<>>
  BY DEF Upcoming

LEMMA ClearedType ==
  ASSUME NEW f \in Fx
  PROVE  Cleared(f) \in Fx /\ Cleared(f).queue = <<>>
  <1>1. PICK n \in Nat : n = f.loose + (IF f.timer THEN 1 ELSE 0)
    BY LooseSum
  <1>2. PICK q \in Queues : q = <<>>
    BY EmptyQueue
  <1>3. Cleared(f) = [queue |-> q, timer |-> FALSE, loose |-> n]
    BY <1>1, <1>2 DEF Cleared
  <1>4. QED BY <1>2, <1>3 DEF Fx

\* The queue of a play: what is under way, then delays and frames in turn up to
\* a last function that enables the buttons.
Line(q) ==
  /\ Len(q) >= 2 /\ q[1] = "inprogress"
  /\ \A i \in 2 .. Len(q) :
       q[i] = IF (Len(q) - i) % 2 = 1 THEN "delay"
              ELSE IF i = Len(q) THEN "end" ELSE "step"

LEMMA LineGoesOn ==
  ASSUME NEW f \in Fx, Line(f.queue)
  PROVE  /\ Waiting(f) # <<>> /\ Upcoming(f) = f.queue[2]
         /\ Begin(f) \in Fx /\ Len(Begin(f).queue) = Len(f.queue) - 1
         /\ Len(f.queue) = 2 => Begin(f).queue = <<"inprogress">>
         /\ Len(f.queue) > 2 => Line(Begin(f).queue)
  <1>1. PICK q \in Queues : q = f.queue
    BY FxFields
  <1>2. Len(q) \in Nat /\ Len(q) >= 2 /\ q[1] = "inprogress" /\ q # <<>>
    BY <1>1, LenProperties, EmptySeq DEF Line, Queues
  <1>3. PICK w \in Queues : w = Tail(q) /\ Len(w) = Len(q) - 1
                            /\ \A i \in 1 .. Len(w) : w[i] = q[i + 1]
    <2>1. \A S : \A s \in Seq(S) : s # <<>> =>
            /\ Tail(s) \in Seq(S) /\ Len(Tail(s)) = Len(s) - 1
            /\ \A i \in 1 .. Len(Tail(s)) : Tail(s)[i] = s[i + 1]
      BY HeadTailProperties
    <2>2. /\ Tail(q) \in Queues /\ Len(Tail(q)) = Len(q) - 1
          /\ \A i \in 1 .. Len(Tail(q)) : Tail(q)[i] = q[i + 1]
      BY <1>2, <2>1 DEF Queues
    <2>3. QED BY <2>2
  <1>4. w # <<>> /\ Head(q) = q[1] /\ Head(w) = w[1]
    <2>1. w # <<>>
      <3>1. Len(w) # 0
        BY <1>2, <1>3
      <3>2. Len(<<>>) = 0
        BY EmptySeq
      <3>3. QED BY <3>1, <3>2
    <2>2. Head(q) = q[1] /\ Head(w) = w[1]
      OBVIOUS
    <2>3. QED BY <2>1, <2>2
  <1>5. Waiting(f) = w
    BY <1>1, <1>2, <1>3, <1>4 DEF Waiting
  <1>6. Upcoming(f) = q[2]
    <2>1. w[1] = q[2]
      BY <1>2, <1>3
    <2>2. QED BY <1>4, <1>5, <2>1 DEF Upcoming
  <1>7. PICK b \in Queues : /\ b = <<"inprogress">> \o Tail(w)
                            /\ Len(b) = Len(w) /\ b[1] = "inprogress"
                            /\ \A i \in 2 .. Len(w) : b[i] = w[i]
    BY <1>4, SentinelOn
  <1>8. Begin(f) \in Fx /\ Begin(f).queue = b
    BY <1>4, <1>5, <1>7, BeginType
  <1>9. Len(q) = 2 => b = <<"inprogress">>
    <2>1. PICK e \in Symbols : e = "inprogress"
      BY DEF Symbols
    <2>2. PICK s \in Queues : s = <<e>> /\ Len(s) = 1 /\ s[1] = e
      BY Singleton
    <2>3. Len(q) = 2 => Len(b) = 1
      BY <1>3, <1>7
    <2>4. ASSUME Len(q) = 2
          PROVE  b = s
      <3>1. b \in Seq(Symbols) /\ s \in Seq(Symbols) /\ Len(b) = Len(s)
        BY <2>2, <2>3, <2>4 DEF Queues
      <3>2. \A i \in 1 .. Len(b) : b[i] = s[i]
        BY <1>7, <2>1, <2>2, <2>3, <2>4
      <3>3. QED BY <3>1, <3>2, SeqEqual
    <2>5. QED BY <2>1, <2>2, <2>4
  <1>10. ASSUME Len(q) > 2
         PROVE  Line(b)
    <2>1. Len(b) = Len(q) - 1
      BY <1>3, <1>7
    <2>2. ASSUME NEW i \in 2 .. Len(b)
          PROVE  b[i] = IF (Len(b) - i) % 2 = 1 THEN "delay"
                        ELSE IF i = Len(b) THEN "end" ELSE "step"
      <3>1. i + 1 \in 2 .. Len(q) /\ b[i] = q[i + 1]
        BY <1>2, <1>3, <1>7, <2>1
      <3>2. Len(q) - (i + 1) = Len(b) - i /\ (i + 1 = Len(q) <=> i = Len(b))
        BY <1>2, <2>1
      <3>3. QED BY <1>1, <3>1, <3>2 DEF Line
    <2>3. Len(b) >= 2
      BY <1>2, <1>10, <2>1
    <2>4. b[1] = "inprogress"
      BY <1>7
    <2>5. QED BY <2>2, <2>3, <2>4 DEF Line
  <1>11. QED
    BY <1>1, <1>2, <1>3, <1>4, <1>5, <1>6, <1>7, <1>8, <1>9, <1>10
LEMMA IdleWaits ==
  ASSUME NEW f \in Fx, f.queue = <<>> \/ f.queue = <<"inprogress">>
  PROVE  /\ Waiting(f) = <<>> /\ Upcoming(f) = "none"
         /\ Dequeue(f) \in Fx /\ Dequeue(f).queue = <<>>
  <1>1. Tail(<<"inprogress">>) = <<>> /\ Head(<<"inprogress">>) = "inprogress"
    OBVIOUS
  <1>2. <<"inprogress">> # <<>>
    OBVIOUS
  <1>3. Waiting(f) = <<>>
    BY <1>1, <1>2 DEF Waiting
  <1>4. QED BY <1>3, DequeueType DEF Upcoming

-----------------------------------------------------------------------------
(* Types.                                                                  *)

LEMMA FramesType == \A pkg \in Pkgs : Frames[pkg] \in Nat /\ Frames[pkg] # 0
  BY ViewerAssumption

LEMMA PaintType ==
  /\ \A pkg \in Pkgs \union {None}, no \in Int :
       /\ Frame(pkg, no) \in [of : Pkgs \union {None}, no : Int]
       /\ Frame(pkg, no).of = pkg /\ Frame(pkg, no).no = no
  /\ \A pkg \in Pkgs \union {None} :
       /\ Figure(pkg) \in [of : Pkgs \union {None}, no : Int]
       /\ Figure(pkg).no = -1
  BY DEF Frame, Figure

LEMMA CursorType ==
  ASSUME Types
  PROVE  Inc \in Int /\ Dec \in Int /\ cursor[cur] \in Int
  BY FramesType DEF Types, PageOK, CursorOK, Inc, Dec

LEMMA RefreshEffect ==
  ASSUME Types, NEW f \in Fx, NEW i \in Int, Refresh(i, f)
  PROVE  /\ CursorOK' /\ CanvasOK' /\ fx' \in Fx
         /\ cursor' = [cursor EXCEPT ![cur] = i] /\ cursor'[cur] = i
         /\ i + 1 \in 0..Frames[cur] => canvas' = Frame(cur, i + 1) /\ fx' = Dequeue(f)
         /\ i + 1 \notin 0..Frames[cur] => canvas' = canvas /\ fx' = f
  <1>1. cursor' = [cursor EXCEPT ![cur] = i]
    BY DEF Refresh
  <1>2. CursorOK' /\ cursor'[cur] = i
    BY <1>1 DEF Types, PageOK, CursorOK
  <1>3. CASE i + 1 \in 0..Frames[cur]
    <2>1. canvas' = Frame(cur, i + 1) /\ fx' = Dequeue(f)
      BY <1>3 DEF Refresh
    <2>2. CanvasOK'
      BY <2>1, PaintType DEF CanvasOK, Types, PageOK
    <2>3. fx' \in Fx
      BY <2>1, DequeueType
    <2>4. QED BY <1>1, <1>2, <1>3, <2>1, <2>2, <2>3
  <1>4. CASE i + 1 \notin 0..Frames[cur]
    BY <1>1, <1>2, <1>4 DEF Refresh, Types, CanvasOK
  <1>5. QED BY <1>3, <1>4

LEMMA ShowStaticEffect ==
  ASSUME Types, NEW pkg \in Pkgs, ShowStatic(pkg)
  PROVE  /\ CanvasOK' /\ FetchOK' /\ slider' \in Int
         /\ canvas' = canvas \/ canvas'.no = -1
         /\ \A q \in Pkgs \ {pkg} : fetching'[q] = fetching[q]
  <1>1. CASE figure[pkg] # None
    <2>1. figure[pkg] \in Pkgs \union {None}
      BY DEF Types, FigureOK
    <2>2. /\ canvas' = Figure(figure[pkg]) /\ slider' = Frames[pkg] - 1
          /\ fetching' = fetching
      BY <1>1 DEF ShowStatic
    <2>3. CanvasOK' /\ canvas'.no = -1
      BY <2>1, <2>2, PaintType DEF CanvasOK
    <2>4. slider' \in Int
      BY <2>2, FramesType
    <2>5. QED BY <2>2, <2>3, <2>4 DEF Types, FetchOK
  <1>2. CASE figure[pkg] = None
    BY <1>2 DEF ShowStatic, Types, PageOK, CanvasOK, FetchOK
  <1>3. QED BY <1>1, <1>2

LEMMA EnableType ==
  ASSUME Types, EnableButtons
  PROVE  SpeedOK' /\ playing' = FALSE
  BY DEF Types, SpeedOK, EnableButtons

LEMMA InitTypes == Init => Types
  <1> SUFFICES ASSUME Init PROVE Types
    OBVIOUS
  <1>1. PageOK /\ CursorOK /\ FigureOK /\ FetchOK
    <2>1. Raw \in Pkgs
      BY DEF Pkgs
    <2>2. PageOK
      <3>1. loading \subseteq Pkgs \X Kinds /\ cur \in Pkgs
        BY <2>1 DEF Init
      <3>2. kDone \in Int /\ slider \in Int
        BY DEF Init
      <3>3. shown \in BOOLEAN /\ playing \in BOOLEAN /\ crossed \in BOOLEAN /\ behind \in BOOLEAN
        BY DEF Init
      <3>4. QED BY <3>1, <3>2, <3>3 DEF PageOK
    <2>3. CursorOK /\ FigureOK /\ FetchOK
      BY DEF Init, CursorOK, FigureOK, FetchOK
    <2>4. QED BY <2>2, <2>3
  <1>2. CanvasOK /\ SpeedOK
    BY DEF Init, CanvasOK, NoPaint, SpeedOK
  <1>3. PICK q \in Queues : q = <<>>
    BY EmptyQueue
  <1>4. fx = [queue |-> q, timer |-> FALSE, loose |-> 0]
    BY <1>3 DEF Init
  <1>5. fx \in Fx
    BY <1>4 DEF Fx
  <1>6. QED BY <1>1, <1>2, <1>5 DEF Types

\* The queue as it is when one of its timers has fired.
LEMMA FiredType ==
  ASSUME Types, TimerFires
  PROVE  \E f \in Fx : f.queue = fx.queue /\ Run(f) /\ UNCHANGED Unclicked
  BY FxFields, LooseFields DEF TimerFires, Types

LEMMA RunTypes ==
  ASSUME Types, NEW f \in Fx, Run(f), UNCHANGED Unclicked
  PROVE  Types'
  <1>1. FigureOK' /\ FetchOK' /\ (playing' \in BOOLEAN => PageOK')
    BY DEF Types, PageOK, FigureOK, FetchOK, Unclicked
  <1>2. CASE /\ Upcoming(f) \in {"none", "delay"} /\ fx' = Dequeue(f)
             /\ UNCHANGED <<cursor, canvas, playing, speed>>
    BY <1>1, <1>2, DequeueType DEF Types, PageOK, CursorOK, CanvasOK, SpeedOK
  <1>3. CASE Upcoming(f) = "step" /\ Refresh(Inc, Begin(f)) /\ UNCHANGED <<playing, speed>>
    <2>1. Begin(f) \in Fx /\ Inc \in Int
      BY <1>3, UpcomingIs, BeginType, CursorType
    <2>2. CursorOK' /\ CanvasOK' /\ fx' \in Fx
      BY <1>3, <2>1, RefreshEffect
    <2>3. QED BY <1>1, <1>3, <2>2 DEF Types, PageOK, SpeedOK
  <1>4. CASE Upcoming(f) = "end" /\ fx' = Begin(f) /\ EnableButtons /\ UNCHANGED <<cursor, canvas>>
    <2>1. Begin(f) \in Fx
      BY <1>4, UpcomingIs, BeginType
    <2>2. QED BY <1>1, <1>4, <2>1, EnableType DEF Types, CursorOK, CanvasOK
  <1>5. QED BY <1>2, <1>3, <1>4 DEF Run

LEMMA LoadTypes ==
  ASSUME Types, Load
  PROVE  Types'
  <1>1. ASSUME NEW pkg \in Pkgs, NEW kind \in Kinds, TextArrives(pkg, kind)
        PROVE  Types'
    <2>1. CanvasOK' /\ FetchOK' /\ slider' \in Int /\ shown' \in BOOLEAN
      BY <1>1, ShowStaticEffect DEF TextArrives, Types, PageOK, CanvasOK, FetchOK
    <2>2. /\ loading' \subseteq Pkgs \X Kinds /\ kDone' \in Int
          /\ UNCHANGED <<cur, cursor, figure, playing, fx, speed, crossed, behind>>
      BY <1>1 DEF TextArrives, Types, PageOK
    <2>3. QED
      BY <2>1, <2>2 DEF Types, PageOK, CursorOK, FigureOK, SpeedOK
  <1>2. ASSUME NEW pkg \in Pkgs, NEW kind \in Kinds, TextLost(pkg, kind)
        PROVE  Types'
    BY <1>2 DEF TextLost, Types, PageOK, CursorOK, FigureOK, FetchOK, CanvasOK, SpeedOK
  <1>3. ASSUME NEW pkg \in Pkgs, FigureArrives(pkg)
        PROVE  Types'
    <2>1. canvas' = Figure(pkg) /\ slider' = Frames[cur] - 1
      BY <1>3 DEF FigureArrives, UpdateSlider
    <2>2. CanvasOK' /\ slider' \in Int
      BY <2>1, PaintType, FramesType DEF CanvasOK, Types, PageOK
    <2>3. FigureOK' /\ FetchOK'
      BY <1>3 DEF FigureArrives, Types, PageOK, FigureOK, FetchOK
    <2>4. QED
      BY <1>3, <2>2, <2>3 DEF FigureArrives, Types, PageOK, CursorOK, SpeedOK
  <1>4. ASSUME NEW pkg \in Pkgs, FigureLost(pkg)
        PROVE  Types'
    BY <1>4 DEF FigureLost, Types, PageOK, CursorOK, FigureOK, FetchOK, CanvasOK, SpeedOK
  <1>5. QED BY <1>1, <1>2, <1>3, <1>4 DEF Load

\* What play() puts on the queue.
Scripted(q, init, s) ==
  /\ q \in Queues /\ Len(q) = 2 * s + 2
  /\ init <= Frames[cur] => s = Frames[cur] - init + 1
  /\ init > Frames[cur] => s = 0
  /\ \A i \in 1 .. (2 * s + 2) :
       q[i] = IF i % 2 = 1 THEN "delay" ELSE IF i = 2 * s + 2 THEN "end" ELSE "step"

LEMMA ScriptType ==
  ASSUME Types, NEW init \in Int
  PROVE  \E s \in Nat : Scripted(Script(init), init, s)
  <1>1. Frames[cur] \in Nat
    BY FramesType DEF Types, PageOK
  <1>2. PICK s \in Nat : s = IF init <= Frames[cur] THEN Frames[cur] - init + 1 ELSE 0
    BY <1>1
  <1>3. PICK n \in Nat : n = 2 * s + 2
    OBVIOUS
  <1>4. Script(init) = [i \in 1 .. n |-> IF i % 2 = 1 THEN "delay"
                                        ELSE IF i = n THEN "end" ELSE "step"]
    BY <1>2, <1>3 DEF Script
  <1>5. \A i \in 1 .. n : (IF i % 2 = 1 THEN "delay"
                          ELSE IF i = n THEN "end" ELSE "step") \in Symbols
    BY DEF Symbols
  <1>6. PICK q : q = Script(init)
    OBVIOUS
  <1>7. q \in [1 .. n -> Symbols]
    BY <1>4, <1>5, <1>6
  <1>8. q \in Queues /\ Len(q) = n
    BY <1>7 DEF Queues
  <1>9. \A i \in 1 .. n : q[i] = IF i % 2 = 1 THEN "delay"
                                ELSE IF i = n THEN "end" ELSE "step"
    BY <1>4, <1>6
  <1>10. /\ init <= Frames[cur] => s = Frames[cur] - init + 1
         /\ init > Frames[cur] => s = 0
    BY <1>1, <1>2
  <1>11. /\ q \in Queues /\ Len(q) = 2 * s + 2
         /\ \A i \in 1 .. (2 * s + 2) : q[i] = IF i % 2 = 1 THEN "delay"
                              ELSE IF i = 2 * s + 2 THEN "end" ELSE "step"
    BY <1>3, <1>8, <1>9
  <1>12. QED
    <2> HIDE <1>6
    <2>1. Scripted(q, init, s)
      BY <1>10, <1>11 DEF Scripted
    <2>2. Scripted(Script(init), init, s)
      BY <1>6, <2>1
    <2>3. QED BY <2>2

LEMMA SwitchTypes ==
  ASSUME Types, Switch
  PROVE  /\ Types' /\ fx' = Dequeue(fx) /\ cur' # cur /\ cur' \in Pkgs
         /\ cursor'[cur'] = -1
         /\ canvas'.no = -1 \/ canvas'.of = cur'
         /\ \A pkg \in Pkgs \ {cur'} : fetching'[pkg] = fetching[pkg]
  <1>1. cur' \in Pkgs /\ cur' # cur
    BY ViewerAssumption DEF Switch, Pkgs
  <1>2. PICK p \in Pkgs : p = cur'
    BY <1>1
  <1>3. /\ cursor' = [cursor EXCEPT ![p] = -1] /\ fx' = Dequeue(fx)
        /\ UNCHANGED <<loading, kDone, shown, figure, playing, speed, behind>>
        /\ crossed' \in BOOLEAN
    BY <1>2 DEF Switch
  <1>4. CursorOK' /\ cursor'[cur'] = -1
    BY <1>2, <1>3 DEF Types, CursorOK
  <1>5. fx' \in Fx
    BY <1>3, DequeueType DEF Types
  <1>6. /\ CanvasOK' /\ FetchOK' /\ slider' \in Int
        /\ canvas'.no = -1 \/ canvas'.of = cur'
        /\ \A pkg \in Pkgs \ {p} : fetching'[pkg] = fetching[pkg]
    <2>1. CASE figure[p] # None
      <3>1. ShowStatic(p)
        BY <1>2, <2>1 DEF Switch
      <3>2. canvas' = Figure(figure[p]) /\ figure[p] \in Pkgs \union {None}
        BY <2>1, <3>1 DEF ShowStatic, Types, FigureOK
      <3>3. canvas'.no = -1
        BY <3>2, PaintType
      <3>4. QED BY <3>1, <3>3, ShowStaticEffect
    <2>2. CASE figure[p] = None
      <3>1. /\ fetching' = [fetching EXCEPT ![p] = @ + 1]
            /\ canvas' = Frame(p, 1) /\ slider' = slider
        BY <1>2, <2>2 DEF Switch
      <3>2. CanvasOK' /\ canvas'.of = p
        BY <3>1, PaintType DEF CanvasOK
      <3>3. FetchOK' /\ \A pkg \in Pkgs \ {p} : fetching'[pkg] = fetching[pkg]
        BY <3>1 DEF Types, FetchOK
      <3>4. QED BY <1>2, <3>1, <3>2, <3>3 DEF Types, PageOK
    <2>3. QED BY <2>1, <2>2
  <1>7. Types'
    BY <1>1, <1>3, <1>4, <1>5, <1>6 DEF Types, PageOK, FigureOK, SpeedOK
  <1>8. QED BY <1>1, <1>2, <1>3, <1>4, <1>6, <1>7

\* play() leaves the buttons off and its script on the queue.
LEMMA PlayTypes ==
  ASSUME Types, Play
  PROVE  /\ Types' /\ ~ playing /\ playing'
         /\ UNCHANGED <<cur, figure, fetching, canvas, crossed>>
         /\ cursor'[cur] = cursor[cur] \/ cursor'[cur] = -1
  <1>1. PICK init \in Int : init = IF cursor[cur] = Frames[cur] - 1 THEN -1 ELSE cursor[cur]
    <2>1. cursor[cur] \in Int /\ -1 \in Int
      BY CursorType
    <2>2. (IF cursor[cur] = Frames[cur] - 1 THEN -1 ELSE cursor[cur]) \in Int
      BY <2>1
    <2>3. QED BY <2>2
  <1>2. PICK s \in Queues : s = Script(init)
    BY ScriptType DEF Scripted
  <1>3. PICK q \in Queues : q = fx.queue
    BY FxFields DEF Types
  <1>4. q \o s \in Queues
    BY ConcatProperties DEF Queues
  <1>5. PICK all \in Fx : all = [fx EXCEPT !.queue = q \o s]
    BY <1>4 DEF Types, Fx
  <1>6. fx' = IF fx.queue = <<>> THEN Dequeue(all) ELSE all
    BY <1>1, <1>2, <1>3, <1>5 DEF Play
  <1>7. fx' \in Fx
    BY <1>6, DequeueType
  <1>8. /\ UNCHANGED <<loading, kDone, shown, cur, figure, fetching, slider, crossed, canvas>>
        /\ speed' = [speed EXCEPT !.faster = FALSE, !.slower = FALSE]
        /\ playing' = TRUE /\ behind' \in BOOLEAN /\ ~ playing
    BY DEF Play, CanClick
  <1>9. cursor' = [cursor EXCEPT ![cur] = init] /\ CursorOK' /\ cursor'[cur] = init
    <2>1. cursor' = [cursor EXCEPT ![cur] = init]
      BY <1>1 DEF Play
    <2>2. QED BY <2>1 DEF Types, PageOK, CursorOK
  <1>10. SpeedOK'
    BY <1>8 DEF Types, SpeedOK
  <1>11. Types'
    BY <1>7, <1>8, <1>9, <1>10 DEF Types, PageOK, FigureOK, FetchOK, CanvasOK
  <1>12. QED BY <1>1, <1>8, <1>9, <1>11

LEMMA TurnTypes ==
  ASSUME Types, Turn
  PROVE  /\ Types' /\ ~ playing /\ UNCHANGED <<Unclicked, playing, speed>>
         /\ \E i \in Int : Refresh(i, fx)
  <1>1. /\ ~ playing /\ UNCHANGED <<Unclicked, playing, speed>>
    BY DEF Turn, CanClick
  <1>2. PICK i \in Int : Refresh(i, fx)
    <2>1. Frames[cur] - 1 \in Int /\ slider \in Int
      BY FramesType DEF Types, PageOK
    <2>2. CASE Refresh(0, fx) \/ Refresh(Frames[cur] - 1, fx)
      BY <2>1, <2>2
    <2>3. CASE Refresh(Inc, fx) \/ Refresh(Dec, fx)
      BY <2>3, CursorType
    <2>4. CASE \E v \in 0..slider : Refresh(v, fx)
      BY <2>1, <2>4
    <2>5. QED BY <2>2, <2>3, <2>4 DEF Turn
  <1>3. CursorOK' /\ CanvasOK' /\ fx' \in Fx
    BY <1>2, RefreshEffect DEF Types
  <1>4. Types'
    BY <1>1, <1>3 DEF Types, PageOK, FigureOK, FetchOK, SpeedOK, Unclicked
  <1>5. QED BY <1>1, <1>2, <1>4

\* stop() paints a frame more if that is what comes next; then it empties the
\* queue, unless there was no such frame.
LEMMA StopEffect ==
  ASSUME Types, Stop
  PROVE  \E f \in Fx, i \in Int :
           /\ f.queue = fx.queue /\ Types' /\ UNCHANGED Unclicked
           /\ playing /\ cursor'[cur] = i
           /\ cursor' = [cursor EXCEPT ![cur] = i]
           /\ Upcoming(f) = "step" => i = Inc
           /\ Upcoming(f) # "step" => i = cursor[cur] /\ canvas' = canvas
           /\ i + 1 \in 0..Frames[cur] /\ Upcoming(f) = "step" => canvas' = Frame(cur, i + 1)
           /\ IF Upcoming(f) = "step" /\ i + 1 \notin 0..Frames[cur]
                THEN /\ fx' = Begin(f) /\ UNCHANGED <<playing, speed, canvas>>
                ELSE fx'.queue = <<>> /\ ~ playing'
  <1>1. PICK f \in Fx : f = [fx EXCEPT !.timer = FALSE] /\ f.queue = fx.queue
    BY FxFields DEF Types
  <1>2. PICK next : next = Upcoming(f)
    OBVIOUS
  <1>3. PICK i \in Int : i = IF next = "step" THEN Inc ELSE cursor[cur]
    BY CursorType
  <1>4. PICK painted \in BOOLEAN : painted <=> next = "step" /\ i + 1 \in 0..Frames[cur]
    OBVIOUS
  <1>5. PICK g : g = CASE next = "step" -> IF painted THEN Dequeue(Begin(f)) ELSE Begin(f)
                       [] next = "end"  -> Begin(f)
                       [] OTHER         -> Dequeue(f)
    OBVIOUS
  <1>6. g \in Fx
    <2>1. next \in {"step", "end"} => Begin(f) \in Fx
      BY <1>2, UpcomingIs, BeginType
    <2>2. CASE next = "step"
      <3>1. g = IF painted THEN Dequeue(Begin(f)) ELSE Begin(f)
        BY <1>5, <2>2
      <3>2. QED BY <2>1, <2>2, <3>1, DequeueType
    <2>3. CASE next = "end"
      <3>1. g = Begin(f)
        BY <1>5, <2>3
      <3>2. QED BY <2>1, <2>3, <3>1
    <2>4. CASE next \notin {"step", "end"}
      <3>1. g = Dequeue(f)
        BY <1>5, <2>4
      <3>2. QED BY <3>1, DequeueType
    <2>5. QED BY <2>2, <2>3, <2>4
  <1>7. /\ playing /\ UNCHANGED Unclicked
        /\ cursor' = [cursor EXCEPT ![cur] = i]
        /\ canvas' = IF painted THEN Frame(cur, i + 1) ELSE canvas
        /\ IF next = "step" /\ ~ painted
             THEN fx' = g /\ UNCHANGED <<playing, speed>>
             ELSE fx' = Cleared(g) /\ EnableButtons
    BY <1>1, <1>2, <1>3, <1>4, <1>5 DEF Stop
  <1>8. CursorOK' /\ cursor'[cur] = i
    BY <1>7 DEF Types, PageOK, CursorOK
  <1>9. CanvasOK'
    BY <1>7, PaintType DEF Types, PageOK, CanvasOK
  <1>10. fx' \in Fx /\ SpeedOK' /\ playing' \in BOOLEAN
    BY <1>6, <1>7, ClearedType, EnableType DEF Types, SpeedOK, PageOK
  <1>11. Types'
    BY <1>7, <1>8, <1>9, <1>10 DEF Types, PageOK, FigureOK, FetchOK, Unclicked
  <1>12. IF next = "step" /\ i + 1 \notin 0..Frames[cur]
           THEN fx' = Begin(f) /\ UNCHANGED <<playing, speed, canvas>>
           ELSE fx'.queue = <<>> /\ ~ playing'
    <2>1. CASE next = "step" /\ i + 1 \notin 0..Frames[cur]
      BY <1>4, <1>5, <1>7, <2>1
    <2>2. CASE ~ (next = "step" /\ i + 1 \notin 0..Frames[cur])
      BY <1>4, <1>6, <1>7, <2>2, ClearedType, EnableType
    <2>3. QED BY <2>1, <2>2
  <1>13. QED
    BY <1>1, <1>2, <1>3, <1>4, <1>7, <1>8, <1>11, <1>12

LEMMA ClickTypes ==
  ASSUME Types, Click
  PROVE  Types'
  <1>1. CASE Static
    <2>1. /\ CanvasOK' /\ FetchOK' /\ slider' \in Int
          /\ UNCHANGED <<loading, kDone, shown, cur, cursor, figure, playing, fx,
                         speed, crossed, behind>>
      BY <1>1, ShowStaticEffect DEF Static, Types, PageOK
    <2>2. QED BY <2>1 DEF Types, PageOK, CursorOK, FigureOK, SpeedOK
  <1>2. CASE Faster \/ Slower
    <2>1. SpeedOK'
      <3>1. PICK d \in Int : d = speed.delay
        BY DEF Types, SpeedOK
      <3>2. \/ speed' = [speed EXCEPT !.delay = d - 1, !.slower = TRUE]
            \/ speed' = [speed EXCEPT !.faster = FALSE]
            \/ speed' = [speed EXCEPT !.delay = d + 1, !.faster = TRUE]
            \/ speed' = [speed EXCEPT !.slower = FALSE]
        BY <1>2, <3>1 DEF Faster, Slower
      <3>3. d - 1 \in Int /\ d + 1 \in Int
        OBVIOUS
      <3>4. QED BY <3>2, <3>3 DEF Types, SpeedOK
    <2>2. UNCHANGED <<Unclicked, cursor, canvas, playing, fx>>
      BY <1>2 DEF Faster, Slower
    <2>3. QED
      BY <2>1, <2>2 DEF Types, PageOK, CursorOK, FigureOK, FetchOK, CanvasOK, Unclicked
  <1>3. QED
    BY <1>1, <1>2, TurnTypes, SwitchTypes, PlayTypes, StopEffect DEF Click

LEMMA NextTypes ==
  ASSUME Types, [Next]_vars
  PROVE  Types'
  <1>1. CASE UNCHANGED vars
    BY <1>1 DEF vars, Types, PageOK, CursorOK, FigureOK, FetchOK, CanvasOK, SpeedOK
  <1>2. CASE TimerFires
    BY <1>2, FiredType, RunTypes
  <1>3. QED BY <1>1, <1>2, LoadTypes, ClickTypes DEF Next

\* The globals of the page keep their types, in whatever order clicks, timers
\* and loads come.
THEOREM TypeCorrect == Spec => []TypeOK
  <1>1. Init => Types
    BY InitTypes
  <1>2. Types /\ [Next]_vars => Types'
    BY NextTypes
  <1>3. Types => TypeOK
    BY TypesIsTypeOK
  <1>4. QED BY <1>1, <1>2, <1>3, PTL DEF Spec

-----------------------------------------------------------------------------
(* The frame on the canvas.                                                *)

LEMMA RefreshFrame ==
  ASSUME Types, FrameIsCurrent, NEW f \in Fx, NEW i \in Int, Refresh(i, f), cur' = cur
  PROVE  FrameIsCurrent'
  <1>1. cursor'[cur] = i /\ cur \in Pkgs
    BY RefreshEffect DEF Types, PageOK
  <1>2. CASE i + 1 \in 0..Frames[cur]
    <2>1. canvas' = Frame(cur, i + 1)
      BY <1>2, RefreshEffect
    <2>2. canvas'.of = cur /\ canvas'.no = i + 1
      BY <1>1, <2>1, PaintType
    <2>3. QED BY <1>1, <2>2 DEF FrameIsCurrent
  <1>3. CASE i + 1 \notin 0..Frames[cur]
    <2>1. canvas' = canvas
      BY <1>3, RefreshEffect
    <2>2. i \notin -1..Frames[cur]-1
      BY <1>1, <1>3, FramesType
    <2>3. QED BY <1>1, <2>1, <2>2 DEF FrameIsCurrent, Astray
  <1>4. QED BY <1>2, <1>3

LEMMA StaticFrame ==
  ASSUME Types, FrameIsCurrent, UNCHANGED <<cur, cursor>>,
         canvas' = canvas \/ canvas'.no = -1
  PROVE  FrameIsCurrent'
  BY DEF FrameIsCurrent, Astray

LEMMA RunFrame ==
  ASSUME Types, FrameIsCurrent, NEW f \in Fx, Run(f), UNCHANGED Unclicked
  PROVE  FrameIsCurrent'
  <1>1. cur' = cur
    BY DEF Unclicked
  <1>2. CASE Upcoming(f) = "step" /\ Refresh(Inc, Begin(f))
    <2>1. Begin(f) \in Fx /\ Inc \in Int
      BY <1>2, UpcomingIs, BeginType, CursorType
    <2>2. QED BY <1>1, <1>2, <2>1, RefreshFrame
  <1>3. CASE UNCHANGED <<cursor, canvas>>
    BY <1>1, <1>3, StaticFrame
  <1>4. QED BY <1>2, <1>3 DEF Run

LEMMA LoadFrame ==
  ASSUME Types, FrameIsCurrent, Load
  PROVE  FrameIsCurrent'
  <1>1. ASSUME NEW pkg \in Pkgs, NEW kind \in Kinds, TextArrives(pkg, kind)
        PROVE  FrameIsCurrent'
    <2>1. UNCHANGED <<cur, cursor>> /\ (canvas' = canvas \/ ShowStatic(cur)) /\ cur \in Pkgs
      BY <1>1 DEF TextArrives, Types, PageOK
    <2>2. canvas' = canvas \/ canvas'.no = -1
      BY <2>1, ShowStaticEffect
    <2>3. QED BY <2>1, <2>2, StaticFrame
  <1>2. ASSUME NEW pkg \in Pkgs, FigureArrives(pkg)
        PROVE  FrameIsCurrent'
    <2>1. UNCHANGED <<cur, cursor>> /\ canvas' = Figure(pkg)
      BY <1>2 DEF FigureArrives
    <2>2. canvas'.no = -1
      BY <2>1, PaintType
    <2>3. QED BY <2>1, <2>2, StaticFrame
  <1>3. ASSUME NEW pkg \in Pkgs, NEW kind \in Kinds, TextLost(pkg, kind) \/ FigureLost(pkg)
        PROVE  FrameIsCurrent'
    BY <1>3, StaticFrame DEF TextLost, FigureLost
  <1>4. QED BY <1>1, <1>2, <1>3 DEF Load, Kinds

LEMMA ClickFrame ==
  ASSUME Types, FrameIsCurrent, Click
  PROVE  FrameIsCurrent'
  <1>1. CASE Turn
    <2>1. cur' = cur /\ fx \in Fx
      BY <1>1, TurnTypes DEF Unclicked, Types
    <2>2. PICK i \in Int : Refresh(i, fx)
      BY <1>1, TurnTypes
    <2>3. QED BY <2>1, <2>2, RefreshFrame
  <1>2. CASE Static
    <2>1. ShowStatic(cur) /\ UNCHANGED <<cur, cursor>> /\ cur \in Pkgs
      BY <1>2 DEF Static, Types, PageOK
    <2>2. QED BY <2>1, ShowStaticEffect, StaticFrame
  <1>3. CASE Switch
    <2>1. cursor'[cur'] = -1 /\ (canvas'.no = -1 \/ canvas'.of = cur')
      BY <1>3, SwitchTypes
    <2>2. QED BY <2>1 DEF FrameIsCurrent
  <1>4. CASE Play
    <2>1. UNCHANGED <<cur, canvas>> /\ (cursor'[cur] = cursor[cur] \/ cursor'[cur] = -1)
      BY <1>4, PlayTypes
    <2>2. QED BY <2>1 DEF FrameIsCurrent, Astray
  <1>5. CASE Stop
    <2>1. PICK f \in Fx, i \in Int :
            /\ cur' = cur /\ cursor'[cur] = i
            /\ Upcoming(f) # "step" => i = cursor[cur] /\ canvas' = canvas
            /\ Upcoming(f) = "step" /\ i + 1 \in 0..Frames[cur] => canvas' = Frame(cur, i + 1)
            /\ Upcoming(f) = "step" /\ i + 1 \notin 0..Frames[cur] => canvas' = canvas
      BY <1>5, StopEffect DEF Unclicked
    <2>2. cur \in Pkgs
      BY DEF Types, PageOK
    <2>3. CASE Upcoming(f) # "step"
      BY <2>1, <2>3 DEF FrameIsCurrent, Astray
    <2>4. CASE Upcoming(f) = "step" /\ i + 1 \in 0..Frames[cur]
      <3>1. canvas'.of = cur /\ canvas'.no = i + 1
        BY <2>1, <2>2, <2>4, PaintType
      <3>2. QED BY <2>1, <3>1 DEF FrameIsCurrent
    <2>5. CASE Upcoming(f) = "step" /\ i + 1 \notin 0..Frames[cur]
      <3>1. i \notin -1..Frames[cur]-1
        BY <2>2, <2>5, FramesType
      <3>2. QED BY <2>1, <2>5, <3>1 DEF FrameIsCurrent, Astray
    <2>6. QED BY <2>3, <2>4, <2>5
  <1>6. CASE Faster \/ Slower
    BY <1>6, StaticFrame DEF Faster, Slower, Unclicked
  <1>7. QED BY <1>1, <1>2, <1>3, <1>4, <1>5, <1>6 DEF Click

\* What refresh_canvas(), dedup() and show_static() leave on the canvas is of
\* the package shown and agrees with its cursor: no late timer paints a frame
\* of the package that was left.
THEOREM FrameIsCurrentHolds == Spec => []FrameIsCurrent
  <1>1. Init => Types /\ FrameIsCurrent
    BY InitTypes DEF Init, NoPaint, FrameIsCurrent
  <1>2. Types /\ FrameIsCurrent /\ [Next]_vars => Types' /\ FrameIsCurrent'
    <2> SUFFICES ASSUME Types, FrameIsCurrent, [Next]_vars PROVE FrameIsCurrent'
      BY NextTypes
    <2>1. CASE UNCHANGED vars
      BY <2>1, StaticFrame DEF vars
    <2>2. CASE TimerFires
      BY <2>2, FiredType, RunFrame
    <2>3. QED BY <2>1, <2>2, LoadFrame, ClickFrame DEF Next
  <1>3. QED BY <1>1, <1>2, PTL DEF Spec

-----------------------------------------------------------------------------
(* The static figures.                                                     *)

\* Until the checkbox is used with a figure under way, every load of a figure
\* is for the package shown.
OwnLoads == ~ crossed => /\ \A pkg \in Pkgs : fetching[pkg] > 0 => pkg = cur
                         /\ FigureOfPackage

LEMMA OwnLoadsKept ==
  ASSUME OwnLoads, UNCHANGED <<cur, figure, fetching, crossed>>
  PROVE  OwnLoads'
  BY DEF OwnLoads, FigureOfPackage

LEMMA OwnLoadsShow ==
  ASSUME Types, OwnLoads, ShowStatic(cur), UNCHANGED <<cur, figure, crossed>>
  PROVE  OwnLoads'
  <1>1. cur \in Pkgs
    BY DEF Types, PageOK
  <1>2. \A q \in Pkgs \ {cur} : fetching'[q] = fetching[q]
    BY <1>1, ShowStaticEffect
  <1>3. QED BY <1>2 DEF OwnLoads, FigureOfPackage

LEMMA OwnLoadsLoad ==
  ASSUME Types, OwnLoads, Load
  PROVE  OwnLoads'
  <1>1. ASSUME NEW pkg \in Pkgs, NEW kind \in Kinds, TextArrives(pkg, kind)
        PROVE  OwnLoads'
    <2>1. UNCHANGED <<cur, figure, crossed>> /\ (ShowStatic(cur) \/ fetching' = fetching)
      BY <1>1 DEF TextArrives
    <2>2. QED BY <2>1, OwnLoadsShow, OwnLoadsKept
  <1>2. ASSUME NEW pkg \in Pkgs, NEW kind \in Kinds, TextLost(pkg, kind)
        PROVE  OwnLoads'
    BY <1>2, OwnLoadsKept DEF TextLost
  <1>3. ASSUME NEW pkg \in Pkgs, FigureArrives(pkg) \/ FigureLost(pkg)
        PROVE  OwnLoads'
    <2>1. /\ fetching[pkg] > 0 /\ fetching' = [fetching EXCEPT ![pkg] = @ - 1]
          /\ UNCHANGED <<cur, crossed>>
          /\ figure' = figure \/ figure' = [figure EXCEPT ![cur] = pkg]
      BY <1>3 DEF FigureArrives, FigureLost
    <2>2. \A q \in Pkgs : fetching'[q] > 0 => fetching[q] > 0
      BY <2>1 DEF Types, FetchOK
    <2>3. ~ crossed => pkg = cur
      BY <2>1 DEF OwnLoads
    <2>4. ~ crossed => \A q \in Pkgs : figure'[q] \in {None, q}
      BY <2>1, <2>3 DEF OwnLoads, FigureOfPackage, Types, FigureOK
    <2>5. QED BY <2>1, <2>2, <2>4 DEF OwnLoads, FigureOfPackage
  <1>4. QED BY <1>1, <1>2, <1>3 DEF Load

LEMMA OwnLoadsClick ==
  ASSUME Types, OwnLoads, Click
  PROVE  OwnLoads'
  <1>1. CASE Static
    BY <1>1, OwnLoadsShow DEF Static
  <1>2. CASE Switch
    <2>1. /\ figure' = figure
          /\ crossed' = (crossed \/ \E pkg \in Pkgs : fetching[pkg] > 0)
      BY <1>2 DEF Switch
    <2>2. \A pkg \in Pkgs \ {cur'} : fetching'[pkg] = fetching[pkg]
      BY <1>2, SwitchTypes
    <2>3. QED BY <2>1, <2>2 DEF OwnLoads, FigureOfPackage
  <1>3. CASE Turn \/ Stop
    BY <1>3, TurnTypes, StopEffect, OwnLoadsKept DEF Unclicked
  <1>4. CASE Play
    BY <1>4, PlayTypes, OwnLoadsKept
  <1>5. CASE Faster \/ Slower
    BY <1>5, OwnLoadsKept DEF Faster, Slower, Unclicked
  <1>6. QED BY <1>1, <1>2, <1>3, <1>4, <1>5 DEF Click

\* The static figure that load_data() of show_static() keeps in cur_viz is the
\* one of that package, as long as nobody changes cur_viz during the load.
THEOREM FigureOfPackageHolds == Spec => []FigureOfPackage
  <1>1. Init => Types /\ OwnLoads
    <2>1. Init => OwnLoads
      BY DEF Init, OwnLoads, FigureOfPackage
    <2>2. QED BY <2>1, InitTypes
  <1>2. Types /\ OwnLoads /\ [Next]_vars => Types' /\ OwnLoads'
    <2> SUFFICES ASSUME Types, OwnLoads, [Next]_vars PROVE OwnLoads'
      BY NextTypes
    <2>1. CASE UNCHANGED vars
      BY <2>1, OwnLoadsKept DEF vars
    <2>2. CASE TimerFires
      BY <2>2, OwnLoadsKept DEF TimerFires, Unclicked
    <2>3. QED BY <2>1, <2>2, OwnLoadsLoad, OwnLoadsClick DEF Next
  <1>3. Types /\ OwnLoads => FigureOfPackage
    BY DEF OwnLoads, FigureOfPackage, Types, FigureOK
  <1>4. QED BY <1>1, <1>2, <1>3, PTL DEF Spec

-----------------------------------------------------------------------------
(* The queue of the animation.                                             *)

Idle(f) == f.queue = <<>> \/ f.queue = <<"inprogress">>

\* Enough functions are left to bring the cursor to the last frame.
Reaches == 2 * (Frames[cur] - 1 - cursor[cur]) <= Len(fx.queue) - 2

OnLine == Line(fx.queue) /\ Reaches /\ (Moving \/ Stranded)

Queueing == IF playing THEN OnLine ELSE Idle(fx)

LEMMA QueueingKept ==
  ASSUME Queueing, UNCHANGED <<cur, cursor, playing, fx, behind>>
  PROVE  Queueing'
  BY DEF Queueing, OnLine, Idle, Reaches, Line, Moving, Stranded, Astray

LEMMA Parity ==
  \A n \in Nat :
    /\ n % 2 = 0 \/ n % 2 = 1
    /\ n >= 2 => (n - 2) % 2 = n % 2
    /\ n >= 2 /\ n % 2 = 1 => n > 2
    /\ n >= 2 /\ n % 2 = 0 /\ n # 2 => n >= 4
  OBVIOUS

LEMMA LineLen ==
  ASSUME NEW f \in Fx, Line(f.queue)
  PROVE  /\ Len(f.queue) \in Nat /\ Len(f.queue) >= 2 /\ f.queue[1] = "inprogress"
         /\ f.queue[2] = IF Len(f.queue) % 2 = 1 THEN "delay"
                         ELSE IF Len(f.queue) = 2 THEN "end" ELSE "step"
  <1>1. PICK q \in Queues : q = f.queue
    BY FxFields
  <1>2. PICK n \in Nat : n = Len(q) /\ n >= 2
    BY <1>1, LenProperties DEF Line, Queues
  <1>3. q[2] = IF (n - 2) % 2 = 1 THEN "delay" ELSE IF 2 = n THEN "end" ELSE "step"
    <2>1. \A i \in 2 .. n : q[i] = IF (n - i) % 2 = 1 THEN "delay"
                                  ELSE IF i = n THEN "end" ELSE "step"
      BY <1>1, <1>2 DEF Line
    <2>2. 2 \in 2 .. n
      BY <1>2
    <2>3. QED BY <2>1, <2>2
  <1>4. (n - 2) % 2 = n % 2
    BY <1>2, Parity
  <1>5. QED BY <1>1, <1>2, <1>3, <1>4 DEF Line

\* One function less on a line: what runs and what is left.
LEMMA Runs ==
  ASSUME NEW f \in Fx, Line(f.queue)
  PROVE  /\ Len(f.queue) % 2 = 1 =>
              /\ Upcoming(f) = "delay" /\ Dequeue(f).timer
              /\ Line(Dequeue(f).queue) /\ Len(Dequeue(f).queue) = Len(f.queue) - 1
         /\ Len(f.queue) = 2 => Upcoming(f) = "end" /\ Begin(f).queue = <<"inprogress">>
         /\ Len(f.queue) % 2 = 0 /\ Len(f.queue) # 2 =>
              /\ Upcoming(f) = "step" /\ Begin(f) \in Fx /\ Len(f.queue) >= 4
              /\ Line(Begin(f).queue) /\ Len(Begin(f).queue) = Len(f.queue) - 1
              /\ Line(Dequeue(Begin(f)).queue) /\ Dequeue(Begin(f)).timer
              /\ Len(Dequeue(Begin(f)).queue) = Len(f.queue) - 2
  <1>1. PICK n \in Nat : n = Len(f.queue) /\ n >= 2
    BY LineLen
  <1>2. Upcoming(f) = IF n % 2 = 1 THEN "delay" ELSE IF n = 2 THEN "end" ELSE "step"
    BY <1>1, LineLen, LineGoesOn
  <1>3. /\ Waiting(f) # <<>> /\ Begin(f) \in Fx /\ Len(Begin(f).queue) = n - 1
        /\ n = 2 => Begin(f).queue = <<"inprogress">>
        /\ n > 2 => Line(Begin(f).queue)
    BY <1>1, LineGoesOn
  <1>4. ASSUME n % 2 = 1
        PROVE  /\ Dequeue(f).timer /\ Line(Dequeue(f).queue)
               /\ Len(Dequeue(f).queue) = n - 1
    <2>1. n > 2
      BY <1>1, <1>4, Parity
    <2>2. Dequeue(f).timer /\ Dequeue(f).queue = Begin(f).queue
      BY <1>3, DequeueType
    <2>3. QED BY <1>3, <2>1, <2>2
  <1>5. ASSUME n % 2 = 0, n # 2
        PROVE  /\ n >= 4
               /\ Line(Dequeue(Begin(f)).queue) /\ Dequeue(Begin(f)).timer
               /\ Len(Dequeue(Begin(f)).queue) = n - 2
    <2>1. n >= 4
      BY <1>1, <1>5, Parity
    <2>2. PICK g \in Fx : g = Begin(f) /\ Line(g.queue) /\ Len(g.queue) = n - 1
      BY <1>3, <2>1
    <2>3. /\ Waiting(g) # <<>> /\ Len(Begin(g).queue) = n - 2
          /\ Line(Begin(g).queue)
      <3>1. n - 1 > 2 /\ (n - 1) - 1 = n - 2
        BY <2>1
      <3>2. QED BY <2>2, <3>1, LineGoesOn
    <2>4. Dequeue(g).timer /\ Dequeue(g).queue = Begin(g).queue
      BY <2>3, DequeueType
    <2>5. Dequeue(Begin(f)) = Dequeue(g)
      BY <2>2
    <2>6. QED BY <2>1, <2>3, <2>4, <2>5
  <1>6. Len(f.queue) % 2 = 1 =>
              /\ Upcoming(f) = "delay" /\ Dequeue(f).timer
              /\ Line(Dequeue(f).queue) /\ Len(Dequeue(f).queue) = Len(f.queue) - 1
    BY <1>1, <1>2, <1>4
  <1>7. Len(f.queue) = 2 => Upcoming(f) = "end" /\ Begin(f).queue = <<"inprogress">>
    <2>1. 2 % 2 # 1
      OBVIOUS
    <2>2. QED BY <1>1, <1>2, <1>3, <2>1
  <1>8. Len(f.queue) % 2 = 0 /\ Len(f.queue) # 2 =>
              /\ Upcoming(f) = "step" /\ Begin(f) \in Fx /\ Len(f.queue) >= 4
              /\ Line(Begin(f).queue) /\ Len(Begin(f).queue) = Len(f.queue) - 1
              /\ Line(Dequeue(Begin(f)).queue) /\ Dequeue(Begin(f)).timer
              /\ Len(Dequeue(Begin(f)).queue) = Len(f.queue) - 2
    <2> SUFFICES ASSUME n % 2 = 0, n # 2
                 PROVE  /\ Upcoming(f) = "step" /\ Begin(f) \in Fx /\ n >= 4
                        /\ Line(Begin(f).queue) /\ Len(Begin(f).queue) = n - 1
                        /\ Line(Dequeue(Begin(f)).queue) /\ Dequeue(Begin(f)).timer
                        /\ Len(Dequeue(Begin(f)).queue) = n - 2
      BY <1>1
    <2>1. n % 2 # 1 /\ n > 2
      <3>1. n >= 4
        BY Parity, <1>1
      <3>2. n % 2 # 1
        OBVIOUS
      <3>3. QED BY <3>1, <3>2
    <2>2. QED BY <1>2, <1>3, <1>5, <2>1
  <1>9. QED BY <1>6, <1>7, <1>8

LEMMA Nearer ==
  /\ \A c \in Int, F \in Nat, n \in Nat :
       n % 2 = 1 /\ 2 * (F - 1 - c) <= n - 2 => 2 * (F - 1 - c) <= (n - 1) - 2
  /\ \A c \in Int, F \in Nat, n \in Nat :
       n >= 4 /\ 2 * (F - 1 - c) <= n - 2 =>
         LET d == IF c < F - 1 THEN c + 1 ELSE c IN
         /\ 2 * (F - 1 - d) <= (n - 1) - 2
         /\ 2 * (F - 1 - d) <= (n - 2) - 2
  OBVIOUS

\* A timer fires while the buttons are off.
LEMMA RunLine ==
  ASSUME Types, playing, OnLine, NEW f \in Fx, f.queue = fx.queue, Run(f),
         UNCHANGED Unclicked
  PROVE  IF playing' THEN OnLine'
         ELSE Idle(fx') /\ cursor' = cursor /\ cursor[cur] >= Frames[cur] - 1
  <1>1. Line(f.queue) /\ UNCHANGED <<cur, behind>>
    BY DEF OnLine, Unclicked
  <1>2. PICK n \in Nat : n = Len(f.queue) /\ n >= 2
    BY <1>1, LineLen
  <1>3. PICK c \in Int : c = cursor[cur]
    BY CursorType
  <1>4. PICK F \in Nat : F = Frames[cur]
    BY FramesType DEF Types, PageOK
  <1>5. 2 * (F - 1 - c) <= n - 2
    BY <1>2, <1>3, <1>4 DEF OnLine, Reaches
  <1>6. CASE n % 2 = 1
    <2>1. /\ Upcoming(f) = "delay" /\ Dequeue(f).timer
          /\ Line(Dequeue(f).queue) /\ Len(Dequeue(f).queue) = n - 1
      BY <1>1, <1>2, <1>6, Runs
    <2>2. fx' = Dequeue(f) /\ UNCHANGED <<cursor, playing>>
      BY <2>1 DEF Run
    <2>3. 2 * (F - 1 - c) <= (n - 1) - 2
      BY <1>5, <1>6, Nearer
    <2>4. QED
      BY <1>1, <1>3, <1>4, <2>1, <2>2, <2>3 DEF OnLine, Reaches, Moving
  <1>7. CASE n = 2
    <2>1. Upcoming(f) = "end" /\ Begin(f).queue = <<"inprogress">>
      BY <1>1, <1>2, <1>7, Runs
    <2>2. fx' = Begin(f) /\ ~ playing' /\ cursor' = cursor
      BY <2>1 DEF Run, EnableButtons
    <2>3. c >= F - 1
      BY <1>5, <1>7
    <2>4. QED BY <1>3, <1>4, <2>1, <2>2, <2>3 DEF Idle
  <1>8. CASE n % 2 = 0 /\ n # 2
    <2>1. /\ Upcoming(f) = "step" /\ Begin(f) \in Fx /\ n >= 4
          /\ Line(Begin(f).queue) /\ Len(Begin(f).queue) = n - 1
          /\ Line(Dequeue(Begin(f)).queue) /\ Dequeue(Begin(f)).timer
          /\ Len(Dequeue(Begin(f)).queue) = n - 2
      BY <1>1, <1>2, <1>8, Runs
    <2>2. Refresh(Inc, Begin(f)) /\ playing' = playing
      BY <2>1 DEF Run
    <2>3. PICK d \in Int : d = Inc
      BY CursorType
    <2>4. 2 * (F - 1 - d) <= (n - 1) - 2 /\ 2 * (F - 1 - d) <= (n - 2) - 2
      BY <1>3, <1>4, <1>5, <2>1, <2>3, Nearer DEF Inc
    <2>5. /\ cursor'[cur] = d
          /\ d + 1 \in 0..F => fx' = Dequeue(Begin(f))
          /\ d + 1 \notin 0..F => fx' = Begin(f)
      BY <1>4, <2>1, <2>2, <2>3, RefreshEffect
    <2>6. CASE d + 1 \in 0..F
      BY <1>1, <1>4, <2>1, <2>2, <2>4, <2>5, <2>6 DEF OnLine, Reaches, Moving
    <2>7. CASE d + 1 \notin 0..F
      <3>1. d \notin -1..F-1
        BY <2>7
      <3>2. Stranded'
        BY <1>1, <1>4, <2>5, <3>1 DEF Stranded, Astray
      <3>3. QED
        BY <1>1, <1>4, <2>1, <2>2, <2>4, <2>5, <2>7, <3>2 DEF OnLine, Reaches
    <2>8. QED BY <2>6, <2>7
  <1>9. n % 2 = 0 \/ n % 2 = 1
    BY <1>2, Parity
  <1>10. QED BY <1>6, <1>7, <1>8, <1>9

LEMMA IdleFields ==
  ASSUME NEW f \in Fx, Idle(f)
  PROVE  Upcoming(f) = "none" /\ Idle(Dequeue(f))
  BY IdleWaits DEF Idle

\* A timer fires with nothing on the queue.
LEMMA RunIdle ==
  ASSUME Types, ~ playing, Idle(fx), NEW f \in Fx, f.queue = fx.queue, Run(f)
  PROVE  ~ playing' /\ Idle(fx')
  <1>1. Idle(f)
    BY DEF Idle
  <1>2. Upcoming(f) = "none" /\ Idle(Dequeue(f))
    BY <1>1, IdleFields
  <1>3. QED BY <1>2 DEF Run

LEMMA Turns ==
  \A s, i \in Nat :
    /\ ((2 * s + 2) - i) % 2 = i % 2
    /\ ((2 * s + 3) - (i + 1)) % 2 = i % 2
  OBVIOUS

\* The script of play() behind what is under way, or started at once.
LEMMA ScriptLines ==
  ASSUME Types, NEW init \in Int, NEW s \in Nat, NEW q, Scripted(q, init, s)
  PROVE  /\ q # <<>> /\ Head(q) = "delay"
         /\ Line(<<"inprogress">> \o Tail(q))
         /\ Len(<<"inprogress">> \o Tail(q)) = 2 * s + 2
         /\ <<"inprogress">> \o q \in Queues
         /\ Line(<<"inprogress">> \o q)
         /\ Len(<<"inprogress">> \o q) = 2 * s + 3
  <1>1. PICK n \in Nat : n = 2 * s + 2 /\ n >= 2
    OBVIOUS
  <1>2. /\ q \in Queues /\ Len(q) = n
        /\ \A i \in 1 .. n : q[i] = IF i % 2 = 1 THEN "delay"
                                    ELSE IF i = n THEN "end" ELSE "step"
    BY <1>1 DEF Scripted
  <1>3. q # <<>>
    <2>1. Len(<<>>) = 0
      BY EmptySeq
    <2>2. QED BY <1>1, <1>2, <2>1
  <1>4. Head(q) = "delay"
    <2>1. Head(q) = q[1]
      OBVIOUS
    <2>2. 1 \in 1 .. n /\ 1 % 2 = 1
      BY <1>1
    <2>3. QED BY <1>2, <2>1, <2>2
  <1>5. PICK b \in Queues : /\ b = <<"inprogress">> \o Tail(q)
                            /\ Len(b) = n /\ b[1] = "inprogress"
                            /\ \A i \in 2 .. n : b[i] = q[i]
    BY <1>2, <1>3, SentinelOn
  <1>6. Line(b)
    <2>1. ASSUME NEW i \in 2 .. n
          PROVE  b[i] = IF (n - i) % 2 = 1 THEN "delay" ELSE IF i = n THEN "end" ELSE "step"
      <3>1. i \in Nat /\ i \in 1 .. n /\ (n - i) % 2 = i % 2
        BY <1>1, Turns
      <3>2. QED BY <1>2, <1>5, <3>1
    <2>2. QED BY <1>1, <1>5, <2>1 DEF Line
  <1>7. PICK r \in Queues : r = <<"inprogress">> /\ Len(r) = 1 /\ r[1] = "inprogress"
    BY Singleton DEF Symbols
  <1>8. /\ r \o q \in Queues /\ Len(r \o q) = Len(r) + Len(q)
        /\ \A i \in 1 .. Len(r) + Len(q) :
             (r \o q)[i] = IF i <= Len(r) THEN r[i] ELSE q[i - Len(r)]
    BY <1>2, ConcatProperties DEF Queues
  <1>9. PICK t \in Queues : t = r \o q
    BY <1>8
  <1>10. /\ Len(t) = n + 1 /\ t[1] = "inprogress"
         /\ \A i \in 2 .. n + 1 : t[i] = q[i - 1]
    BY <1>1, <1>2, <1>7, <1>8, <1>9
  <1>11. Line(t)
    <2>1. ASSUME NEW i \in 2 .. n + 1
          PROVE  t[i] = IF ((n + 1) - i) % 2 = 1 THEN "delay"
                        ELSE IF i = n + 1 THEN "end" ELSE "step"
      <3>1. PICK j \in Nat : i = j + 1 /\ j \in 1 .. n
        <4>1. i - 1 \in Nat /\ i = (i - 1) + 1 /\ i - 1 \in 1 .. n
          BY <1>1
        <4>2. QED BY <4>1
      <3>2. ((n + 1) - i) % 2 = j % 2
        BY <1>1, <3>1, Turns
      <3>3. t[i] = q[j] /\ (i = n + 1 <=> j = n)
        BY <1>1, <1>10, <3>1
      <3>4. QED BY <1>2, <3>1, <3>2, <3>3
    <2>2. QED BY <1>1, <1>10, <2>1 DEF Line
  <1>12. Len(t) = 2 * s + 3 /\ t = <<"inprogress">> \o q
    BY <1>1, <1>7, <1>9, <1>10
  <1>13. QED BY <1>1, <1>3, <1>4, <1>5, <1>6, <1>9, <1>11, <1>12

LEMMA Enough ==
  ASSUME NEW F \in Nat, NEW init \in Int, NEW s \in Nat,
         init <= F => s = F - init + 1, init > F => s = 0
  PROVE  /\ 2 * (F - 1 - init) <= (2 * s + 2) - 2
         /\ 2 * (F - 1 - init) <= (2 * s + 3) - 2
  OBVIOUS

LEMMA PlayLine ==
  ASSUME Types, Idle(fx), Play
  PROVE  OnLine' /\ playing'
  <1>1. PICK init \in Int : init = IF cursor[cur] = Frames[cur] - 1 THEN -1 ELSE cursor[cur]
    <2>1. cursor[cur] \in Int /\ -1 \in Int
      BY CursorType
    <2>2. (IF cursor[cur] = Frames[cur] - 1 THEN -1 ELSE cursor[cur]) \in Int
      BY <2>1
    <2>3. QED BY <2>2
  <1>2. PICK script : script = Script(init)
    OBVIOUS
  <1>3. PICK s \in Nat : Scripted(script, init, s)
    BY <1>2, ScriptType
  <1>4. PICK all : all = [fx EXCEPT !.queue = fx.queue \o script]
    OBVIOUS
  <1>5. /\ fx' = IF fx.queue = <<>> THEN Dequeue(all) ELSE all
        /\ cursor' = [cursor EXCEPT ![cur] = init] /\ cur' = cur
        /\ playing' = TRUE /\ behind' = (fx.queue # <<>>)
    BY <1>1, <1>2, <1>4 DEF Play
  <1>6. /\ script # <<>> /\ Head(script) = "delay"
        /\ Line(<<"inprogress">> \o Tail(script))
        /\ Len(<<"inprogress">> \o Tail(script)) = 2 * s + 2
        /\ <<"inprogress">> \o script \in Queues
        /\ Line(<<"inprogress">> \o script)
        /\ Len(<<"inprogress">> \o script) = 2 * s + 3
    BY <1>3, ScriptLines
  <1>7. cursor'[cur] = init /\ Frames[cur] \in Nat
    BY <1>5, FramesType DEF Types, PageOK, CursorOK
  <1>8. /\ 2 * (Frames[cur] - 1 - init) <= (2 * s + 2) - 2
        /\ 2 * (Frames[cur] - 1 - init) <= (2 * s + 3) - 2
    BY <1>3, <1>7, Enough DEF Scripted
  <1>9. CASE fx.queue = <<>>
    <2>1. script \in Queues
      BY <1>3 DEF Scripted
    <2>2. <<>> \o script = script
      BY <2>1, ConcatEmptySeq DEF Queues
    <2>3. all \in Fx /\ all.queue = script
      <3>1. all = [fx EXCEPT !.queue = script]
        BY <1>4, <1>9, <2>2
      <3>2. QED BY <2>1, <3>1 DEF Types, Fx
    <2>4. Waiting(all) = script
      BY <1>6, <2>3 DEF Waiting
    <2>5. Dequeue(all).timer /\ Dequeue(all).queue = <<"inprogress">> \o Tail(script)
      BY <1>6, <2>3, <2>4, DequeueType, BeginType
    <2>6. fx' = Dequeue(all)
      BY <1>5, <1>9
    <2>7. QED BY <1>5, <1>6, <1>7, <1>8, <2>5, <2>6 DEF OnLine, Reaches, Moving
  <1>10. CASE fx.queue = <<"inprogress">>
    <2>1. fx.queue # <<>>
      BY <1>10
    <2>2. all.queue = <<"inprogress">> \o script
      BY <1>4, <1>10 DEF Types, Fx
    <2>3. fx' = all /\ behind'
      BY <1>5, <2>1
    <2>4. QED BY <1>5, <1>6, <1>7, <1>8, <2>2, <2>3 DEF OnLine, Reaches, Stranded
  <1>11. QED BY <1>5, <1>9, <1>10 DEF Idle

\* stop() empties the queue; when it throws, the play stays stranded.
LEMMA StopLine ==
  ASSUME Types, OnLine, Stop
  PROVE  IF playing' THEN OnLine' ELSE Idle(fx')
  <1>1. PICK f \in Fx, i \in Int :
           /\ f.queue = fx.queue /\ cur' = cur /\ behind' = behind /\ playing
           /\ cursor'[cur] = i
           /\ Upcoming(f) = "step" => i = Inc
           /\ IF Upcoming(f) = "step" /\ i + 1 \notin 0..Frames[cur]
                THEN fx' = Begin(f) /\ playing' = playing
                ELSE fx'.queue = <<>> /\ ~ playing'
    BY StopEffect DEF Unclicked
  <1>2. CASE ~ (Upcoming(f) = "step" /\ i + 1 \notin 0..Frames[cur])
    BY <1>1, <1>2 DEF Idle
  <1>3. CASE Upcoming(f) = "step" /\ i + 1 \notin 0..Frames[cur]
    <2>1. PICK n \in Nat : n = Len(f.queue) /\ n >= 2
      BY <1>1, LineLen DEF OnLine
    <2>2. PICK c \in Int : c = cursor[cur]
      BY CursorType
    <2>3. PICK F \in Nat : F = Frames[cur]
      BY FramesType DEF Types, PageOK
    <2>4. Line(f.queue) /\ 2 * (F - 1 - c) <= n - 2
      BY <1>1, <2>1, <2>2, <2>3 DEF OnLine, Reaches
    <2>5. n % 2 # 1 /\ n # 2
      BY <1>3, <2>1, <2>4, Runs
    <2>6. n >= 4 /\ Line(Begin(f).queue) /\ Len(Begin(f).queue) = n - 1
      BY <2>1, <2>4, <2>5, Runs, Parity
    <2>7. i = IF c < F - 1 THEN c + 1 ELSE c
      BY <1>1, <1>3, <2>2, <2>3 DEF Inc
    <2>8. 2 * (F - 1 - i) <= (n - 1) - 2
      BY <2>4, <2>6, <2>7, Nearer
    <2>9. i \notin -1..F-1
      BY <1>3, <2>3
    <2>10. Stranded'
      BY <1>1, <2>3, <2>9 DEF Stranded, Astray
    <2>11. QED
      BY <1>1, <1>3, <2>3, <2>6, <2>8, <2>10 DEF OnLine, Reaches
  <1>4. QED BY <1>2, <1>3

LEMMA ClickLine ==
  ASSUME Types, Queueing, Click
  PROVE  Queueing'
  <1>1. CASE Turn
    <2>1. ~ playing /\ ~ playing' /\ Idle(fx) /\ fx \in Fx
      BY <1>1, TurnTypes DEF Queueing, Types
    <2>2. PICK i \in Int : Refresh(i, fx)
      BY <1>1, TurnTypes
    <2>3. Idle(fx')
      BY <2>1, <2>2, RefreshEffect, IdleFields DEF Types
    <2>4. QED BY <2>1, <2>3 DEF Queueing
  <1>2. CASE Static
    BY <1>2, QueueingKept DEF Static
  <1>3. CASE Switch
    <2>1. ~ playing /\ playing' = playing /\ fx' = Dequeue(fx) /\ fx \in Fx
      BY <1>3 DEF Switch, CanClick, Types
    <2>2. QED BY <2>1, IdleFields DEF Queueing
  <1>4. CASE Play
    <2>1. ~ playing
      BY <1>4, PlayTypes
    <2>2. QED BY <1>4, <2>1, PlayLine DEF Queueing
  <1>5. CASE Stop
    <2>1. playing
      BY <1>5 DEF Stop
    <2>2. QED BY <1>5, <2>1, StopLine DEF Queueing
  <1>6. CASE Faster \/ Slower
    BY <1>6, QueueingKept DEF Faster, Slower, Unclicked
  <1>7. QED BY <1>1, <1>2, <1>3, <1>4, <1>5, <1>6 DEF Click

LEMMA LoadLine ==
  ASSUME Queueing, Load
  PROVE  Queueing'
  BY QueueingKept DEF Load, TextArrives, TextLost, FigureArrives, FigureLost

LEMMA FiredLine ==
  ASSUME Types, Queueing, TimerFires
  PROVE  /\ Queueing'
         /\ playing /\ ~ playing' => cursor'[cur] >= Frames[cur] - 1
  <1>1. PICK f \in Fx : f.queue = fx.queue /\ Run(f) /\ UNCHANGED Unclicked
    BY FiredType
  <1>2. CASE playing
    <2>1. IF playing' THEN OnLine'
          ELSE Idle(fx') /\ cursor' = cursor /\ cursor[cur] >= Frames[cur] - 1
      BY <1>1, <1>2, RunLine DEF Queueing
    <2>2. QED BY <1>2, <2>1 DEF Queueing
  <1>3. CASE ~ playing
    BY <1>1, <1>3, RunIdle DEF Queueing
  <1>4. QED BY <1>2, <1>3

\* Types and Queueing, in every state.
LEMMA QueueingHolds == Spec => [](Types /\ Queueing)
  <1>1. Init => Types /\ Queueing
    <2>1. Init => Queueing
      BY DEF Init, Queueing, Idle
    <2>2. QED BY <2>1, InitTypes
  <1>2. Types /\ Queueing /\ [Next]_vars => Types' /\ Queueing'
    <2> SUFFICES ASSUME Types, Queueing, [Next]_vars PROVE Queueing'
      BY NextTypes
    <2>1. CASE UNCHANGED vars
      BY <2>1, QueueingKept DEF vars
    <2>2. QED BY <2>1, FiredLine, LoadLine, ClickLine DEF Next
  <1>3. QED BY <1>1, <1>2, PTL DEF Spec

\* While play() has the buttons disabled, either a timer of the queue is still
\* to fire, or the play was queued behind the sentinel of the one before it,
\* or the cursor is outside the frames: stop(), delay() and refresh_canvas()
\* never lose the chain otherwise.
THEOREM ChainAliveHolds == Spec => []ChainAlive
  <1>1. Types /\ Queueing => ChainAlive
    BY DEF Queueing, OnLine, ChainAlive
  <1>2. QED BY <1>1, QueueingHolds, PTL

\* A play that gives the buttons back by itself has stepped through to the
\* last frame, wherever the cursor stood, whatever was clicked meanwhile and
\* whichever timers outlived an earlier stop().
THEOREM PlayReachesLastHolds == Spec => PlayReachesLast
  <1>1. Types /\ Queueing /\ [Next]_vars
          => [playing /\ TimerFires /\ ~ playing' => cursor'[cur] >= Frames[cur] - 1]_vars
    BY FiredLine DEF Next
  <1>2. QED BY <1>1, QueueingHolds, PTL DEF Spec, PlayReachesLast

=============================================================================
