-------------------------------- MODULE Viewer --------------------------------
(***************************************************************************)
(* SecSTAR.js, the page that plays back a recorded trace: two packages of  *)
(* figures (raw, and with identical nodes grouped), a canvas, buttons, and *)
(* an animation that is a queue of functions on the canvas.  Everything    *)
(* runs in callbacks: clicks, timers, and loads that come in any order or  *)
(* never.                                                                  *)
(*                                                                         *)
(* The queue is jQuery's "fx" queue (version 1.7.2, outside the project).  *)
(* Its contract: while one of its functions is under way the queue starts  *)
(* with "inprogress"; a function that is done must call dequeue(), which   *)
(* takes the next one out and runs it; delay() is a function that does so  *)
(* from a timer; stop() knows the timer of the last delay only.            *)
(***************************************************************************)
EXTENDS Integers, Sequences

CONSTANTS
  Raw, Dedup,   \* viz and viz_dedup
  Frames,       \* num_frames of each
  None,         \* nothing painted, no figure cached
  MaxDelay,     \* kMaxDelay, in units of kMinDelay
  MaxFetches,   \* bound: figures of one package under way
  MaxLoose      \* bound: timers that outlived a stop()

Pkgs  == {Raw, Dedup}
Kinds == {"svgs", "events"}

ASSUME ViewerAssumption ==
  /\ Raw # Dedup /\ None \notin Pkgs
  /\ Frames \in [Pkgs -> Nat \ {0}]
  /\ MaxDelay \in Nat /\ MaxFetches \in Nat /\ MaxLoose \in Nat

VARIABLES
  loading,    \* get_data() calls under way
  kDone,      \* texts still to come before the page is shown
  shown,      \* show_ui() has run
  cur,        \* cur_viz
  cursor,     \* cursor[pkg]: the frame the package is at, -1 before the first
  figure,     \* figure[pkg]: whose static_svg the package has cached
  fetching,   \* fetching[pkg]: loads of its static figure under way
  canvas,     \* what is painted
  slider,     \* the largest value the slider can take, -1 before its set-up
  playing,    \* play() has disabled the buttons
  fx,         \* the queue on the canvas and its timers
  speed,      \* kDelay and the two buttons that change it
  crossed,    \* history: the checkbox was used with a figure under way
  behind      \* history: the last play() found a function under way

vars == <<loading, kDone, shown, cur, cursor, figure, fetching, canvas, slider,
          playing, fx, speed, crossed, behind>>

NoPaint        == [of |-> None, no |-> 0]
Figure(pkg)    == [of |-> pkg, no |-> -1]
Frame(pkg, no) == [of |-> pkg, no |-> no]   \* 1-based, 0 is a blank canvas

Init ==
  /\ loading = Pkgs \X Kinds
  /\ kDone = 4
  /\ shown = FALSE
  /\ cur = Raw
  /\ cursor = [pkg \in Pkgs |-> -1]
  /\ figure = [pkg \in Pkgs |-> None]
  /\ fetching = [pkg \in Pkgs |-> 0]
  /\ canvas = NoPaint
  /\ slider = -1
  /\ playing = FALSE
  /\ fx = [queue |-> <<>>, timer |-> FALSE, loose |-> 0]
  /\ speed = [delay |-> 1, faster |-> TRUE, slower |-> TRUE]
  /\ crossed = FALSE
  /\ behind = FALSE

-----------------------------------------------------------------------------
(* The queue.                                                              *)

\* What is to run next: the sentinel at the front is dropped first.
Waiting(f) ==
  IF f.queue # <<>> /\ Head(f.queue) = "inprogress" THEN Tail(f.queue)
                                                    ELSE f.queue

Upcoming(f) == IF Waiting(f) = <<>> THEN "none" ELSE Head(Waiting(f))

\* A function of the queue starts: it is out, the sentinel is in, and the
\* queue forgets the timer it knew, which runs on if it was still to fire.
Begin(f) ==
  [queue |-> <<"inprogress">> \o Tail(Waiting(f)),
   timer |-> FALSE,
   loose |-> f.loose + IF f.timer THEN 1 ELSE 0]

\* dequeue() with a delay or nothing at all to run.
Dequeue(f) ==
  IF Waiting(f) = <<>>
    THEN [queue |-> <<>>, timer |-> FALSE,
          loose |-> f.loose + IF f.timer THEN 1 ELSE 0]
    ELSE [Begin(f) EXCEPT !.timer = TRUE]

\* Slip: the frame is painted and the queue is left to itself.
RefreshStays(i, f) ==
  /\ cursor' = [cursor EXCEPT ![cur] = i]
  /\ canvas' = Frame(cur, i + 1)
  /\ fx' = f

\* refresh_canvas(i) paints frame i + 1 and dequeues.  With no such frame,
\* html(undefined) returns a string and the call of dequeue() on it throws.
Refresh(i, f) ==
  /\ cursor' = [cursor EXCEPT ![cur] = i]
  /\ IF i + 1 \in 0..Frames[cur]
       THEN canvas' = Frame(cur, i + 1) /\ fx' = Dequeue(f)
       ELSE canvas' = canvas /\ fx' = f

\* inc_cursor() and dec_cursor().
Inc == IF cursor[cur] < Frames[cur] - 1 THEN cursor[cur] + 1 ELSE cursor[cur]
Dec == IF cursor[cur] > 0 THEN cursor[cur] - 1 ELSE cursor[cur]

\* Buttons on, and the two speed buttons where the delay allows.
EnableButtons ==
  /\ playing' = FALSE
  /\ speed' = [speed EXCEPT !.faster = speed.delay >= 1 \/ speed.faster,
                            !.slower = speed.delay < MaxDelay \/ speed.slower]

\* A timer calls dequeue(): a delay begins, a frame is painted, or the
\* buttons come back.  (The last function does not call dequeue().)
Run(f) ==
  \/ /\ Upcoming(f) \in {"none", "delay"}
     /\ fx' = Dequeue(f)
     /\ UNCHANGED <<cursor, canvas, playing, speed>>
  \/ /\ Upcoming(f) = "step"
     /\ Refresh(Inc, Begin(f))
     /\ UNCHANGED <<playing, speed>>
  \/ /\ Upcoming(f) = "end"
     /\ fx' = Begin(f)
     /\ EnableButtons
     /\ UNCHANGED <<cursor, canvas>>

Unclicked == <<loading, kDone, shown, cur, figure, fetching, slider, crossed,
               behind>>

TimerFires ==
  /\ \/ fx.timer /\ Run([fx EXCEPT !.timer = FALSE])
     \/ fx.loose > 0 /\ Run([fx EXCEPT !.loose = @ - 1])
  /\ UNCHANGED Unclicked

-----------------------------------------------------------------------------
(* Loading.                                                                *)

\* update_slider(): the range follows the package shown.
UpdateSlider == slider' = Frames[cur] - 1

\* show_static(): from the cache, or by a load of the package's own file.
ShowStatic(pkg) ==
  IF figure[pkg] # None
    THEN /\ canvas' = Figure(figure[pkg])
         /\ slider' = Frames[pkg] - 1
         /\ UNCHANGED fetching
    ELSE /\ fetching[pkg] < MaxFetches
         /\ fetching' = [fetching EXCEPT ![pkg] = @ + 1]
         /\ UNCHANGED <<canvas, slider>>

\* load_data() of get_data(): the fourth text shows the page.
TextArrives(pkg, kind) ==
  /\ <<pkg, kind>> \in loading
  /\ loading' = loading \ {<<pkg, kind>>}
  /\ kDone' = kDone - 1
  /\ IF kDone' = 0
       THEN shown' = TRUE /\ ShowStatic(cur)
       ELSE UNCHANGED <<shown, canvas, slider, fetching>>
  /\ UNCHANGED <<cur, cursor, figure, playing, fx, speed, crossed,
                 behind>>

\* onerror() writes to the console; an exception in a callback does not even
\* that.  The page stays as it is.
TextLost(pkg, kind) ==
  /\ <<pkg, kind>> \in loading
  /\ loading' = loading \ {<<pkg, kind>>}
  /\ UNCHANGED <<kDone, shown, cur, cursor, figure, fetching, canvas, slider,
                 playing, fx, speed, crossed, behind>>

\* Slip: the figure is always kept with the first package.
FigureArrivesInRaw(pkg) ==
  /\ fetching[pkg] > 0
  /\ fetching' = [fetching EXCEPT ![pkg] = @ - 1]
  /\ figure' = [figure EXCEPT ![Raw] = pkg]
  /\ canvas' = Figure(pkg)
  /\ UpdateSlider
  /\ UNCHANGED <<loading, kDone, shown, cur, cursor, playing, fx, speed, crossed,
                 behind>>

\* load_data() of show_static(): into the package shown now, on the canvas.
FigureArrives(pkg) ==
  /\ fetching[pkg] > 0
  /\ fetching' = [fetching EXCEPT ![pkg] = @ - 1]
  /\ figure' = [figure EXCEPT ![cur] = pkg]
  /\ canvas' = Figure(pkg)
  /\ UpdateSlider
  /\ UNCHANGED <<loading, kDone, shown, cur, cursor, playing, fx, speed, crossed,
                 behind>>

FigureLost(pkg) ==
  /\ fetching[pkg] > 0
  /\ fetching' = [fetching EXCEPT ![pkg] = @ - 1]
  /\ UNCHANGED <<loading, kDone, shown, cur, cursor, figure, canvas, slider,
                 playing, fx, speed, crossed, behind>>

-----------------------------------------------------------------------------
(* Clicks.                                                                 *)

CanClick == shown /\ ~ playing

\* first(), last(), next(), previous(), and the slider.
Turn ==
  /\ CanClick
  /\ \/ Refresh(0, fx) \/ Refresh(Frames[cur] - 1, fx)
     \/ Refresh(Inc, fx) \/ Refresh(Dec, fx)
     \/ \E v \in 0..slider : Refresh(v, fx)
  /\ UNCHANGED <<Unclicked, playing, speed>>

Static ==
  /\ CanClick
  /\ ShowStatic(cur)
  /\ UNCHANGED <<loading, kDone, shown, cur, cursor, figure, playing, fx, speed, crossed,
                 behind>>

\* Slip: the figure is left to show_static() alone.
SwitchUnpainted ==
  /\ CanClick
  /\ cur' = IF cur = Raw THEN Dedup ELSE Raw
  /\ crossed' = (crossed \/ \E pkg \in Pkgs : fetching[pkg] > 0)
  /\ cursor' = [cursor EXCEPT ![cur'] = -1]
  /\ fx' = Dequeue(fx)
  /\ ShowStatic(cur')
  /\ UNCHANGED <<loading, kDone, shown, figure, playing, speed, behind>>

\* dedup(): the other package, its first frame, then its static figure.
Switch ==
  /\ CanClick
  /\ cur' = IF cur = Raw THEN Dedup ELSE Raw
  /\ crossed' = (crossed \/ \E pkg \in Pkgs : fetching[pkg] > 0)
  /\ cursor' = [cursor EXCEPT ![cur'] = -1]
  /\ fx' = Dequeue(fx)
  /\ IF figure[cur'] # None
       THEN ShowStatic(cur')
       ELSE /\ fetching[cur'] < MaxFetches
            /\ fetching' = [fetching EXCEPT ![cur'] = @ + 1]
            /\ canvas' = Frame(cur', 1)
            /\ UNCHANGED slider
  /\ UNCHANGED <<loading, kDone, shown, figure, playing, speed, behind>>

\* Slip: one delay and one frame for each frame after the first.
ScriptShort(init) ==
  [i \in 1 .. (2 * (Frames[cur] - 1) + 2) |->
     IF i % 2 = 1 THEN "delay"
     ELSE IF i = 2 * (Frames[cur] - 1) + 2 THEN "end" ELSE "step"]

\* What play() queues: a delay and a frame for each i of
\* for (i = init_i; i <= num_frames; i++), then a delay and the buttons.
Script(init) ==
  LET steps == IF init <= Frames[cur] THEN Frames[cur] - init + 1 ELSE 0 IN
  [i \in 1 .. (2 * steps + 2) |->
     IF i % 2 = 1 THEN "delay" ELSE IF i = 2 * steps + 2 THEN "end" ELSE "step"]

\* play(): queue() starts a queue that has no function under way.
Play ==
  LET init == IF cursor[cur] = Frames[cur] - 1 THEN -1 ELSE cursor[cur]
      all  == [fx EXCEPT !.queue = @ \o Script(init)]
  IN
  /\ CanClick
  /\ cursor' = [cursor EXCEPT ![cur] = init]
  /\ fx' = IF fx.queue = <<>> THEN Dequeue(all) ELSE all
  /\ playing' = TRUE
  /\ speed' = [speed EXCEPT !.faster = FALSE, !.slower = FALSE]
  /\ behind' = (fx.queue # <<>>)
  /\ UNCHANGED <<loading, kDone, shown, cur, figure, fetching, slider, crossed,
                 canvas>>

\* What clearQueue() leaves: the timer that stop()'s own dequeue() may have
\* started is known to nobody.
Cleared(f) == [queue |-> <<>>, timer |-> FALSE,
               loose |-> f.loose + IF f.timer THEN 1 ELSE 0]

\* stop(): the timer of the last delay is cleared, then dequeue() runs what
\* comes next (a frame more), then the queue is emptied.
Stop ==
  LET f == [fx EXCEPT !.timer = FALSE]
      next == Upcoming(f)
      i == IF next = "step" THEN Inc ELSE cursor[cur]
      painted == next = "step" /\ i + 1 \in 0..Frames[cur]
      g == CASE next = "step" -> IF painted THEN Dequeue(Begin(f)) ELSE Begin(f)
             [] next = "end"  -> Begin(f)
             [] OTHER         -> Dequeue(f)
  IN
  /\ playing
  /\ fx.loose < MaxLoose
  /\ cursor' = [cursor EXCEPT ![cur] = i]
  /\ canvas' = IF painted THEN Frame(cur, i + 1) ELSE canvas
  /\ IF next = "step" /\ ~ painted
       THEN fx' = g /\ UNCHANGED <<playing, speed>>   \* the exception ends it
       ELSE fx' = Cleared(g) /\ EnableButtons
  /\ UNCHANGED Unclicked

\* faster() and slower().
Faster ==
  /\ shown /\ speed.faster
  /\ speed' = IF speed.delay >= 1
                THEN [speed EXCEPT !.delay = @ - 1, !.slower = TRUE]
                ELSE [speed EXCEPT !.faster = FALSE]
  /\ UNCHANGED <<Unclicked, cursor, canvas, playing, fx>>

Slower ==
  /\ shown /\ speed.slower
  /\ speed' = IF speed.delay < MaxDelay
                THEN [speed EXCEPT !.delay = @ + 1, !.faster = TRUE]
                ELSE [speed EXCEPT !.slower = FALSE]
  /\ UNCHANGED <<Unclicked, cursor, canvas, playing, fx>>

Load == \E pkg \in Pkgs :
          \/ \E kind \in Kinds : TextArrives(pkg, kind) \/ TextLost(pkg, kind)
          \/ FigureArrives(pkg) \/ FigureLost(pkg)

Click == Turn \/ Static \/ Switch \/ Play \/ Stop \/ Faster \/ Slower

Next == Load \/ Click \/ TimerFires

\* The browser fires the timers it was given.  Nobody has to click, and
\* nothing makes a load succeed.
Spec == Init /\ [][Next]_vars /\ WF_vars(TimerFires)

-----------------------------------------------------------------------------
(* Properties.                                                             *)

Symbols == {"inprogress", "delay", "step", "end"}
Queues  == Seq(Symbols)

\* The types of the variables: the globals of the page, its two VizPkg, the
\* canvas with its queue, the slider and the buttons.
TypeOK ==
  /\ loading \subseteq Pkgs \X Kinds /\ kDone \in Int /\ shown \in BOOLEAN
  /\ cur \in Pkgs
  /\ cursor \in [Pkgs -> Int]
  /\ figure \in [Pkgs -> Pkgs \union {None}]
  /\ fetching \in [Pkgs -> Nat]
  /\ canvas \in [of : Pkgs \union {None}, no : Int]
  /\ slider \in Int
  /\ fx \in [queue : Queues, timer : BOOLEAN, loose : Nat]
  /\ speed \in [delay : Int, faster : BOOLEAN, slower : BOOLEAN]
  /\ playing \in BOOLEAN /\ crossed \in BOOLEAN /\ behind \in BOOLEAN

Astray(pkg) == cursor[pkg] \notin -1..Frames[pkg]-1

\* A timer of the queue is still to fire.
Moving == fx.timer \/ fx.loose > 0

\* What can keep a play from going on: play() queued behind the sentinel of
\* the one before it, or the slider led outside the frames.
Stranded == behind \/ Astray(cur)

\* The animation is a chain of timers, each started by the function the one
\* before it ran.  While the buttons are off the chain is unbroken, but for
\* the two cases of Stranded.
ChainAlive == playing => Moving \/ Stranded

\* A play that is not stranded gives the buttons back.
PlayEnds == playing ~> (~ playing \/ Stranded)

\* A play that ends by itself has shown the last frame.
PlayReachesLast ==
  [][playing /\ TimerFires /\ ~ playing' => cursor'[cur] >= Frames[cur] - 1]_vars

\* The static figure kept with a package is its own, unless the checkbox was
\* used while a figure was under way: the callback asks for the package
\* shown when it runs, not the one it was started for.
FigureOfPackage ==
  ~ crossed => \A pkg \in Pkgs : figure[pkg] \in {None, pkg}

\* A frame on the canvas is one of the package shown, and the one its cursor
\* names, unless the cursor was put back before the first frame.
FrameIsCurrent ==
  canvas.no > 0 => /\ canvas.of = cur
                   /\ \/ canvas.no = cursor[cur] + 1
                      \/ cursor[cur] = -1
                      \/ Astray(cur)
=============================================================================
