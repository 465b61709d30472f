------------------------------ MODULE Graphics ------------------------------
(***************************************************************************)
(* How the screen reaches the client: the display loop of a worker         *)
(* (linrdp/src/gfx_display.rs) over the graphics pipeline of the server    *)
(* (ironrdp-egfx/src/server.rs, linrdp/src/gfx.rs).                        *)
(*                                                                         *)
(*   scr    the X screen, and whether DAMAGE has a notification waiting;   *)
(*   src    the grabber and the image it compares the next one with;       *)
(*   dsp    the display loop, EgfxUpdates: what it owes the client, its    *)
(*          surface, its encoders;                                         *)
(*   gfx    the pipeline, GraphicsPipelineServer with GfxSession: the      *)
(*          surfaces, the frames in flight, the generation;                *)
(*   events what the pipeline's output waits in for the server's event     *)
(*          loop, each batch with the generation it was drained in;        *)
(*   wire   what was written, and `up` what the client wrote;              *)
(*   cli    the client: its surface, what it shows, its decoders.          *)
(*                                                                         *)
(* The display loop and the handlers of the pipeline are futures of one    *)
(* task, so they interleave where the loop awaits: for the next poll, for  *)
(* the grab and for the encoder.  The screen is a column of rows, a band   *)
(* of pixels each, and its content a version number per row.               *)
(***************************************************************************)
EXTENDS Integers, Sequences, FiniteSets, FiniteSetsExt, TLC

CONSTANTS
    Rows,        \* the height of the tallest desktop
    MotionNum,   \* MOTION_NUM / MOTION_DEN, the part of the screen that
    MotionDen,   \* has to change for a grab to count as motion
    MinInFlight, \* MIN_IN_FLIGHT and the greatest window the loop may ask for:
    MaxInFlight, \* the frames the client may leave unanswered
    MaxBytes,    \* MAX_BYTES_IN_FLIGHT, in rows
    Scenarios    \* bounds on what the environment does, one of which applies

(* What a scenario fixes of the client (does it support the pipeline, with *)
(* capabilities in common, with H.264, with full chroma) and of the server *)
(* (does x264 start, is the pipeline up before the first grab), and bounds *)
(* of the environment: changes of the screen and new sizes; the client's   *)
(* re-advertisements, closures, suspensions, refresh requests and          *)
(* minimising; new estimates of the round trip; faults of the grabber and  *)
(* the encoders.                                                           *)
Scenario == [supports : BOOLEAN, common : BOOLEAN, avc : BOOLEAN, v2 : BOOLEAN,
             x264 : BOOLEAN, early : BOOLEAN, changes : Nat, resizes : Nat, resets : Nat,
             closes : Nat, suspends : Nat, refreshes : Nat, hides : Nat, lags : Nat,
             windows : Nat, faults : Nat]

ASSUME GraphicsAssumption ==
    /\ Rows \in Nat \ {0} /\ MotionNum \in Nat /\ MotionDen \in Nat
    /\ MinInFlight \in Nat \ {0} /\ MaxInFlight \in Nat /\ MinInFlight <= MaxInFlight
    /\ MaxBytes \in Nat \ {0}
    /\ Scenarios \subseteq Scenario

VARIABLES plan, scr, src, dsp, gfx, events, wire, up, cli

vars == <<plan, scr, src, dsp, gfx, events, wire, up, cli>>

Row == 1 .. Rows

(* A rectangle is the span of the rows it has to cover. *)
Span(S) == {r \in Row : \E a, b \in S : a <= r /\ r <= b}

-----------------------------------------------------------------------------
(* The pipeline.  unacked maps the frames in flight to their size, and     *)
(* window is max_in_flight; deep tells whether the client's last report    *)
(* was at CLIENT_QUEUE_BACKOFF or more, and fresh whether that is too      *)
(* recent to expire.                                                       *)

NewGfx ==
    [state |-> "WaitingForCapabilities", ready |-> FALSE, unavailable |-> FALSE, gen |-> 1,
     surfaces |-> {}, next_surface |-> 0, reset_sent |-> FALSE,
     unacked |-> << >>, next_frame |-> 0, window |-> MinInFlight, deep |-> FALSE, fresh |-> FALSE, suspended |-> FALSE]

(* A wrong version: a depth sample counts until the next one. *)
queue_depth_is_stale_Never(g) == FALSE

(* A sample of the queue depth expires once nothing is in flight. *)
queue_depth_is_stale(g) == ~g.fresh /\ g.unacked = << >>

should_backpressure(g) ==
    \/ g.deep /\ ~queue_depth_is_stale(g)
    \/ /\ ~g.suspended
       /\ \/ Cardinality(DOMAIN g.unacked) >= g.window
          \/ g.unacked # << >> /\ SumFunction(g.unacked) >= MaxBytes

(* A wrong version: frames nobody will acknowledge are tracked. *)
begin_frame_Always(g, size) ==
    [g EXCEPT !.unacked = @ @@ (g.next_frame :> size), !.next_frame = @ + 1]

(* While acknowledgements are suspended no frame is tracked. *)
begin_frame(g, size) ==
    [g EXCEPT !.unacked = IF g.suspended THEN @ ELSE @ @@ (g.next_frame :> size),
              !.next_frame = @ + 1]

ClearFrames(g) ==
    [g EXCEPT !.unacked = << >>, !.deep = FALSE, !.fresh = FALSE, !.suspended = FALSE]

acknowledge(g, n, depth) ==
    IF depth = "suspend"
    THEN [ClearFrames(g) EXCEPT !.suspended = TRUE]
    ELSE [g EXCEPT !.unacked = [m \in DOMAIN @ \ {n} |-> @[m]], !.suspended = FALSE,
                   !.deep = (depth = "deep"), !.fresh = (depth = "deep")]

(* A re-advertisement makes void all that was sent before its answer. *)
Restarted(g) ==
    [ClearFrames(g) EXCEPT !.surfaces = {}, !.next_surface = 0, !.gen = @ + 1,
                           !.reset_sent = FALSE]

Closed(g) ==
    [g EXCEPT !.state = "Closed", !.gen = @ + 1, !.reset_sent = FALSE,
              !.ready = FALSE, !.unavailable = TRUE]

(* Only a set of capabilities in common makes the pipeline ready; without  *)
(* one the server closes the channel.                                      *)
handle_capabilities_advertise(g) ==
    IF ~plan.common THEN Closed(g)
    ELSE [(IF g.state = "Ready" THEN Restarted(g) ELSE g)
            EXCEPT !.state = "Ready", !.ready = TRUE]

(* A frame is taken if nothing changed for the worse while it was encoded. *)
Takes(g, id) == g.state = "Ready" /\ ~should_backpressure(g) /\ id \in g.surfaces

-----------------------------------------------------------------------------
(* The display loop.                                                       *)
(*                                                                         *)
(* pending is pending_full; rect is debt_rect, the rows owed, where {}     *)
(* with pending means all of them.  lost and drawn are history: the rows   *)
(* whose change went down with an encoder, and what the pipeline last took *)
(* for each row of the surface.                                            *)

Blank == [r \in Row |-> 0]

NewSrc == [base |-> Blank, h |-> 0, force |-> TRUE, missed |-> FALSE]

NewDsp(h, refresh) ==
    [pc |-> "idle", job |-> << >>, surface |-> {}, pending |-> TRUE, rect |-> {},
     refresh |-> refresh, legacy_refresh |-> {}, known |-> h, latched |-> FALSE, late |-> FALSE,
     suppressed |-> FALSE, motion |-> FALSE, linger |-> FALSE, holding |-> FALSE, settling |-> FALSE,
     sent_h264 |-> FALSE, no_avc |-> FALSE, seq |-> 0,
     enc |-> FALSE, intra |-> TRUE, n |-> 0,
     lost |-> {}, drawn |-> Blank, met |-> FALSE]

(* An existing debt of the whole screen stays one. *)
owe_region(d, rows) ==
    IF d.pending /\ d.rect = {} THEN d
    ELSE [d EXCEPT !.pending = TRUE, !.rect = Span(@ \cup rows)]

owe_everything(d) == [d EXCEPT !.pending = TRUE, !.rect = {}]

Owed(d, r) == d.pending /\ (d.rect = {} \/ r \in d.rect)

(* Changed rows that were not painted and that nobody owes. *)
Lose(d, damage) == [d EXCEPT !.lost = @ \cup {r \in damage : ~Owed(d, r)}]

debt_region(d, h) == IF d.rect = {} THEN 1 .. h ELSE d.rect \cap 1 .. h

settle_debt(d, rest) == [d EXCEPT !.pending = rest # {}, !.rect = rest]

(* What became of a grab: the loop and the pipeline after it, and what     *)
(* went to the event loop.                                                 *)
Outcome(d, g, out) == [d |-> d, g |-> g, out |-> out]

Encode(d, job) == [d EXCEPT !.pc = "encode", !.job = <<job>>]

(* A ClearCodec frame of rows; rest is what the debt becomes once it went  *)
(* out, if it was sent to repay one.                                       *)
send_clear(d, grab, rows, repay, rest) ==
    Encode(d, [kind |-> "clear", rows |-> rows, repay |-> repay, rest |-> rest,
               damage |-> grab.damage, data |-> grab.data, h |-> grab.h])

(* The band that fits the budget of the client's queue: the first rows of  *)
(* the region, any number of them.                                         *)
repay_debt(d, grab, region) ==
    IF region = {} THEN {settle_debt(d, {})}
    ELSE LET top == Min(region)
         IN  {send_clear(d, grab, top .. last, TRUE, region \ (top .. last)) : last \in region}

(* A full frame; the encoder is built if there is none, or again if its    *)
(* bitrate drifted.  If x264 does not start, H.264 is off from here on.    *)
send_h264(d, grab) ==
    IF plan.x264
    THEN {Encode([d EXCEPT !.enc = TRUE, !.intra = fresh],
                 [kind |-> "h264", rows |-> 1 .. grab.h, repay |-> FALSE, rest |-> {},
                  damage |-> grab.damage, data |-> grab.data, h |-> grab.h])
            : fresh \in {d.intra \/ ~d.enc, TRUE}}
    ELSE repay_debt([d EXCEPT !.no_avc = TRUE], grab, 1 .. grab.h)

(* A surface of the frame's size; under an existing one the whole pipeline *)
(* starts over, without the client's frames in flight.                     *)
ensure_surface(d, g, h) ==
    LET old == d.surface # {}
        g1 == IF old THEN [ClearFrames(g) EXCEPT !.surfaces = {}] ELSE g
        id == g.next_surface
    IN  Outcome([d EXCEPT !.surface = {[id |-> id, h |-> h]}, !.no_avc = ~plan.avc,
                          !.drawn = Blank],
                [g1 EXCEPT !.surfaces = @ \cup {id}, !.next_surface = @ + 1,
                           !.reset_sent = TRUE],
                <<[t |-> "surface", id |-> id, h |-> h,
                   gone |-> IF old THEN g.surfaces ELSE {}, reset |-> old \/ ~g.reset_sent]>>)

(* Motion mode ends with the settling of a new size, or once it lingered   *)
(* long enough; 4:2:0 then owes a lossless paint of the screen.            *)
LeaveMotion(d) ==
    LET d1 == [d EXCEPT !.motion = @ /\ ~d.settling]
    IN  IF ~d1.motion \/ d1.linger THEN d1
        ELSE [(IF plan.v2 THEN d1 ELSE owe_everything(d1)) EXCEPT !.motion = FALSE]

IsMotion(d, grab) == ~d.settling /\ grab.changed * MotionDen > grab.h * MotionNum

(* How a grab is painted: the debt first, outside motion; H.264 for motion *)
(* unless the last frame was too recent; nothing small in motion mode.     *)
Paint(d, grab) ==
    LET owing == owe_region(d, grab.damage)
    IN  IF grab.damage = {}
        THEN IF d.pending THEN repay_debt(d, grab, debt_region(d, grab.h)) ELSE {d}
        ELSE IF d.pending /\ ~d.motion THEN repay_debt(owing, grab, debt_region(owing, grab.h))
        ELSE IF IsMotion(d, grab) /\ ~d.no_avc
        THEN send_h264(d, grab) \cup (IF d.sent_h264 THEN {owing} ELSE {})
        ELSE IF d.motion THEN {owing}
        ELSE {send_clear(d, grab, grab.damage, FALSE, {})}

(* A wrong version: a grab for a client that is behind is dropped. *)
WithSurface_Drops(o, grab) ==
    IF should_backpressure(o.g) \/ o.d.holding THEN {o}
    ELSE {[o EXCEPT !.d = d] : d \in Paint(LeaveMotion(o.d), grab)}

(* A grab that cannot be painted now is owed: the client is behind.  While *)
(* it rebuilds its decoders nothing is sent, and everything is owed.       *)
WithSurface(o, grab) ==
    IF should_backpressure(o.g)
    THEN {IF grab.damage = {} THEN o ELSE [o EXCEPT !.d = owe_region(@, grab.damage)]}
    ELSE IF o.d.holding THEN {o}
    ELSE {[o EXCEPT !.d = d] : d \in Paint(LeaveMotion(o.d), grab)}

(* A new size, or the first frame: a new surface.  A surface that vanished *)
(* means the client started its pipeline over: new surface, new sequence,  *)
(* and a pause.  met is history: the first came upon the second.           *)
egfx_frame(d, g, grab) ==
    LET sized == \A s \in d.surface : s.h # grab.h
        alive == \A s \in d.surface : s.id \in g.surfaces
        Owing(o) == [o EXCEPT !.d = owe_everything(@)]
    IN  IF sized
        THEN WithSurface(Owing(ensure_surface([d EXCEPT !.settling = @ \/ d.surface # {},
                                                        !.intra = TRUE, !.met = @ \/ ~alive],
                                              g, grab.h)), grab)
        ELSE IF ~alive
        THEN {Owing(ensure_surface([d EXCEPT !.surface = {}, !.seq = 0, !.intra = TRUE,
                                             !.holding = TRUE], g, grab.h))}
        ELSE WithSurface(Outcome(d, g, << >>), grab)

(* Where a grab goes: the pipeline once it is ready; bitmaps if the client *)
(* cannot have the pipeline, lost it, or took too long over it.            *)
egfx_decision(d, g) ==
    IF g.ready /\ g.state = "Ready" THEN "Egfx"
    ELSE IF g.unavailable THEN "Legacy"
    ELSE IF d.latched THEN "Hold"
    ELSE IF ~plan.supports \/ d.late THEN "Legacy" ELSE "Hold"

(* The damage, and the area the client asked for. *)
legacy_update(d, grab) == Span(grab.damage \cup (d.legacy_refresh \cap 1 .. grab.h))

-----------------------------------------------------------------------------
(* The client.  pc is where it is with the graphics channel; view is what  *)
(* it shows; bad collects what it could not make sense of.                 *)

NewCli ==
    [pc |-> "start", surf |-> {}, reset |-> FALSE, view |-> Blank, seq |-> 0,
     n |-> 0, frame |-> {}, suspended |-> FALSE, hidden |-> FALSE, bad |-> {}]

Init ==
    /\ plan \in Scenarios
    /\ scr = [h |-> Rows, img |-> [r \in Row |-> 1], v |-> 1, damaged |-> TRUE, event |-> TRUE]
    /\ src = NewSrc
    /\ dsp = NewDsp(Rows, {})
    /\ gfx = IF plan.early THEN [NewGfx EXCEPT !.state = "Ready", !.ready = TRUE] ELSE NewGfx
    /\ events = << >> /\ wire = << >> /\ up = << >>
    /\ cli = [NewCli EXCEPT !.pc = IF plan.early THEN "open" ELSE "start"]

Less(p, b) == [p EXCEPT ![b] = @ - 1]

Budget(b) == plan[b] > 0 /\ plan' = Less(plan, b)

(* Something draws.  DAMAGE notifies once, until it is re-armed. *)
Drawn(s) == [s EXCEPT !.damaged = TRUE, !.event = @ \/ ~s.damaged, !.v = @ + 1]

Change ==
    /\ Budget("changes")
    /\ \E S \in SUBSET (1 .. scr.h) \ {{}} :
         scr' = Drawn([scr EXCEPT !.img = [r \in Row |-> IF r \in S THEN scr.v + 1 ELSE @[r]]])
    /\ UNCHANGED <<src, dsp, gfx, events, wire, up, cli>>

ScreenResize ==
    /\ Budget("resizes")
    /\ \E h \in Row \ {scr.h} :
         scr' = Drawn([scr EXCEPT !.h = h,
                                  !.img = [r \in Row |-> IF r <= h THEN scr.v + 1 ELSE 0]])
    /\ UNCHANGED <<src, dsp, gfx, events, wire, up, cli>>

-----------------------------------------------------------------------------
(* The display loop, from one await to the next.                           *)

(* The top of the loop: what the client asked to have redrawn is owed;     *)
(* nothing is grabbed for a client that is behind, nor of a screen that    *)
(* did not change, unless something is owed.  A forced poll leaves the     *)
(* notifications in the queue.                                             *)
next_update ==
    /\ dsp.pc = "idle" /\ ~dsp.suppressed
    /\ LET asked == dsp.refresh # {}
           d == IF ~asked THEN dsp
                ELSE [owe_region(dsp, dsp.refresh)
                        EXCEPT !.refresh = {}, !.legacy_refresh = Span(@ \cup dsp.refresh)]
           force == src.force \/ d.pending
           behind == gfx.ready /\ should_backpressure(gfx)
       IN  IF behind \/ ~(force \/ scr.event)
           THEN asked /\ dsp' = d /\ UNCHANGED <<scr, src>>
           ELSE /\ dsp' = [d EXCEPT !.pc = "poll"]
                /\ src' = [src EXCEPT !.force = FALSE]
                /\ scr' = [scr EXCEPT !.damaged = FALSE, !.event = @ /\ force]
    /\ UNCHANGED <<plan, gfx, events, wire, up, cli>>

(* After a frame, whatever became of it, the window may follow the round   *)
(* trip and the rate of the frames; it does not wait for frames in flight. *)
update_in_flight_window(p, g) ==
    \/ plan' = p /\ gfx' = g
    \/ /\ p.windows > 0 /\ plan' = Less(p, "windows")
       /\ \E w \in MinInFlight .. MaxInFlight : gfx' = [g EXCEPT !.window = w]

(* The image, and what changed since the last one. *)
TheGrab ==
    LET changed == {r \in 1 .. scr.h : src.h # scr.h \/ src.base[r] # scr.img[r]}
    IN  [data |-> scr.img, h |-> scr.h, damage |-> Span(changed), changed |-> Cardinality(changed)]

Post(msgs) == events' = events \o [i \in DOMAIN msgs |-> [gen |-> gfx.gen, msg |-> msgs[i]]]

ToEgfx(grab) ==
    /\ egfx_decision(dsp, gfx) = "Egfx"
    /\ \E o \in egfx_frame([dsp EXCEPT !.pc = "idle", !.latched = TRUE, !.legacy_refresh = {}],
                            gfx, grab) :
         /\ dsp' = o.d /\ Post(o.out)
         /\ IF o.d.pc = "encode" THEN gfx' = o.g /\ UNCHANGED plan
            ELSE update_in_flight_window(plan, o.g)
    /\ src' = [src EXCEPT !.base = grab.data, !.h = grab.h, !.missed = FALSE]
    /\ UNCHANGED wire

(* On bitmaps a new size takes a new activation, which begins a new stream *)
(* of updates.                                                             *)
ToLegacy(grab) ==
    /\ egfx_decision(dsp, gfx) = "Legacy"
    /\ LET rows == legacy_update(dsp, grab)
       IN  IF dsp.known # grab.h
           THEN /\ wire' = Append(wire, [t |-> "resize", h |-> grab.h])
                /\ dsp' = [NewDsp(grab.h, dsp.refresh) EXCEPT !.suppressed = dsp.suppressed,
                                                               !.met = dsp.met]
                /\ src' = NewSrc
           ELSE /\ wire' = IF rows = {} THEN wire
                           ELSE Append(wire, [t |-> "bitmap", rows |-> rows, data |-> grab.data])
                /\ dsp' = [dsp EXCEPT !.pc = "idle", !.legacy_refresh = {}]
                /\ src' = [src EXCEPT !.base = grab.data, !.h = grab.h, !.missed = FALSE]
    /\ UNCHANGED <<plan, gfx, events>>

ToNobody(grab) ==
    /\ egfx_decision(dsp, gfx) = "Hold"
    /\ dsp' = [dsp EXCEPT !.pc = "idle"]
    /\ src' = [src EXCEPT !.base = grab.data, !.h = grab.h, !.missed = FALSE]
    /\ UNCHANGED <<plan, gfx, events, wire>>

Grab ==
    /\ dsp.pc = "poll"
    /\ \E grab \in {TheGrab} : ToEgfx(grab) \/ ToLegacy(grab) \/ ToNobody(grab)
    /\ UNCHANGED <<scr, up, cli>>

(* The X server does not answer, or the size changed under the grab.  The  *)
(* notification is gone already.                                           *)
GrabFails ==
    /\ dsp.pc = "poll" /\ Budget("faults")
    /\ dsp' = [dsp EXCEPT !.pc = "idle"]
    /\ src' = [src EXCEPT !.missed = TRUE]
    /\ UNCHANGED <<scr, gfx, events, wire, up, cli>>

(* The poll hangs or panics: the source is given up for a new one. *)
GrabLost ==
    /\ dsp.pc = "poll" /\ Budget("faults")
    /\ dsp' = [dsp EXCEPT !.pc = "idle"]
    /\ src' = NewSrc
    /\ UNCHANGED <<scr, gfx, events, wire, up, cli>>

(* What the client has of the rows that went out. *)
Delivered(d, j) ==
    [d EXCEPT !.drawn = [r \in Row |-> IF r \in j.rows THEN j.data[r] ELSE @[r]],
              !.lost = @ \ j.rows]

(* A wrong version: the number is taken whether or not the frame goes out. *)
ClearEncoded_Burns(d, j, id) ==
    IF Takes(gfx, id)
    THEN Outcome([Delivered(IF j.repay THEN settle_debt(d, j.rest) ELSE d, j) EXCEPT !.seq = @ + 1],
                 begin_frame(gfx, Cardinality(j.rows)),
                 <<[t |-> "clear", frame |-> gfx.next_frame, id |-> id, seq |-> d.seq,
                    rows |-> j.rows, data |-> j.data]>>)
    ELSE Outcome([Lose(owe_region(d, j.rows), j.damage) EXCEPT !.seq = @ + 1], gfx, << >>)

(* A wrong version: the encoder goes on after a frame that did not go out. *)
H264Encoded_Goes(d, j, id) ==
    IF Takes(gfx, id)
    THEN Outcome([Delivered(settle_debt(d, {}), j)
                    EXCEPT !.n = @ + 1, !.intra = FALSE, !.sent_h264 = TRUE,
                           !.motion = TRUE, !.linger = TRUE],
                 begin_frame(gfx, 1),
                 <<[t |-> "h264", frame |-> gfx.next_frame, id |-> id, n |-> d.n + 1,
                    ref |-> IF d.intra THEN 0 ELSE d.n, rows |-> j.rows, data |-> j.data]>>)
    ELSE Outcome([owe_region(d, j.damage) EXCEPT !.n = @ + 1, !.intra = FALSE], gfx, << >>)

(* The frame is encoded: it goes out, or is owed if the pipeline will not  *)
(* have it any more.  A ClearCodec frame takes a number only if it goes    *)
(* out; an H.264 frame that does not breaks the chain of references.       *)
ClearEncoded(d, j, id) ==
    IF Takes(gfx, id)
    THEN Outcome([Delivered(IF j.repay THEN settle_debt(d, j.rest) ELSE d, j) EXCEPT !.seq = @ + 1],
                 begin_frame(gfx, Cardinality(j.rows)),
                 <<[t |-> "clear", frame |-> gfx.next_frame, id |-> id, seq |-> d.seq,
                    rows |-> j.rows, data |-> j.data]>>)
    ELSE Outcome(Lose(owe_region(d, j.rows), j.damage), gfx, << >>)

H264Encoded(d, j, id) ==
    IF Takes(gfx, id)
    THEN Outcome([Delivered(settle_debt(d, {}), j)
                    EXCEPT !.n = @ + 1, !.intra = FALSE, !.sent_h264 = TRUE,
                           !.motion = TRUE, !.linger = TRUE],
                 begin_frame(gfx, 1),
                 <<[t |-> "h264", frame |-> gfx.next_frame, id |-> id, n |-> d.n + 1,
                    ref |-> IF d.intra THEN 0 ELSE d.n, rows |-> j.rows, data |-> j.data]>>)
    ELSE Outcome([owe_region(d, j.damage) EXCEPT !.n = @ + 1, !.intra = TRUE], gfx, << >>)

Encoded ==
    /\ dsp.pc = "encode"
    /\ \E j \in {dsp.job[1]}, s \in dsp.surface :
         LET d == [dsp EXCEPT !.pc = "idle", !.job = << >>]
             o == IF j.kind = "clear" THEN ClearEncoded(d, j, s.id) ELSE H264Encoded(d, j, s.id)
         IN  dsp' = o.d /\ update_in_flight_window(plan, o.g) /\ Post(o.out)
    /\ UNCHANGED <<scr, src, wire, up, cli>>

(* The encoding ends without a frame. *)
NoFrame(d) ==
    /\ dsp.pc = "encode" /\ plan.faults > 0
    /\ dsp' = [d EXCEPT !.pc = "idle", !.job = << >>]
    /\ update_in_flight_window(Less(plan, "faults"), gfx)
    /\ UNCHANGED <<scr, src, events, wire, up, cli>>

(* The encoding task dies and takes the encoders with it; the change it    *)
(* was to paint is not owed by anyone.                                     *)
EncodeDies == NoFrame([Lose(dsp, dsp.job[1].damage) EXCEPT !.enc = FALSE])

(* x264 returns nothing, which the loop takes for an unchanged picture. *)
EncodesNothing ==
    /\ dsp.job # << >> /\ dsp.job[1].kind = "h264"
    /\ NoFrame([Lose(dsp, dsp.job[1].damage) EXCEPT !.motion = TRUE, !.linger = TRUE])

(* Nothing comes back in time: everything is owed, by new encoders. *)
FrameStalls == NoFrame([owe_everything(dsp) EXCEPT !.enc = FALSE, !.motion = FALSE])

(* The windows that end with time alone: motion mode, the pauses after a   *)
(* restart and a new size, the wait for the pipeline, a depth sample.      *)
Lapse ==
    /\ \/ \E w \in {"linger", "holding", "settling"} :
            dsp[w] /\ dsp' = [dsp EXCEPT ![w] = FALSE] /\ UNCHANGED gfx
       \/ ~dsp.late /\ ~dsp.latched /\ src.h # 0 /\ dsp' = [dsp EXCEPT !.late = TRUE] /\ UNCHANGED gfx
       \/ gfx.fresh /\ gfx' = [gfx EXCEPT !.fresh = FALSE] /\ UNCHANGED dsp
    /\ UNCHANGED <<plan, scr, src, events, wire, up, cli>>

-----------------------------------------------------------------------------
(* The server's side of the channel.                                       *)

(* Output drained before the pipeline started over is void. *)
egfx_output_is_current(e) == e.gen = gfx.gen

dispatch ==
    /\ events # << >>
    /\ events' = Tail(events)
    /\ wire' = IF egfx_output_is_current(Head(events)) THEN Append(wire, Head(events).msg) ELSE wire
    /\ UNCHANGED <<plan, scr, src, dsp, gfx, up, cli>>

(* A wrong version: output resumes with what changes from then on. *)
Redrawn_Later(d, m) ==
    CASE m.t = "refresh" -> [d EXCEPT !.suppressed = FALSE, !.refresh = Span(@ \cup m.rows)]
      [] m.t = "output" -> [d EXCEPT !.suppressed = ~m.on]
      [] OTHER -> d

(* What the client asks to have drawn again; asking for it, or for output  *)
(* to resume, ends its suppression.                                        *)
Redrawn(d, m) ==
    CASE m.t = "refresh" -> [d EXCEPT !.suppressed = FALSE, !.refresh = Span(@ \cup m.rows)]
      [] m.t = "output" -> [d EXCEPT !.suppressed = ~m.on,
                                     !.refresh = IF m.on /\ d.suppressed THEN Span(@ \cup m.rows) ELSE @]
      [] OTHER -> d

process(m) ==
    /\ gfx' = IF gfx.state = "Closed" THEN gfx
              ELSE CASE m.t = "caps" -> handle_capabilities_advertise(gfx)
                     [] m.t = "ack" -> acknowledge(gfx, m.n, m.depth)
                     [] m.t = "close" -> Closed(gfx)
                     [] OTHER -> gfx
    /\ wire' = IF m.t # "caps" \/ gfx.state = "Closed" THEN wire
               ELSE Append(wire, [t |-> IF plan.common THEN "confirm" ELSE "closed"])
    /\ dsp' = Redrawn(dsp, m)

ServerReads ==
    /\ up # << >>
    /\ up' = Tail(up)
    /\ process(Head(up))
    /\ UNCHANGED <<plan, scr, src, events, cli>>

-----------------------------------------------------------------------------
(* The client's steps.                                                     *)

Says(m) == up' = Append(up, m) /\ UNCHANGED <<scr, src, dsp, gfx, events, wire>>

ClientOpens ==
    /\ cli.pc = "start" /\ plan.supports
    /\ cli' = [cli EXCEPT !.pc = "opening"]
    /\ Says([t |-> "caps"]) /\ UNCHANGED plan

ClientRefuses ==
    /\ cli.pc = "start"
    /\ IF plan.supports THEN Budget("closes") ELSE UNCHANGED plan
    /\ cli' = [cli EXCEPT !.pc = "closed"]
    /\ Says([t |-> "close"])

(* The decoders failed: everything is forgotten, and what still comes of   *)
(* before is disregarded.                                                  *)
ClientRestarts ==
    /\ cli.pc = "open" /\ Budget("resets")
    /\ cli' = [NewCli EXCEPT !.pc = "opening", !.hidden = cli.hidden, !.bad = cli.bad]
    /\ Says([t |-> "caps"])

ClientCloses ==
    /\ cli.pc = "open" /\ Budget("closes")
    /\ cli' = [cli EXCEPT !.pc = "closed"]
    /\ Says([t |-> "close"])

(* Part of the picture is gone. *)
ClientAsks ==
    /\ ~cli.hidden /\ Budget("refreshes")
    /\ \E first, last \in Row :
         /\ first <= last
         /\ cli' = [cli EXCEPT !.view = [r \in Row |-> IF r \in first .. last THEN 0 ELSE @[r]]]
         /\ Says([t |-> "refresh", rows |-> first .. last])

ClientHides ==
    /\ ~cli.hidden /\ Budget("hides")
    /\ cli' = [cli EXCEPT !.hidden = TRUE]
    /\ Says([t |-> "output", on |-> FALSE])

(* The client is back, and has what it had or nothing.  Some clients ask   *)
(* for output again, with their desktop, others for a refresh of it.       *)
ClientShows ==
    /\ cli.hidden
    /\ \E view \in {cli.view, Blank} : cli' = [cli EXCEPT !.hidden = FALSE, !.view = view]
    /\ \E t \in {"output", "refresh"} : Says([t |-> t, on |-> TRUE, rows |-> Row])
    /\ UNCHANGED plan

ClientResumes ==
    /\ cli.suspended /\ cli.pc = "open"
    /\ \E n \in cli.frame : Says([t |-> "ack", n |-> n, depth |-> "normal"])
    /\ cli' = [cli EXCEPT !.suspended = FALSE]
    /\ UNCHANGED plan

Shows(c, m) ==
    [c EXCEPT !.view = [r \in Row |-> IF r \in m.rows THEN m.data[r] ELSE @[r]]]

Wrong(c, why) == [c EXCEPT !.bad = @ \cup {why}]

Understands(c, m) ==
    IF m.t = "surface"
    THEN IF ~m.reset /\ ~c.reset THEN Wrong(c, "reset")
         ELSE [c EXCEPT !.surf = (@ \ m.gone) \cup {m.id}, !.reset = TRUE, !.view = Blank]
    ELSE IF m.id \notin c.surf THEN Wrong(c, "surface")
    ELSE IF m.t = "clear"
    THEN IF m.seq # c.seq THEN Wrong(c, "seq")
         ELSE [Shows(c, m) EXCEPT !.seq = @ + 1]
    ELSE IF m.ref \notin {0, c.n} THEN Wrong(c, "ref")
         ELSE [Shows(c, m) EXCEPT !.n = m.n]

(* A frame is acknowledged, with the depth of the queue or the wish not to *)
(* acknowledge any more.                                                   *)
Answers(c, m) ==
    IF m.t = "surface" \/ c.suspended
    THEN cli' = c /\ UNCHANGED <<up, plan>>
    ELSE \E depth \in {"normal", "deep", "suspend"} :
           /\ up' = Append(up, [t |-> "ack", n |-> m.frame, depth |-> depth])
           /\ cli' = [c EXCEPT !.frame = {m.frame}, !.suspended = (depth = "suspend")]
           /\ CASE depth = "normal" -> UNCHANGED plan
                [] depth = "deep" -> Budget("lags")
                [] depth = "suspend" -> Budget("suspends")

ClientReads ==
    /\ wire # << >>
    /\ wire' = Tail(wire)
    /\ LET m == Head(wire)
       IN  \/ /\ m.t \in {"confirm", "closed"}
              /\ cli' = IF cli.pc # "opening" THEN cli
                        ELSE [cli EXCEPT !.pc = IF m.t = "confirm" THEN "open" ELSE "closed"]
              /\ UNCHANGED <<up, plan>>
           \/ /\ m.t = "bitmap"
              /\ cli' = Shows(cli, m)
              /\ UNCHANGED <<up, plan>>
           \/ /\ m.t = "resize"
              /\ cli' = [cli EXCEPT !.view = Blank]
              /\ UNCHANGED <<up, plan>>
           \/ /\ m.t \in {"surface", "clear", "h264"}
              /\ IF cli.pc = "open" THEN Answers(Understands(cli, m), m)
                 ELSE UNCHANGED <<cli, up, plan>>
    /\ UNCHANGED <<scr, src, dsp, gfx, events>>

-----------------------------------------------------------------------------
Display == next_update \/ Grab \/ Encoded

Faults == GrabFails \/ GrabLost \/ EncodeDies \/ EncodesNothing \/ FrameStalls

Client ==
    \/ ClientOpens \/ ClientRefuses \/ ClientRestarts \/ ClientCloses
    \/ ClientAsks \/ ClientHides \/ ClientShows \/ ClientResumes

Next ==
    \/ Change \/ ScreenResize
    \/ Display \/ Faults \/ Lapse
    \/ dispatch \/ ServerReads
    \/ Client \/ ClientReads

Spec == Init /\ [][Next]_vars

(* The loop goes on while it is not waiting, the server and the client     *)
(* read what they are sent, and time passes.                               *)
FairSpec ==
    /\ Spec
    /\ WF_vars(Display) /\ WF_vars(dispatch \/ ServerReads) /\ WF_vars(ClientReads)
    /\ WF_vars(Lapse)

-----------------------------------------------------------------------------
(* The variables have their types.  The frames in flight never outnumber   *)
(* the greatest window the loop may ask for, though they may outnumber the *)
(* present one, which shrinks under them (update_in_flight_window); and    *)
(* none is tracked while the pipeline knows that the client will not       *)
(* acknowledge it (begin_frame).                                           *)
TypeOK ==
    /\ plan \in Scenario
    /\ scr.h \in Row /\ scr.img \in [Row -> Nat] /\ {scr.damaged, scr.event} \subseteq BOOLEAN
    /\ src.base \in [Row -> Nat] /\ src.h \in 0 .. Rows
    /\ dsp.pc \in {"idle", "poll", "encode"} /\ (dsp.pc = "encode") = (dsp.job # << >>)
    /\ Cardinality(dsp.surface) <= 1 /\ dsp.rect \subseteq Row /\ dsp.lost \subseteq Row
    /\ dsp.rect # {} => dsp.pending
    /\ gfx.state \in {"WaitingForCapabilities", "Ready", "Closed"}
    /\ gfx.window \in MinInFlight .. MaxInFlight
    /\ Cardinality(DOMAIN gfx.unacked) <= MaxInFlight
    /\ gfx.suspended => gfx.unacked = << >>
    /\ cli.pc \in {"start", "opening", "open", "closed"} /\ cli.view \in [Row -> Nat]

(* The next tick of the loop takes a new image. *)
GrabDue == src.force \/ scr.event

(* The loop is between two frames, with a surface the client has. *)
Between == dsp.pc = "idle" /\ gfx.state = "Ready" /\ \A s \in dsp.surface : s.id \in gfx.surfaces

(* What the pipeline took for a row is what the screen has there, or the   *)
(* row is owed. *)
Kept(r) == Owed(dsp, r) \/ dsp.drawn[r] = scr.img[r]

(* Whatever happens between the screen and the pipeline -- a client that   *)
(* is behind, a frame that is turned down, a surface that vanished, a new  *)
(* size -- the pipeline has taken every row of the screen as it is, or the *)
(* row is owed, or the next tick looks at the screen again.  Nothing else  *)
(* brings a row back after a fault, and such rows are excused by name: all *)
(* of them after a grab that failed; those of a frame whose encoder died   *)
(* or gave nothing; and, when x264 cannot be set up, those outside the     *)
(* first band of the repayment that stands in for the frame, if that band  *)
(* is turned down (send_h264).                                             *)
NothingStale ==
    Between /\ ~GrabDue /\ ~src.missed =>
       \A s \in dsp.surface : s.h = scr.h /\ \A r \in 1 .. s.h : Kept(r) \/ r \in dsp.lost

(* The same without the excuses, where no grab of the loop fails and the   *)
(* encoders work (poll_inner, send_clear, send_h264).                      *)
Unforgotten ==
    Between /\ ~GrabDue => \A s \in dsp.surface : s.h = scr.h /\ \A r \in 1 .. s.h : Kept(r)

(* The client can decode every H.264 frame it gets: frames the pipeline    *)
(* turned down, encoders built anew and restarts of the client never leave *)
(* it a frame that refers to one it does not have.                         *)
RefChainKept == "ref" \notin cli.bad

(* The client finds the number it expects in every ClearCodec message, on  *)
(* whatever side of a restart the message was encoded -- unless a new size *)
(* of the screen came upon a restart.                                      *)
SeqKept == "seq" \in cli.bad => dsp.met

(* The client never gets a frame for a surface it does not have, nor a     *)
(* surface without a ResetGraphics since it started, however the frames    *)
(* queued for the event loop cross its restart.                            *)
OnlyKnownSurfaces == {"surface", "reset"} \cap cli.bad = {}

(* Every message finds the client in the state it was encoded for.         *)
Decodable == SeqKept /\ OnlyKnownSurfaces

(* The loop has the surface the client has. *)
SurfaceAlive == \A s \in dsp.surface : s.id \in gfx.surfaces

(* The client is on the pipeline and has not stopped its output, and the   *)
(* loop has noticed its last restart.  Three things are assumed that the   *)
(* code does not see to: the last grab did not fail, since it would not be *)
(* tried again; no encoder died or gave nothing; and the pipeline has not  *)
(* forgotten over a new size that acknowledgements are suspended, since    *)
(* its window would fill for good.                                         *)
Served ==
    /\ gfx.state = "Ready" /\ cli.pc = "open" /\ cli.bad = {} /\ SurfaceAlive
    /\ ~dsp.suppressed
    /\ ~src.missed /\ dsp.lost = {} /\ (cli.suspended => gfx.suspended)

(* Once the screen holds still, a client that is served shows the screen:  *)
(* no debt, window, pause or stale depth keeps the last rows from it.      *)
Painted == <>[](Served => \A r \in 1 .. scr.h : cli.view[r] = scr.img[r])

(* After a restart of the client the display loop notices that its surface *)
(* is gone, and rebuilds it (the comment in GraphicsPipelineHandler's      *)
(* on_ready).                                                              *)
RebuiltAfterRestart == <>[](gfx.state = "Ready" => SurfaceAlive)
=============================================================================
