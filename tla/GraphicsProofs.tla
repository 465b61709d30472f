--------------------------- MODULE GraphicsProofs ---------------------------
(***************************************************************************)
(* Every row of the screen is accounted for on its way to the pipeline,    *)
(* for any height of the screen, any window of the client and any          *)
(* scenario, and none is forgotten where no fault occurs.                  *)
(*                                                                         *)
(* The argument has two halves, with the last image that was grabbed       *)
(* between them.  From the image to the pipeline (ImageKept): while a      *)
(* frame is encoded what changed in the image is neither drawn nor owed,   *)
(* but it is in the job, and whichever way the job ends covers it (JobOK). *)
(* From the screen to the image (ScreenInv): a screen that differs from    *)
(* the image has a notification waiting, or a grab is forced, under way or *)
(* has failed.                                                             *)
(***************************************************************************)
EXTENDS Graphics, TLAPS

\* The fields of the loop the argument is about.
HasFields(d) ==
    {"pc", "job", "surface", "pending", "rect", "lost", "drawn", "holding"} \subseteq DOMAIN d

\* While the loop holds back, everything is owed.
HoldOK(d) == d.holding => d.pc # "encode" /\ d.pending /\ d.rect = {}

\* A row the client has, or that is known to be missing there.
Settled(d, data, r) == Owed(d, r) \/ r \in d.lost \/ d.drawn[r] = data[r]

\* Nothing of an image is forgotten.
Good(d, data, h) == \A r \in 1 .. h : Settled(d, data, r)

\* The same, apart from what the last grab has found.
Covered(d, grab) == \A r \in 1 .. grab.h : r \in grab.damage \/ Settled(d, grab.data, r)

\* A frame on its way. A repayment takes all that is owed or new, and says what
\* is left of it; another ClearCodec frame is what is new; an H.264 frame is
\* the screen.
JobOK(d, j, data, h) ==
    /\ j.data = data
    /\ \A r \in 1 .. h : r \in j.damage \/ Settled(d, data, r)
    /\ j.kind = "clear" /\ j.repay =>
         \A r \in 1 .. h : r \in j.damage \/ Owed(d, r) => r \in j.rows \/ r \in j.rest
    /\ j.kind = "clear" /\ ~j.repay => j.rows = j.damage
    /\ j.kind # "clear" => 1 .. h \subseteq j.rows

\* A frame that is turned down leaves what it was to paint as a debt.
Safe(d, j) ==
    j.damage \subseteq Row /\ (j.kind = "clear" => \A r \in j.damage : r \in j.rows \/ Owed(d, r))

\* What painting a grab leaves.
Result(d, e, grab) ==
    /\ HasFields(e) /\ e.surface = d.surface /\ (e.holding => d.holding) /\ e.lost = d.lost
    /\ e.pc = "encode" /\ plan.x264 => Safe(e, e.job[1])
    /\ e.pc # "encode" => Good(e, grab.data, grab.h)
    /\ e.pc = "encode" => JobOK(e, e.job[1], grab.data, grab.h)

\* What most of the loop leaves alone.
Alike(d, e) ==
    /\ HasFields(e) /\ e.pc = d.pc /\ e.surface = d.surface
    /\ e.lost = d.lost /\ e.drawn = d.drawn /\ (e.holding => d.holding)

\* And at most more is owed.
OwesMore(d, e) == Alike(d, e) /\ \A r \in Row : Owed(d, r) => Owed(e, r)

-----------------------------------------------------------------------------
(* Debts.                                                                  *)

LEMMA RowsAreInts == Row \subseteq Int /\ \A h \in Row : 1 .. h \subseteq Row /\ h # 0
BY GraphicsAssumption DEF Row

LEMMA SpanCovers == ASSUME NEW S, NEW r \in Row, r \in S PROVE r \in Span(S)
BY RowsAreInts DEF Span

LEMMA OweRegion ==
    ASSUME NEW d, HasFields(d), NEW rows
    PROVE /\ OwesMore(d, owe_region(d, rows))
          /\ \A r \in Row : r \in rows => Owed(owe_region(d, rows), r)
          /\ HoldOK(d) => HoldOK(owe_region(d, rows))
<1>1. CASE d.pending /\ d.rect = {}
  <2>1. owe_region(d, rows) = d BY <1>1, Zenon DEF owe_region
  <2> QED BY <1>1, <2>1, Zenon DEF OwesMore, Alike, Owed
<1>2. CASE ~(d.pending /\ d.rect = {})
  <2> DEFINE all == Span(d.rect \cup rows)
             e == [d EXCEPT !.pending = TRUE, !.rect = all]
  <2>1. owe_region(d, rows) = e BY <1>2, Zenon DEF owe_region
  <2>2. Alike(d, e) /\ e.pending = TRUE /\ e.rect = all BY DEF HasFields, Alike
  <2>3. \A r \in Row : r \in d.rect \/ r \in rows => r \in all BY SpanCovers
  <2> HIDE DEF e, all
  <2>4. \A r \in Row : r \in d.rect \/ r \in rows => Owed(e, r) BY <2>2, <2>3, Zenon DEF Owed
  <2>5. \A r \in Row : Owed(d, r) => r \in d.rect BY <1>2, Zenon DEF Owed
  <2>6. HoldOK(d) => HoldOK(e) BY <1>2, <2>2, Zenon DEF HoldOK, Alike
  <2> QED BY <2>1, <2>2, <2>4, <2>5, <2>6, Zenon DEF OwesMore
<1> QED BY <1>1, <1>2, Zenon

LEMMA OweEverything ==
    ASSUME NEW d, HasFields(d)
    PROVE Alike(d, owe_everything(d)) /\ \A r \in Row : Owed(owe_everything(d), r)
<1> DEFINE e == [d EXCEPT !.pending = TRUE, !.rect = {}]
<1>1. Alike(d, e) /\ e.pending = TRUE /\ e.rect = {} BY DEF HasFields, Alike
<1> HIDE DEF e
<1>2. \A r \in Row : Owed(e, r) BY <1>1, Zenon DEF Owed
<1>3. owe_everything(d) = e BY DEF owe_everything, e
<1> QED BY <1>1, <1>2, <1>3, Zenon

LEMMA Settle ==
    ASSUME NEW d, HasFields(d), NEW rest
    PROVE Alike(d, settle_debt(d, rest)) /\ \A r \in rest : Owed(settle_debt(d, rest), r)
<1> DEFINE e == [d EXCEPT !.pending = rest # {}, !.rect = rest]
<1>1. Alike(d, e) /\ e.rect = rest BY DEF HasFields, Alike
<1>2. e.pending = (rest # {}) BY DEF HasFields
<1> HIDE DEF e
<1>3. \A r \in rest : Owed(e, r) BY <1>1, <1>2, Zenon DEF Owed
<1>4. settle_debt(d, rest) = e BY DEF settle_debt, e
<1> QED BY <1>1, <1>3, <1>4, Zenon

\* The region of the debt has every row that is owed.
LEMMA DebtRegion ==
    ASSUME NEW d, NEW h, NEW r \in 1 .. h, Owed(d, r)
    PROVE r \in debt_region(d, h)
BY Zenon DEF Owed, debt_region

LEMMA MoreSettled ==
    ASSUME NEW d, NEW e, OwesMore(d, e), NEW data, NEW r \in Row, Settled(d, data, r)
    PROVE Settled(e, data, r)
BY Zenon DEF OwesMore, Alike, Settled

LEMMA MoreCovered ==
    ASSUME NEW d, NEW e, OwesMore(d, e), NEW grab, grab.h \in Row, Covered(d, grab)
    PROVE Covered(e, grab)
BY RowsAreInts, MoreSettled, Zenon DEF Covered

LEMMA SameOwes ==
    ASSUME NEW d, NEW e, Alike(d, e), e.pending = d.pending, e.rect = d.rect
    PROVE OwesMore(d, e)
BY Zenon DEF OwesMore, Owed

-----------------------------------------------------------------------------
(* Painting.                                                               *)

LEMMA EncodeIs ==
    ASSUME NEW d, HasFields(d), NEW j
    PROVE LET e == Encode(d, j)
          IN  /\ HasFields(e) /\ e.pc = "encode" /\ e.job[1] = j /\ e.surface = d.surface
              /\ e.lost = d.lost /\ e.drawn = d.drawn /\ e.pending = d.pending /\ e.rect = d.rect
              /\ e.holding = d.holding
BY DEF HasFields, Encode

\* A job that is handed to the encoder.
LEMMA EncodeOK ==
    ASSUME NEW d, HasFields(d), NEW grab, NEW j, JobOK(d, j, grab.data, grab.h),
           plan.x264 => Safe(d, j)
    PROVE Result(d, Encode(d, j), grab)
<1> DEFINE e == Encode(d, j)
<1>1. /\ HasFields(e) /\ e.pc = "encode" /\ e.job[1] = j /\ e.surface = d.surface
      /\ e.lost = d.lost /\ e.drawn = d.drawn /\ e.pending = d.pending /\ e.rect = d.rect
      /\ e.holding = d.holding
  BY EncodeIs, Zenon
<1> HIDE DEF e
<1>2. \A r : Owed(e, r) <=> Owed(d, r) BY <1>1, Zenon DEF Owed
<1>3. JobOK(e, j, grab.data, grab.h) BY <1>1, <1>2, Zenon DEF JobOK, Settled
<1>4. plan.x264 => Safe(e, j) BY <1>2, Zenon DEF Safe
<1> QED BY <1>1, <1>3, <1>4, Zenon DEF Result, e

\* A repayment of all that is owed or new.
LEMMA RepayOK ==
    ASSUME NEW d, HasFields(d), d.pc # "encode", NEW grab, grab.h \in Row, Covered(d, grab),
           grab.damage \subseteq Row, NEW region,
           \A r \in 1 .. grab.h : r \in grab.damage \/ Owed(d, r) => r \in region,
           plan.x264 => \A r \in grab.damage : Owed(d, r),
           NEW e \in repay_debt(d, grab, region)
    PROVE Result(d, e, grab)
<1>1. CASE region = {}
  <2>1. e = settle_debt(d, {}) BY <1>1, Zenon DEF repay_debt
  <2>2. Alike(d, e) BY <2>1, Settle, Zenon
  <2>3. \A r \in 1 .. grab.h : r \in d.lost \/ d.drawn[r] = grab.data[r]
    BY <1>1, Zenon DEF Covered, Settled
  <2>4. Good(e, grab.data, grab.h) BY <2>2, <2>3, Zenon DEF Good, Settled, Alike
  <2> QED BY <2>2, <2>4, Zenon DEF Result, Alike
<1>2. CASE region # {}
  <2>1. PICK rows : e = send_clear(d, grab, rows, TRUE, region \ rows)
    BY <1>2, Zenon DEF repay_debt
  <2> DEFINE j == [kind |-> "clear", rows |-> rows, repay |-> TRUE, rest |-> region \ rows,
                   damage |-> grab.damage, data |-> grab.data, h |-> grab.h]
  <2>2. /\ j.kind = "clear" /\ j.rows = rows /\ j.repay = TRUE /\ j.rest = region \ rows
        /\ j.damage = grab.damage /\ j.data = grab.data
    OBVIOUS
  <2>3. e = Encode(d, j) BY <2>1 DEF send_clear
  <2> HIDE DEF j
  <2>4. JobOK(d, j, grab.data, grab.h) BY <2>2, Zenon DEF JobOK, Covered
  <2>5. plan.x264 => Safe(d, j) BY <2>2, Zenon DEF Safe
  <2> QED BY <2>3, <2>4, <2>5, EncodeOK, Zenon
<1> QED BY <1>1, <1>2

LEMMA ClearOK ==
    ASSUME NEW d, HasFields(d), NEW grab, Covered(d, grab), grab.damage \subseteq Row
    PROVE Result(d, send_clear(d, grab, grab.damage, FALSE, {}), grab)
<1> DEFINE j == [kind |-> "clear", rows |-> grab.damage, repay |-> FALSE, rest |-> {},
                 damage |-> grab.damage, data |-> grab.data, h |-> grab.h]
<1>1. /\ j.kind = "clear" /\ j.rows = grab.damage /\ j.repay = FALSE
      /\ j.damage = grab.damage /\ j.data = grab.data
  OBVIOUS
<1>2. send_clear(d, grab, grab.damage, FALSE, {}) = Encode(d, j) BY DEF send_clear
<1> HIDE DEF j
<1>3. JobOK(d, j, grab.data, grab.h) BY <1>1, Zenon DEF JobOK, Covered
<1>4. Safe(d, j) BY <1>1, Zenon DEF Safe
<1> QED BY <1>2, <1>3, <1>4, EncodeOK, Zenon

LEMMA H264OK ==
    ASSUME NEW d, HasFields(d), d.pc # "encode", NEW grab, grab.h \in Row, Covered(d, grab),
           grab.damage \subseteq Row, NEW e \in send_h264(d, grab)
    PROVE Result(d, e, grab)
<1>1. CASE plan.x264
  <2> DEFINE j == [kind |-> "h264", rows |-> 1 .. grab.h, repay |-> FALSE, rest |-> {},
                   damage |-> grab.damage, data |-> grab.data, h |-> grab.h]
  <2>1. PICK fresh : e = Encode([d EXCEPT !.enc = TRUE, !.intra = fresh], j)
    BY <1>1, Zenon DEF send_h264
  <2> DEFINE c == [d EXCEPT !.enc = TRUE, !.intra = fresh]
  <2>2. j.kind = "h264" /\ j.rows = 1 .. grab.h /\ j.damage = grab.damage /\ j.data = grab.data
    OBVIOUS
  <2>3. Alike(d, c) /\ c.pending = d.pending /\ c.rect = d.rect BY DEF HasFields, Alike
  <2>4. e = Encode(c, j) BY <2>1
  <2> HIDE DEF j, c
  <2>5. Covered(c, grab) BY <2>3, SameOwes, MoreCovered, Zenon
  <2>6. JobOK(c, j, grab.data, grab.h)
    <3>1. j.kind # "clear" BY <2>2
    <3>2. 1 .. grab.h \subseteq j.rows BY <2>2, Zenon
    <3> QED BY <2>2, <2>5, <3>1, <3>2, Zenon DEF JobOK, Covered
  <2>7. Safe(c, j) BY <2>2 DEF Safe
  <2>8. Result(c, e, grab) BY <2>3, <2>4, <2>6, <2>7, EncodeOK, Zenon DEF Alike
  <2> QED BY <2>3, <2>8, Zenon DEF Result, Alike
<1>2. CASE ~plan.x264
  <2> DEFINE c == [d EXCEPT !.no_avc = TRUE]
  <2>1. e \in repay_debt(c, grab, 1 .. grab.h) BY <1>2, Zenon DEF send_h264
  <2>2. Alike(d, c) /\ c.pending = d.pending /\ c.rect = d.rect BY DEF HasFields, Alike
  <2> HIDE DEF c
  <2>3. Covered(c, grab) BY <2>2, SameOwes, MoreCovered, Zenon
  <2>4. Result(c, e, grab) BY <1>2, <2>1, <2>2, <2>3, RepayOK, Zenon DEF Alike
  <2> QED BY <2>2, <2>4, Zenon DEF Result, Alike
<1> QED BY <1>1, <1>2

\* A grab that is owed.
LEMMA OweOK ==
    ASSUME NEW d, HasFields(d), d.pc # "encode", NEW grab, grab.h \in Row, Covered(d, grab)
    PROVE Result(d, owe_region(d, grab.damage), grab)
<1> DEFINE e == owe_region(d, grab.damage)
<1>1. OwesMore(d, e) /\ \A r \in Row : r \in grab.damage => Owed(e, r) BY OweRegion, Zenon
<1> HIDE DEF e
<1>2. Good(e, grab.data, grab.h)
  <2> SUFFICES ASSUME NEW r \in 1 .. grab.h PROVE Settled(e, grab.data, r) BY Zenon DEF Good
  <2>1. r \in Row BY RowsAreInts, Zenon
  <2>2. CASE r \in grab.damage BY <1>1, <2>1, <2>2, Zenon DEF Settled
  <2>3. CASE Settled(d, grab.data, r) BY <1>1, <2>1, <2>3, MoreSettled, Zenon
  <2> QED BY <2>2, <2>3, Zenon DEF Covered
<1> QED BY <1>1, <1>2, Zenon DEF OwesMore, Alike, Result, e

LEMMA PaintOK ==
    ASSUME NEW d, HasFields(d), d.pc # "encode", NEW grab, grab.h \in Row, Covered(d, grab),
           grab.damage \subseteq Row, NEW e \in Paint(d, grab)
    PROVE Result(d, e, grab)
<1> DEFINE owing == owe_region(d, grab.damage)
<1>1. Result(d, owing, grab) BY OweOK, Zenon
<1>2. OwesMore(d, owing) /\ \A r \in Row : r \in grab.damage => Owed(owing, r)
  BY OweRegion, Zenon
<1>3. CASE grab.damage = {} /\ e = d
  <2>1. Good(d, grab.data, grab.h) BY <1>3, Zenon DEF Covered, Good
  <2> QED BY <1>3, <2>1, Zenon DEF Result
<1>4. CASE grab.damage = {} /\ e \in repay_debt(d, grab, debt_region(d, grab.h))
  <2>1. \A r \in 1 .. grab.h : r \in grab.damage \/ Owed(d, r) => r \in debt_region(d, grab.h)
    BY <1>4, DebtRegion, Zenon
  <2> QED BY <1>4, <2>1, RepayOK, Zenon
<1>5. CASE e \in repay_debt(owing, grab, debt_region(owing, grab.h))
  <2> HIDE DEF owing
  <2>1. \A r \in 1 .. grab.h : r \in grab.damage \/ Owed(owing, r) => r \in debt_region(owing, grab.h)
    BY <1>2, RowsAreInts, DebtRegion, Zenon
  <2>2. Covered(owing, grab) BY <1>2, MoreCovered, Zenon
  <2>3. Result(owing, e, grab) BY <1>2, <1>5, <2>1, <2>2, RepayOK, Zenon DEF OwesMore, Alike
  <2> QED BY <1>2, <2>3, Zenon DEF Result, OwesMore, Alike
<1>6. CASE e \in send_h264(d, grab) BY <1>6, H264OK, Zenon
<1>7. CASE e = owing BY <1>1, <1>7, Zenon
<1>8. CASE e = send_clear(d, grab, grab.damage, FALSE, {}) BY <1>8, ClearOK, Zenon
<1> QED BY <1>3, <1>4, <1>5, <1>6, <1>7, <1>8, Zenon DEF Paint

LEMMA LeaveMotionMore ==
    ASSUME NEW d, HasFields(d)
    PROVE OwesMore(d, LeaveMotion(d))
<1> DEFINE d1 == [d EXCEPT !.motion = @ /\ ~d.settling]
           all == owe_everything(d1)
           d2 == [d1 EXCEPT !.motion = FALSE]
           d3 == [all EXCEPT !.motion = FALSE]
<1>1. Alike(d, d1) /\ d1.pending = d.pending /\ d1.rect = d.rect BY DEF HasFields, Alike
<1>2. Alike(d, d2) /\ d2.pending = d.pending /\ d2.rect = d.rect BY DEF HasFields, Alike
<1>3. LeaveMotion(d) \in {d1, d2, d3} BY Zenon DEF LeaveMotion
<1> HIDE DEF d1
<1>4. Alike(d1, all) /\ \A r \in Row : Owed(all, r) BY <1>1, OweEverything, Zenon DEF Alike
<1> HIDE DEF all
<1>5. Alike(all, d3) /\ d3.pending = all.pending /\ d3.rect = all.rect
  BY <1>4 DEF HasFields, Alike
<1> HIDE DEF d2, d3
<1>6. OwesMore(d, d1) /\ OwesMore(d, d2) BY <1>1, <1>2, SameOwes, Zenon
<1>7. Alike(d, d3) BY <1>1, <1>4, <1>5, Zenon DEF Alike
<1>8. \A r \in Row : Owed(d3, r) BY <1>4, <1>5, Zenon DEF Owed
<1>9. OwesMore(d, d3) BY <1>7, <1>8, Zenon DEF OwesMore
<1> QED BY <1>3, <1>6, <1>9, Zenon

LEMMA WithSurfaceOK ==
    ASSUME NEW d, HasFields(d), d.pc # "encode", HoldOK(d), NEW g, NEW out,
           NEW grab, grab.h \in Row, Covered(d, grab), grab.damage \subseteq Row,
           NEW p \in WithSurface(Outcome(d, g, out), grab)
    PROVE p.g = g /\ Result(d, p.d, grab) /\ HoldOK(p.d)
<1> DEFINE o == Outcome(d, g, out)
           owing == owe_region(d, grab.damage)
           left == LeaveMotion(d)
<1>1. o.d = d /\ o.g = g /\ \A e : [o EXCEPT !.d = e] = Outcome(e, g, out) BY DEF Outcome
<1>2. \A e : Outcome(e, g, out).d = e /\ Outcome(e, g, out).g = g BY DEF Outcome
<1>3. \/ p = o /\ (grab.damage = {} \/ d.holding)
      \/ p = Outcome(owing, g, out)
      \/ ~d.holding /\ \E e \in Paint(left, grab) : p = Outcome(e, g, out)
  <2> HIDE DEF o
  <2>1. \/ p = o /\ (grab.damage = {} \/ o.d.holding)
        \/ p = [o EXCEPT !.d = owe_region(o.d, grab.damage)]
        \/ ~o.d.holding /\ \E e \in Paint(LeaveMotion(o.d), grab) : p = [o EXCEPT !.d = e]
    BY Zenon DEF WithSurface, o
  <2> QED BY <1>1, <2>1, Zenon
<1> HIDE DEF o
<1>4. CASE p = o /\ (grab.damage = {} \/ d.holding)
  <2>1. Good(d, grab.data, grab.h)
    BY <1>4, Zenon DEF Covered, Good, HoldOK, Settled, Owed
  <2> QED BY <1>1, <1>4, <2>1, Zenon DEF Result
<1>5. CASE p = Outcome(owing, g, out)
  <2>1. Result(d, owing, grab) BY OweOK, Zenon
  <2>2. HoldOK(owing) BY OweRegion, Zenon
  <2> HIDE DEF owing
  <2> QED BY <1>2, <1>5, <2>1, <2>2, Zenon
<1>6. CASE ~d.holding /\ \E e \in Paint(left, grab) : p = Outcome(e, g, out)
  <2>1. PICK e \in Paint(left, grab) : p = Outcome(e, g, out) BY <1>6, Zenon
  <2>2. OwesMore(d, left) BY LeaveMotionMore, Zenon
  <2> HIDE DEF left
  <2>3. Covered(left, grab) BY <2>2, MoreCovered, Zenon
  <2>4. Result(left, e, grab) BY <2>1, <2>2, <2>3, PaintOK, Zenon DEF OwesMore, Alike
  <2>5. Result(d, e, grab) BY <2>2, <2>4, Zenon DEF OwesMore, Alike, Result
  <2>6. HoldOK(e) BY <1>6, <2>5, Zenon DEF Result, HoldOK
  <2> QED BY <1>2, <2>1, <2>5, <2>6, Zenon
<1> QED BY <1>3, <1>4, <1>5, <1>6, Zenon

-----------------------------------------------------------------------------
(* The surface.                                                            *)

GfxFields(g) == {"state", "ready", "surfaces"} \subseteq DOMAIN g

\* The pipeline is as ready as before.
GfxLike(g, k) == GfxFields(k) /\ k.state = g.state /\ k.ready = g.ready

\* A new surface, all of it owed.
NewSurface(d, g, h) == [ensure_surface(d, g, h) EXCEPT !.d = owe_everything(@)]

NewSurfaceOK(d, g, h, e, k, out) ==
    /\ NewSurface(d, g, h) = Outcome(e, k, out)
    /\ HasFields(e) /\ e.pc # "encode" /\ HoldOK(e) /\ e.lost = d.lost
    /\ e.surface = {[id |-> g.next_surface, h |-> h]}
    /\ \A r \in Row : Owed(e, r)
    /\ GfxLike(g, k)

LEMMA EnsureOK ==
    ASSUME NEW d, HasFields(d), d.pc # "encode", NEW g, GfxFields(g), NEW h
    PROVE \E e, k, out : NewSurfaceOK(d, g, h, e, k, out)
<1> DEFINE old == d.surface # {}
           g1 == IF old THEN [ClearFrames(g) EXCEPT !.surfaces = {}] ELSE g
           id == g.next_surface
           k == [g1 EXCEPT !.surfaces = @ \cup {id}, !.next_surface = @ + 1, !.reset_sent = TRUE]
           c == [d EXCEPT !.surface = {[id |-> id, h |-> h]}, !.no_avc = ~plan.avc, !.drawn = Blank]
           e == owe_everything(c)
           out == <<[t |-> "surface", id |-> id, h |-> h,
                     gone |-> IF old THEN g.surfaces ELSE {}, reset |-> old \/ ~g.reset_sent]>>
<1>1. ensure_surface(d, g, h) = Outcome(c, k, out) BY Zenon DEF ensure_surface
<1>2. HasFields(c) /\ c.pc = d.pc /\ c.lost = d.lost /\ c.surface = {[id |-> id, h |-> h]}
  BY DEF HasFields
<1>3. GfxLike(g, g1) BY DEF GfxLike, GfxFields, ClearFrames
<1> HIDE DEF g1
<1>4. GfxLike(g, k) BY <1>3 DEF GfxLike, GfxFields
<1> HIDE DEF c, k, out
<1>5. Alike(c, e) /\ \A r \in Row : Owed(e, r) BY <1>2, OweEverything, Zenon
<1>6. e.pending = TRUE /\ e.rect = {} BY <1>2 DEF owe_everything, HasFields
<1>7. NewSurface(d, g, h) = Outcome(e, k, out) BY <1>1 DEF Outcome, NewSurface
<1> HIDE DEF e
<1>8. /\ HasFields(e) /\ e.pc # "encode" /\ e.lost = d.lost
      /\ e.surface = {[id |-> g.next_surface, h |-> h]}
  BY <1>2, <1>5, Zenon DEF Alike
<1>9. HoldOK(e) BY <1>6, <1>8, Zenon DEF HoldOK
<1> QED BY <1>4, <1>5, <1>7, <1>8, <1>9, Zenon DEF NewSurfaceOK

\* What a grab that goes to the pipeline leaves.
FrameOK(d, g, e, k, grab) ==
    /\ HasFields(e) /\ HoldOK(e) /\ GfxLike(g, k) /\ e.lost = d.lost
    /\ \/ e.surface = d.surface /\ \E s \in d.surface : s.h = grab.h
       \/ e.surface = {[id |-> g.next_surface, h |-> grab.h]}
    /\ e.pc = "encode" /\ plan.x264 => Safe(e, e.job[1])
    /\ e.pc # "encode" => Good(e, grab.data, grab.h)
    /\ e.pc = "encode" => JobOK(e, e.job[1], grab.data, grab.h)

LEMMA AllOwed ==
    ASSUME NEW d, \A r \in Row : Owed(d, r), NEW grab, grab.h \in Row
    PROVE Good(d, grab.data, grab.h) /\ Covered(d, grab)
BY RowsAreInts, Zenon DEF Good, Covered, Settled

LEMMA FrameStep ==
    ASSUME NEW d, HasFields(d), d.pc # "encode", HoldOK(d), NEW g, GfxFields(g),
           NEW grab, grab.h \in Row, grab.damage \subseteq Row,
           (\E s \in d.surface : s.h = grab.h) /\ (\A s \in d.surface : s.id \in g.surfaces)
             => Covered(d, grab),
           NEW p \in egfx_frame(d, g, grab)
    PROVE FrameOK(d, g, p.d, p.g, grab)
<1> DEFINE sized == \A s \in d.surface : s.h # grab.h
           alive == \A s \in d.surface : s.id \in g.surfaces
           d1 == [d EXCEPT !.settling = @ \/ d.surface # {}, !.intra = TRUE, !.met = @ \/ ~alive]
           d2 == [d EXCEPT !.surface = {}, !.seq = 0, !.intra = TRUE, !.holding = TRUE]
<1>1. \/ sized /\ p \in WithSurface(NewSurface(d1, g, grab.h), grab)
      \/ p = NewSurface(d2, g, grab.h)
      \/ ~sized /\ alive /\ p \in WithSurface(Outcome(d, g, << >>), grab)
  BY Zenon DEF egfx_frame, NewSurface
<1>2. HasFields(d1) /\ d1.pc # "encode" /\ d1.lost = d.lost BY DEF HasFields
<1>3. HasFields(d2) /\ d2.pc # "encode" /\ d2.lost = d.lost BY DEF HasFields
<1>4. CASE p \in WithSurface(NewSurface(d1, g, grab.h), grab)
  <2> HIDE DEF d1
  <2>0. PICK e, k, out : NewSurfaceOK(d1, g, grab.h, e, k, out)
    BY <1>2, EnsureOK, Zenon
  <2>1. /\ NewSurface(d1, g, grab.h) = Outcome(e, k, out)
        /\ HasFields(e) /\ e.pc # "encode" /\ HoldOK(e) /\ e.lost = d1.lost
        /\ e.surface = {[id |-> g.next_surface, h |-> grab.h]}
        /\ \A r \in Row : Owed(e, r)
        /\ GfxLike(g, k)
    BY <2>0, Zenon DEF NewSurfaceOK
  <2>2. Covered(e, grab) BY <2>1, AllOwed, Zenon
  <2>3. p \in WithSurface(Outcome(e, k, out), grab) BY <1>4, <2>1, Zenon
  <2>4. p.g = k /\ Result(e, p.d, grab) /\ HoldOK(p.d)
    BY <2>1, <2>2, <2>3, WithSurfaceOK, Zenon
  <2> QED BY <1>2, <2>1, <2>4, Zenon DEF Result, FrameOK
<1>5. CASE p = NewSurface(d2, g, grab.h)
  <2> HIDE DEF d2
  <2>0. PICK e, k, out : NewSurfaceOK(d2, g, grab.h, e, k, out)
    BY <1>3, EnsureOK, Zenon
  <2>1. /\ NewSurface(d2, g, grab.h) = Outcome(e, k, out)
        /\ HasFields(e) /\ e.pc # "encode" /\ HoldOK(e) /\ e.lost = d2.lost
        /\ e.surface = {[id |-> g.next_surface, h |-> grab.h]}
        /\ \A r \in Row : Owed(e, r)
        /\ GfxLike(g, k)
    BY <2>0, Zenon DEF NewSurfaceOK
  <2>2. p.d = e /\ p.g = k
    <3>1. p = Outcome(e, k, out) BY <1>5, <2>1, Zenon
    <3> QED BY <3>1 DEF Outcome
  <2>3. Good(e, grab.data, grab.h) BY <2>1, AllOwed, Zenon
  <2> QED BY <1>3, <2>1, <2>2, <2>3, Zenon DEF FrameOK
<1>6. CASE ~sized /\ alive /\ p \in WithSurface(Outcome(d, g, << >>), grab)
  <2>1. Covered(d, grab) BY <1>6, Zenon
  <2>2. p.g = g /\ Result(d, p.d, grab) /\ HoldOK(p.d)
    BY <1>6, <2>1, WithSurfaceOK, Zenon
  <2>3. \E s \in d.surface : s.h = grab.h BY <1>6, Zenon
  <2> QED BY <2>2, <2>3, Zenon DEF Result, FrameOK, GfxLike
<1> QED BY <1>1, <1>4, <1>5, <1>6, Zenon

-----------------------------------------------------------------------------
(* The end of a frame.                                                     *)

\* A frame that is over, whichever way.
EndOK(d, e, data, h) ==
    /\ HasFields(e) /\ e.pc = d.pc /\ e.surface = d.surface /\ (e.holding => d.holding)
    /\ Good(e, data, h)

\* What goes out is drawn, and the rest is as it was.
LEMMA DeliveredOK ==
    ASSUME NEW d, HasFields(d), NEW j, NEW h \in Row,
           \A r \in 1 .. h : r \in j.rows \/ Settled(d, j.data, r)
    PROVE EndOK(d, Delivered(d, j), j.data, h)
<1> DEFINE e == Delivered(d, j)
<1>1. /\ HasFields(e) /\ e.pc = d.pc /\ e.surface = d.surface
      /\ e.pending = d.pending /\ e.rect = d.rect /\ e.holding = d.holding
      /\ e.lost = d.lost \ j.rows
      /\ \A r \in Row : e.drawn[r] = IF r \in j.rows THEN j.data[r] ELSE d.drawn[r]
  BY DEF HasFields, Delivered
<1> HIDE DEF e
<1>2. \A r : Owed(d, r) => Owed(e, r) BY <1>1, Zenon DEF Owed
<1>3. Good(e, j.data, h)
  <2> SUFFICES ASSUME NEW r \in 1 .. h PROVE Settled(e, j.data, r) BY Zenon DEF Good
  <2>1. r \in Row BY RowsAreInts, Zenon
  <2>2. CASE r \in j.rows BY <1>1, <2>1, <2>2, Zenon DEF Settled
  <2>3. CASE r \notin j.rows BY <1>1, <1>2, <2>1, <2>3, Zenon DEF Settled
  <2> QED BY <2>2, <2>3, Zenon
<1> QED BY <1>1, <1>3, Zenon DEF EndOK, e

\* Fields nobody here looks at.
LEMMA EndSame ==
    ASSUME NEW d, NEW c, NEW e, NEW data, NEW h, EndOK(d, c, data, h),
           Alike(c, e), e.pending = c.pending, e.rect = c.rect
    PROVE EndOK(d, e, data, h)
<1>1. \A r : Owed(c, r) => Owed(e, r) BY Zenon DEF Owed
<1> QED BY <1>1, Zenon DEF EndOK, Alike, Good, Settled

LEMMA LoseOK ==
    ASSUME NEW d, HasFields(d), NEW damage, NEW data, NEW h,
           \A r \in 1 .. h : r \in damage \/ Settled(d, data, r)
    PROVE EndOK(d, Lose(d, damage), data, h)
<1> DEFINE more == {r \in damage : ~Owed(d, r)}
           e == [d EXCEPT !.lost = @ \cup more]
<1>1. /\ HasFields(e) /\ e.pc = d.pc /\ e.surface = d.surface /\ e.holding = d.holding
      /\ e.pending = d.pending /\ e.rect = d.rect /\ e.drawn = d.drawn
      /\ e.lost = d.lost \cup more
  BY DEF HasFields
<1>2. Lose(d, damage) = e BY DEF Lose
<1> HIDE DEF e
<1>3. \A r : Owed(d, r) => Owed(e, r) BY <1>1, Zenon DEF Owed
<1>4. Good(e, data, h) BY <1>1, <1>3, Zenon DEF Good, Settled
<1> QED BY <1>1, <1>2, <1>4, Zenon DEF EndOK

\* The window is none of the pipeline's state.
LEMMA WindowLike ==
    ASSUME NEW g, GfxFields(g), NEW p, update_in_flight_window(p, g)
    PROVE GfxLike(g, gfx')
<1>1. CASE gfx' = g BY <1>1, Zenon DEF GfxLike
<1>2. CASE \E w \in MinInFlight .. MaxInFlight : gfx' = [g EXCEPT !.window = w]
  BY <1>2 DEF GfxLike, GfxFields
<1> QED BY <1>1, <1>2, Zenon DEF update_in_flight_window

LEMMA BeginLike ==
    ASSUME NEW g, GfxFields(g), NEW size
    PROVE GfxLike(g, begin_frame(g, size))
BY DEF GfxLike, GfxFields, begin_frame

LEMMA ClearEncodedOK ==
    ASSUME NEW d, HasFields(d), NEW j, NEW data, NEW h \in Row, JobOK(d, j, data, h),
           j.kind = "clear", GfxFields(gfx), NEW id
    PROVE LET o == ClearEncoded(d, j, id) IN EndOK(d, o.d, data, h) /\ GfxLike(gfx, o.g)
<1>1. CASE Takes(gfx, id)
  <2> DEFINE b == IF j.repay THEN settle_debt(d, j.rest) ELSE d
             c == Delivered(b, j)
             e == [c EXCEPT !.seq = @ + 1]
             k == begin_frame(gfx, Cardinality(j.rows))
             o == ClearEncoded(d, j, id)
  <2>1. o.d = e /\ o.g = k BY <1>1 DEF ClearEncoded, Outcome
  <2>2. Alike(d, b) /\ \A r \in 1 .. h : r \in j.rows \/ Settled(b, data, r)
    <3>1. CASE j.repay
      <4>1. b = settle_debt(d, j.rest) BY <3>1, Zenon
      <4>2. Alike(d, b) /\ \A r \in j.rest : Owed(b, r) BY <4>1, Settle, Zenon
      <4> HIDE DEF b
      <4> QED BY <3>1, <4>2, Zenon DEF JobOK, Settled, Alike
    <3>2. CASE ~j.repay
      <4>1. b = d BY <3>2, Zenon
      <4> HIDE DEF b
      <4> QED BY <3>2, <4>1, Zenon DEF JobOK, Alike
    <3> QED BY <3>1, <3>2, Zenon
  <2> HIDE DEF b
  <2>3. EndOK(b, c, data, h) BY <2>2, DeliveredOK, Zenon DEF JobOK, Alike
  <2> HIDE DEF c
  <2>4. Alike(c, e) /\ e.pending = c.pending /\ e.rect = c.rect
    BY <2>3 DEF EndOK, HasFields, Alike
  <2> HIDE DEF e
  <2>5. EndOK(b, e, data, h) BY <2>3, <2>4, EndSame, Zenon
  <2>6. EndOK(d, e, data, h) BY <2>2, <2>5, Zenon DEF EndOK, Alike
  <2> QED BY <2>1, <2>6, BeginLike, Zenon
<1>2. CASE ~Takes(gfx, id)
  <2> DEFINE c == owe_region(d, j.rows)
             e == Lose(c, j.damage)
             o == ClearEncoded(d, j, id)
  <2>1. o.d = e /\ o.g = gfx BY <1>2 DEF ClearEncoded, Outcome
  <2>2. OwesMore(d, c) BY OweRegion, Zenon
  <2> HIDE DEF c
  <2>3. \A r \in 1 .. h : r \in j.damage \/ Settled(c, data, r)
    BY <2>2, RowsAreInts, MoreSettled, Zenon DEF JobOK
  <2>4. EndOK(c, e, data, h) BY <2>2, <2>3, LoseOK, Zenon DEF OwesMore, Alike
  <2> HIDE DEF e
  <2>5. EndOK(d, e, data, h) BY <2>2, <2>4, Zenon DEF OwesMore, Alike, EndOK
  <2> QED BY <2>1, <2>5, Zenon DEF GfxLike
<1> QED BY <1>1, <1>2, Zenon

LEMMA H264EncodedOK ==
    ASSUME NEW d, HasFields(d), NEW j, NEW data, NEW h \in Row, JobOK(d, j, data, h),
           j.kind # "clear", GfxFields(gfx), NEW id
    PROVE LET o == H264Encoded(d, j, id) IN EndOK(d, o.d, data, h) /\ GfxLike(gfx, o.g)
<1>1. CASE Takes(gfx, id)
  <2> DEFINE b == settle_debt(d, {})
             c == Delivered(b, j)
             e == [c EXCEPT !.n = @ + 1, !.intra = FALSE, !.sent_h264 = TRUE,
                            !.motion = TRUE, !.linger = TRUE]
             k == begin_frame(gfx, 1)
             o == H264Encoded(d, j, id)
  <2>1. o.d = e /\ o.g = k BY <1>1 DEF H264Encoded, Outcome
  <2>2. Alike(d, b) BY Settle, Zenon
  <2> HIDE DEF b
  <2>3. EndOK(b, c, data, h) BY <2>2, DeliveredOK, Zenon DEF JobOK, Alike
  <2> HIDE DEF c
  <2>4. Alike(c, e) /\ e.pending = c.pending /\ e.rect = c.rect
    BY <2>3 DEF EndOK, HasFields, Alike
  <2> HIDE DEF e
  <2>5. EndOK(b, e, data, h) BY <2>3, <2>4, EndSame, Zenon
  <2>6. EndOK(d, e, data, h) BY <2>2, <2>5, Zenon DEF EndOK, Alike
  <2> QED BY <2>1, <2>6, BeginLike, Zenon
<1>2. CASE ~Takes(gfx, id)
  <2> DEFINE c == owe_region(d, j.damage)
             e == [c EXCEPT !.n = @ + 1, !.intra = TRUE]
             o == H264Encoded(d, j, id)
  <2>1. o.d = e /\ o.g = gfx BY <1>2 DEF H264Encoded, Outcome
  <2>2. OwesMore(d, c) /\ \A r \in Row : r \in j.damage => Owed(c, r) BY OweRegion, Zenon
  <2> HIDE DEF c
  <2>3. Good(c, data, h)
    <3> SUFFICES ASSUME NEW r \in 1 .. h PROVE Settled(c, data, r) BY Zenon DEF Good
    <3>1. r \in Row BY RowsAreInts, Zenon
    <3>2. CASE r \in j.damage BY <2>2, <3>1, <3>2, Zenon DEF Settled
    <3>3. CASE Settled(d, data, r) BY <2>2, <3>1, <3>3, MoreSettled, Zenon
    <3> QED BY <3>2, <3>3, Zenon DEF JobOK
  <2>4. EndOK(d, c, data, h) BY <2>2, <2>3, Zenon DEF OwesMore, Alike, EndOK
  <2>5. Alike(c, e) /\ e.pending = c.pending /\ e.rect = c.rect
    BY <2>2 DEF OwesMore, HasFields, Alike
  <2> HIDE DEF e
  <2>6. EndOK(d, e, data, h) BY <2>4, <2>5, EndSame, Zenon
  <2> QED BY <2>1, <2>6, Zenon DEF GfxLike
<1> QED BY <1>1, <1>2, Zenon

-----------------------------------------------------------------------------
(* The steps.                                                              *)

ScrFields(s) == {"h", "img", "damaged", "event"} \subseteq DOMAIN s

SrcFields(s) == {"base", "h", "force", "missed"} \subseteq DOMAIN s

Shapes ==
    /\ ScrFields(scr) /\ scr.h \in Row /\ SrcFields(src)
    /\ HasFields(dsp) /\ HoldOK(dsp)
    /\ (\A s \in dsp.surface : s.h \in Row) /\ \A s, t \in dsp.surface : s = t
    /\ GfxFields(gfx)

\* There is a surface only once the pipeline was ready, and only a pipeline that
\* is ready for the loop is ready at all.
ReadyInv ==
    /\ gfx.state = "Ready" => gfx.ready = TRUE
    /\ gfx.state \notin {"Ready", "Closed"} => dsp.surface = {}

\* The change is in the frame that is being encoded.
JobInv ==
    dsp.pc = "encode" => src.h \in Row /\ JobOK(dsp, dsp.job[1], src.base, src.h)

\* Every row of the last image is on the surface, owed, or noted as lost.
ImageKept ==
    \A s \in dsp.surface :
       (gfx.state = "Ready" /\ dsp.pc # "encode" /\ s.id \in gfx.surfaces /\ src.h = s.h) =>
          \A r \in 1 .. s.h : Owed(dsp, r) \/ r \in dsp.lost \/ dsp.drawn[r] = src.base[r]

\* No grab is forced, under way, or has failed.
Unforced == dsp.pc # "poll" /\ ~src.force /\ ~src.missed

\* The screen is as in the last image, and the surface is of its size, but for
\* drawing that has been notified. DAMAGE notifies only what is drawn after it
\* was re-armed.
ScreenInv ==
    /\ scr.damaged => scr.event
    /\ Unforced /\ ~scr.event =>
         src.h = scr.h /\ \A r \in 1 .. scr.h : src.base[r] = scr.img[r]
    /\ Unforced /\ gfx.state = "Ready" => \A s \in dsp.surface : s.h = src.h

\* The inductive invariant.
IInv == Shapes /\ ReadyInv /\ JobInv /\ ImageKept /\ ScreenInv

\* The same in the terms used here.
LEMMA KeptIs ==
    ImageKept <=>
        \A s \in dsp.surface :
            (gfx.state = "Ready" /\ dsp.pc # "encode" /\ s.id \in gfx.surfaces /\ src.h = s.h)
                => Good(dsp, src.base, s.h)
BY Zenon DEF ImageKept, Good, Settled

LEMMA KeptNext ==
    ImageKept' <=>
        \A s \in dsp'.surface :
            (gfx'.state = "Ready" /\ dsp'.pc # "encode" /\ s.id \in gfx'.surfaces /\ src'.h = s.h)
                => Good(dsp', src'.base, s.h)
BY Zenon DEF ImageKept, Good, Settled

\* The pipeline may be closed, or forget surfaces, but never finds one again.
GfxStep(g, k) ==
    /\ GfxFields(k) /\ (k.state = "Ready" => k.ready = TRUE)
    /\ g.state = "Ready" /\ k.state = "Ready" => k.surfaces \subseteq g.surfaces
    /\ g.state = "Closed" => k.state = "Closed"
    /\ k.state \notin {"Ready", "Closed"} => g.state \notin {"Ready", "Closed"}

LEMMA GfxStays == ASSUME IInv PROVE GfxStep(gfx, gfx)
BY Zenon DEF IInv, Shapes, ReadyInv, GfxStep

\* The same loop, but for fields nobody here looks at.
Same(d, e) == Alike(d, e) /\ e.job = d.job /\ e.pending = d.pending /\ e.rect = d.rect

LEMMA SameGood ==
    ASSUME NEW d, NEW e, Same(d, e)
    PROVE /\ \A data, h : Good(d, data, h) => Good(e, data, h)
          /\ \A j, data, h : JobOK(d, j, data, h) => JobOK(e, j, data, h)
          /\ HoldOK(d) => HoldOK(e)
<1>1. \A r : Owed(e, r) <=> Owed(d, r) BY Zenon DEF Same, Owed
<1>2. \A data, r : Settled(e, data, r) <=> Settled(d, data, r) BY <1>1, Zenon DEF Same, Alike, Settled
<1>3. \A data, h : Good(d, data, h) => Good(e, data, h) BY <1>2, Zenon DEF Good
<1>4. ASSUME NEW j, NEW data, NEW h, JobOK(d, j, data, h) PROVE JobOK(e, j, data, h)
  <2>1. \A r \in 1 .. h : r \in j.damage \/ Settled(e, data, r) BY <1>2, <1>4, Zenon DEF JobOK
  <2>2. j.kind = "clear" /\ j.repay =>
          \A r \in 1 .. h : r \in j.damage \/ Owed(e, r) => r \in j.rows \/ r \in j.rest
    BY <1>1, <1>4, Zenon DEF JobOK
  <2> QED BY <1>4, <2>1, <2>2, Zenon DEF JobOK
<1>5. HoldOK(d) => HoldOK(e) BY Zenon DEF Same, Alike, HoldOK
<1> QED BY <1>3, <1>4, <1>5, Zenon

\* The screen stays as it is, or what is drawn is notified.
ScrStep(s, t) == ScrFields(t) /\ t.h \in Row /\ (t = s \/ t.event)

\* Steps that leave the loop and its image alone.
LEMMA QuietStep ==
    ASSUME IInv, Same(dsp, dsp'), GfxStep(gfx, gfx'), src' = src, ScrStep(scr, scr')
    PROVE IInv'
<1>1. Shapes' BY SameGood, Zenon DEF IInv, Shapes, Same, Alike, GfxStep, ScrStep
<1>2. ReadyInv' BY Zenon DEF IInv, ReadyInv, Same, Alike, GfxStep
<1>3. JobInv' BY SameGood, Zenon DEF IInv, JobInv, Same, Alike
<1>4. ImageKept'
  <2> SUFFICES ASSUME NEW s \in dsp'.surface, gfx'.state = "Ready", dsp'.pc # "encode",
                      s.id \in gfx'.surfaces, src'.h = s.h
               PROVE Good(dsp', src'.base, s.h)
    BY KeptNext, Zenon
  <2>1. dsp.surface = dsp'.surface /\ dsp.pc = dsp'.pc BY Zenon DEF Same, Alike
  <2>2. gfx.state = "Ready" BY <2>1 DEF GfxStep, IInv, ReadyInv
  <2>3. s.id \in gfx.surfaces BY <2>2, Zenon DEF GfxStep
  <2>4. Good(dsp, src.base, s.h) BY <2>1, <2>2, <2>3, KeptIs, Zenon DEF IInv
  <2> QED BY <2>4, SameGood, Zenon
<1>5. ScreenInv'
  <2>1. Unforced' <=> Unforced BY Zenon DEF Unforced, Same, Alike
  <2>2. scr'.damaged => scr'.event BY Zenon DEF IInv, ScreenInv, ScrStep
  <2>3. Unforced' /\ ~scr'.event =>
          src'.h = scr'.h /\ \A r \in 1 .. scr'.h : src'.base[r] = scr'.img[r]
    BY <2>1, Zenon DEF IInv, ScreenInv, ScrStep
  <2>4. gfx'.state = "Ready" /\ dsp'.surface # {} => gfx.state = "Ready"
    BY Zenon DEF GfxStep, IInv, ReadyInv, Same, Alike
  <2>5. Unforced' /\ gfx'.state = "Ready" => \A s \in dsp'.surface : s.h = src'.h
    BY <2>1, <2>4, Zenon DEF IInv, ScreenInv, Same, Alike
  <2> QED BY <2>2, <2>3, <2>5, Zenon DEF ScreenInv
<1> QED BY <1>1, <1>2, <1>3, <1>4, <1>5, Zenon DEF IInv

\* Steps of the loop between two frames.
LEMMA IdleStep ==
    ASSUME IInv, dsp.pc # "encode", gfx' = gfx, HasFields(dsp'), HoldOK(dsp'),
           dsp'.pc # "encode", dsp'.surface = dsp.surface, dsp'.lost = dsp.lost,
           dsp'.drawn = dsp.drawn, \A r \in Row : Owed(dsp, r) => Owed(dsp', r),
           SrcFields(src'), src'.base = src.base, src'.h = src.h,
           ScrFields(scr'), scr'.h \in Row, scr'.damaged => scr'.event,
           \/ dsp'.pc = "poll" \/ src'.missed
           \/ dsp.pc # "poll" /\ src' = src /\ scr' = scr
    PROVE IInv'
<1>1. Shapes' BY Zenon DEF IInv, Shapes
<1>2. ReadyInv' BY Zenon DEF IInv, ReadyInv
<1>3. JobInv' BY Zenon DEF JobInv
<1>4. ImageKept'
  <2> SUFFICES ASSUME NEW s \in dsp.surface, gfx.state = "Ready", s.id \in gfx.surfaces,
                      src.h = s.h
               PROVE Good(dsp', src.base, s.h)
    BY KeptNext, Zenon
  <2>1. Good(dsp, src.base, s.h) BY KeptIs, Zenon DEF IInv
  <2>2. 1 .. s.h \subseteq Row BY RowsAreInts, Zenon DEF IInv, Shapes
  <2> QED BY <2>1, <2>2, Zenon DEF Good, Settled
<1>5. ScreenInv' BY Zenon DEF IInv, ScreenInv, Unforced
<1> QED BY <1>1, <1>2, <1>3, <1>4, <1>5, Zenon DEF IInv

\* Steps that end a frame.
LEMMA EndStep ==
    ASSUME IInv, scr' = scr, src' = src, GfxLike(gfx, gfx'), HasFields(dsp'), HoldOK(dsp'),
           dsp'.pc # "encode", dsp'.surface = dsp.surface, Good(dsp', src.base, src.h),
           dsp.pc # "poll"
    PROVE IInv'
<1>1. Shapes' BY Zenon DEF IInv, Shapes, GfxLike
<1>2. ReadyInv' BY Zenon DEF IInv, ReadyInv, GfxLike
<1>3. JobInv' BY Zenon DEF JobInv
<1>4. ImageKept' BY KeptNext, Zenon
<1>5. ScreenInv' BY Zenon DEF IInv, ScreenInv, Unforced, GfxLike
<1> QED BY <1>1, <1>2, <1>3, <1>4, <1>5, Zenon DEF IInv

LEMMA InitOK == Init => IInv
<1> SUFFICES ASSUME Init PROVE IInv OBVIOUS
<1>1. ScrFields(scr) /\ scr.h \in Row /\ scr.event BY GraphicsAssumption DEF Init, Row, ScrFields
<1>2. SrcFields(src) /\ src.force BY DEF Init, NewSrc, SrcFields
<1>3. HasFields(dsp) /\ dsp.surface = {} /\ dsp.pc = "idle" /\ dsp.holding = FALSE
  BY DEF Init, NewDsp, HasFields
<1>4. GfxFields(gfx) BY DEF Init, NewGfx, GfxFields
<1>5. gfx.state = "Ready" => gfx.ready = TRUE BY DEF Init, NewGfx
<1>6. HoldOK(dsp) BY <1>3, Zenon DEF HoldOK
<1>7. dsp.pc # "encode" BY <1>3
<1>8. ImageKept BY <1>3, Zenon DEF ImageKept
<1>9. ScreenInv BY <1>1, <1>2, Zenon DEF ScreenInv, Unforced
<1> QED
  BY <1>1, <1>2, <1>3, <1>4, <1>5, <1>6, <1>7, <1>8, <1>9, Zenon DEF IInv, Shapes, ReadyInv, JobInv

\* The top of the loop, whether or not it polls.
LEMMA UpdateDoes ==
    ASSUME IInv, next_update
    PROVE \E d : /\ gfx' = gfx
                 /\ \/ dsp' = d /\ scr' = scr /\ src' = src
                    \/ /\ dsp' = [d EXCEPT !.pc = "poll"]
                       /\ src' = [src EXCEPT !.force = FALSE]
                       /\ \E e : scr' = [scr EXCEPT !.damaged = FALSE, !.event = e]
                 /\ d.pc = "idle" /\ OwesMore(dsp, d) /\ HoldOK(d)
<1> DEFINE x == owe_region(dsp, dsp.refresh)
           y == [x EXCEPT !.refresh = {}, !.legacy_refresh = Span(@ \cup dsp.refresh)]
           asked == dsp.refresh # {}
           d == IF ~asked THEN dsp ELSE y
<1>0. HasFields(dsp) /\ HoldOK(dsp) /\ dsp.pc = "idle" BY Zenon DEF IInv, Shapes, next_update
<1>1. OwesMore(dsp, x) /\ HoldOK(x) BY <1>0, OweRegion, Zenon
<1> HIDE DEF x
<1>2. Alike(x, y) /\ y.pending = x.pending /\ y.rect = x.rect /\ y.holding = x.holding
  BY <1>1 DEF OwesMore, Alike, HasFields
<1> HIDE DEF y
<1>3. OwesMore(dsp, y) /\ HoldOK(y)
  BY <1>1, <1>2, SameOwes, Zenon DEF OwesMore, Alike, HoldOK
<1>4. OwesMore(dsp, d) /\ HoldOK(d)
  BY <1>0, <1>3, Zenon DEF OwesMore, Alike
<1>5. gfx' = gfx /\ \/ dsp' = d /\ scr' = scr /\ src' = src
                    \/ /\ dsp' = [d EXCEPT !.pc = "poll"]
                       /\ src' = [src EXCEPT !.force = FALSE]
                       /\ \E e : scr' = [scr EXCEPT !.damaged = FALSE, !.event = e]
  BY Zenon DEF next_update, d, x, y
<1> HIDE DEF d
<1>6. d.pc = "idle" BY <1>0, <1>4, Zenon DEF OwesMore, Alike
<1> QED BY <1>4, <1>5, <1>6, Zenon

LEMMA UpdateStep == IInv /\ next_update => IInv'
<1> SUFFICES ASSUME IInv, next_update PROVE IInv' OBVIOUS
<1>1. HasFields(dsp) /\ HoldOK(dsp) /\ dsp.pc = "idle" BY Zenon DEF IInv, Shapes, next_update
<1>2. PICK d : /\ gfx' = gfx
               /\ \/ dsp' = d /\ scr' = scr /\ src' = src
                  \/ /\ dsp' = [d EXCEPT !.pc = "poll"]
                     /\ src' = [src EXCEPT !.force = FALSE]
                     /\ \E e : scr' = [scr EXCEPT !.damaged = FALSE, !.event = e]
               /\ d.pc = "idle" /\ OwesMore(dsp, d) /\ HoldOK(d)
  BY UpdateDoes, Zenon
<1>3. d.pc = "idle" /\ d.surface = dsp.surface /\ d.lost = dsp.lost /\ d.drawn = dsp.drawn
      /\ HasFields(d) /\ \A r \in Row : Owed(dsp, r) => Owed(d, r)
  BY <1>2, Zenon DEF OwesMore, Alike
<1>4. "idle" # "encode" /\ "poll" # "encode" OBVIOUS
<1>5. CASE dsp' = d /\ scr' = scr /\ src' = src
  <2>1. dsp.pc # "poll" BY <1>1
  <2> QED
    BY <1>1, <1>2, <1>3, <1>4, <1>5, <2>1, IdleStep, Zenon DEF IInv, Shapes, ScreenInv
<1>6. CASE /\ dsp' = [d EXCEPT !.pc = "poll"]
           /\ src' = [src EXCEPT !.force = FALSE]
           /\ \E e : scr' = [scr EXCEPT !.damaged = FALSE, !.event = e]
  <2>1. /\ HasFields(dsp') /\ dsp'.pc = "poll" /\ dsp'.surface = d.surface /\ dsp'.lost = d.lost
        /\ dsp'.drawn = d.drawn /\ dsp'.pending = d.pending /\ dsp'.rect = d.rect
        /\ dsp'.holding = d.holding
    BY <1>3, <1>6 DEF HasFields
  <2>2. SrcFields(src') /\ src'.base = src.base /\ src'.h = src.h
    BY <1>6 DEF IInv, Shapes, SrcFields
  <2>3. ScrFields(scr') /\ scr'.h = scr.h /\ ~scr'.damaged BY <1>6 DEF IInv, Shapes, ScrFields
  <2>4. HoldOK(dsp') BY <1>2, <1>4, <2>1, Zenon DEF HoldOK
  <2>5. \A r \in Row : Owed(dsp, r) => Owed(dsp', r) BY <1>3, <2>1, Zenon DEF Owed
  <2>6. scr'.h \in Row BY <2>3, Zenon DEF IInv, Shapes
  <2>7. dsp'.surface = dsp.surface /\ dsp'.lost = dsp.lost /\ dsp'.drawn = dsp.drawn
    BY <1>3, <2>1, Zenon
  <2> QED BY <1>1, <1>2, <1>4, <2>1, <2>2, <2>3, <2>4, <2>5, <2>6, <2>7, IdleStep, Zenon
<1> QED BY <1>2, <1>5, <1>6, Zenon

LEMMA UpdateKeeps == IInv /\ next_update => dsp'.pc # "encode" /\ dsp'.lost = dsp.lost
<1> SUFFICES ASSUME IInv, next_update PROVE dsp'.pc # "encode" /\ dsp'.lost = dsp.lost OBVIOUS
<1>1. PICK d : /\ dsp' = d \/ dsp' = [d EXCEPT !.pc = "poll"]
               /\ d.pc = "idle" /\ OwesMore(dsp, d)
  BY UpdateDoes, Zenon
<1> QED BY <1>1 DEF OwesMore, Alike, HasFields

\* A grab that does not go to the pipeline.
LEMMA ElsewhereStep ==
    ASSUME IInv, gfx.state # "Ready", gfx' = gfx, scr' = scr,
           SrcFields(src'), src'.force \/ (src'.h = scr.h /\ src'.base = scr.img),
           HasFields(dsp'), HoldOK(dsp'), dsp'.pc # "encode", dsp'.surface \subseteq dsp.surface
    PROVE IInv'
<1>1. Shapes' BY Zenon DEF IInv, Shapes
<1>2. ReadyInv' BY DEF IInv, ReadyInv
<1>3. JobInv' BY Zenon DEF JobInv
<1>4. ImageKept' BY KeptNext, Zenon
<1>5. ScreenInv' BY Zenon DEF IInv, ScreenInv, Unforced
<1> QED BY <1>1, <1>2, <1>3, <1>4, <1>5, Zenon DEF IInv

LEMMA GrabIs ==
    ASSUME IInv
    PROVE /\ TheGrab.h = scr.h /\ TheGrab.h \in Row /\ TheGrab.data = scr.img
          /\ TheGrab.damage \subseteq Row
          /\ \A r \in 1 .. scr.h :
                src.h # scr.h \/ src.base[r] # scr.img[r] => r \in TheGrab.damage
<1> DEFINE changed == {r \in 1 .. scr.h : src.h # scr.h \/ src.base[r] # scr.img[r]}
<1>1. TheGrab.h = scr.h /\ TheGrab.data = scr.img /\ TheGrab.damage = Span(changed) BY DEF TheGrab
<1>2. scr.h \in Row BY Zenon DEF IInv, Shapes
<1>3. \A r \in changed : r \in Span(changed) BY <1>2, RowsAreInts, SpanCovers, Zenon
<1>4. Span(changed) \subseteq Row BY Zenon DEF Span
<1> QED BY <1>1, <1>2, <1>3, <1>4, Zenon

LEMMA ToEgfxOK ==
    ASSUME IInv, dsp.pc = "poll", ToEgfx(TheGrab)
    PROVE gfx.state = "Ready" /\ FrameOK(dsp, gfx, dsp', gfx', TheGrab)
<1> DEFINE grab == TheGrab
           d == [dsp EXCEPT !.pc = "idle", !.latched = TRUE, !.legacy_refresh = {}]
<1>1. /\ grab.h = scr.h /\ grab.h \in Row /\ grab.data = scr.img /\ grab.damage \subseteq Row
      /\ \A r \in 1 .. scr.h :
            src.h # scr.h \/ src.base[r] # scr.img[r] => r \in grab.damage
  BY GrabIs, Zenon
<1>2. PICK o \in egfx_frame(d, gfx, grab) :
        dsp' = o.d /\ (gfx' = o.g \/ update_in_flight_window(plan, o.g))
  BY Zenon DEF ToEgfx
<1>3. gfx.state = "Ready" BY DEF ToEgfx, egfx_decision
<1> HIDE DEF grab
<1>4. /\ HasFields(d) /\ d.pc = "idle" /\ d.surface = dsp.surface /\ d.lost = dsp.lost
      /\ d.drawn = dsp.drawn /\ d.pending = dsp.pending /\ d.rect = dsp.rect
      /\ d.holding = dsp.holding
  BY DEF IInv, Shapes, HasFields
<1>5. d.pc # "encode" BY <1>4
<1> HIDE DEF d
<1>6. HoldOK(d) BY <1>4, <1>5, Zenon DEF IInv, Shapes, HoldOK
<1>7. ASSUME NEW s \in d.surface, s.h = grab.h, \A t \in d.surface : t.id \in gfx.surfaces
      PROVE Covered(d, grab)
  <2> SUFFICES ASSUME NEW r \in 1 .. grab.h, r \notin grab.damage
               PROVE Settled(d, grab.data, r)
    BY Zenon DEF Covered
  <2>1. src.h = grab.h /\ src.base[r] = grab.data[r]
    <3>1. r \in 1 .. scr.h BY <1>1, Zenon
    <3>2. ~(src.h # scr.h \/ src.base[r] # scr.img[r]) BY <1>1, <3>1, Zenon
    <3> QED BY <1>1, <3>2, Zenon
  <2>2. dsp.pc # "encode" OBVIOUS
  <2>3. Good(dsp, src.base, s.h) BY <1>3, <1>4, <1>7, <2>1, <2>2, KeptIs, Zenon DEF IInv
  <2>4. Settled(dsp, src.base, r) BY <1>7, <2>3, Zenon DEF Good
  <2> QED BY <1>4, <2>1, <2>4, Zenon DEF Settled, Owed
<1>8. FrameOK(d, gfx, o.d, o.g, grab)
  BY <1>1, <1>2, <1>4, <1>5, <1>6, <1>7, FrameStep, Zenon DEF IInv, Shapes
<1>9. GfxLike(gfx, gfx')
  <2>1. GfxLike(o.g, gfx') BY <1>2, <1>8, WindowLike, Zenon DEF FrameOK, GfxLike
  <2> QED BY <1>8, <2>1, Zenon DEF FrameOK, GfxLike
<1> QED BY <1>2, <1>3, <1>4, <1>8, <1>9, Zenon DEF FrameOK, grab

LEMMA ToEgfxStep == IInv /\ dsp.pc = "poll" /\ scr' = scr /\ ToEgfx(TheGrab) => IInv'
<1> SUFFICES ASSUME IInv, dsp.pc = "poll", scr' = scr, ToEgfx(TheGrab) PROVE IInv' OBVIOUS
<1> DEFINE grab == TheGrab
<1>1. grab.h = scr.h /\ grab.h \in Row /\ grab.data = scr.img BY GrabIs, Zenon
<1>2. src' = [src EXCEPT !.base = grab.data, !.h = grab.h, !.missed = FALSE] BY Zenon DEF ToEgfx
<1>3. gfx.state = "Ready" /\ FrameOK(dsp, gfx, dsp', gfx', grab) BY ToEgfxOK, Zenon
<1> HIDE DEF grab
<1>4. SrcFields(src') /\ src'.base = grab.data /\ src'.h = grab.h
  BY <1>2 DEF IInv, Shapes, SrcFields
<1>5. (\A s \in dsp'.surface : s.h = grab.h) /\ \A s, t \in dsp'.surface : s = t
  <2>1. CASE dsp'.surface = dsp.surface /\ \E s \in dsp.surface : s.h = grab.h
    BY <2>1, Zenon DEF IInv, Shapes
  <2>2. CASE dsp'.surface = {[id |-> gfx.next_surface, h |-> grab.h]} BY <2>2
  <2> QED BY <1>3, <2>1, <2>2, Zenon DEF FrameOK
<1>6. Shapes' BY <1>1, <1>3, <1>4, <1>5, Zenon DEF IInv, Shapes, FrameOK, GfxLike
<1>7. ReadyInv' BY <1>3 DEF IInv, ReadyInv, FrameOK, GfxLike
<1>8. JobInv' BY <1>1, <1>3, <1>4, Zenon DEF JobInv, FrameOK
<1>9. ImageKept' BY <1>3, <1>4, KeptNext, Zenon DEF FrameOK
<1>10. ScreenInv' BY <1>1, <1>4, <1>5, Zenon DEF IInv, ScreenInv
<1> QED BY <1>6, <1>7, <1>8, <1>9, <1>10, Zenon DEF IInv

LEMMA GrabStep == IInv /\ Grab => IInv'
<1> SUFFICES ASSUME IInv, Grab PROVE IInv' OBVIOUS
<1>1. dsp.pc = "poll" /\ scr' = scr /\ (ToEgfx(TheGrab) \/ ToLegacy(TheGrab) \/ ToNobody(TheGrab))
  BY Zenon DEF Grab
<1> DEFINE grab == TheGrab
           taken == [src EXCEPT !.base = grab.data, !.h = grab.h, !.missed = FALSE]
<1>2. /\ SrcFields(taken) /\ taken.h = grab.h /\ taken.base = grab.data
      /\ SrcFields(NewSrc) /\ NewSrc.force
      /\ grab.h = scr.h /\ grab.data = scr.img
  <2>1. grab.h = scr.h /\ grab.data = scr.img BY GrabIs, Zenon
  <2> HIDE DEF grab
  <2> QED BY <2>1 DEF IInv, Shapes, NewSrc, SrcFields
<1>3. CASE ToEgfx(TheGrab) BY <1>1, <1>3, ToEgfxStep, Zenon
<1>4. CASE ToLegacy(TheGrab)
  <2> HIDE DEF grab
  <2> DEFINE new == [NewDsp(grab.h, dsp.refresh) EXCEPT !.suppressed = dsp.suppressed, !.met = dsp.met]
             kept == [dsp EXCEPT !.pc = "idle", !.legacy_refresh = {}]
  <2>1. gfx' = gfx /\ ((dsp' = new /\ src' = NewSrc) \/ (dsp' = kept /\ src' = taken))
    BY <1>4, Zenon DEF ToLegacy, grab
  <2>2. gfx.state # "Ready" BY <1>4 DEF ToLegacy, egfx_decision, IInv, ReadyInv
  <2>3. HasFields(new) /\ new.pc = "idle" /\ new.surface = {} /\ new.holding = FALSE
    BY DEF NewDsp, HasFields
  <2>4. /\ HasFields(kept) /\ kept.pc = "idle" /\ kept.surface = dsp.surface
        /\ kept.pending = dsp.pending /\ kept.rect = dsp.rect /\ kept.holding = dsp.holding
    BY DEF IInv, Shapes, HasFields
  <2>5. new.pc # "encode" /\ kept.pc # "encode" BY <2>3, <2>4
  <2> HIDE DEF new, kept, taken
  <2>6. HoldOK(new) /\ HoldOK(kept) BY <2>3, <2>4, <2>5, Zenon DEF HoldOK, IInv, Shapes
  <2>7. CASE dsp' = new /\ src' = NewSrc
    BY <1>1, <1>2, <2>1, <2>2, <2>3, <2>5, <2>6, <2>7, ElsewhereStep, Zenon
  <2>8. CASE dsp' = kept /\ src' = taken
    BY <1>1, <1>2, <2>1, <2>2, <2>4, <2>5, <2>6, <2>8, ElsewhereStep, Zenon
  <2> QED BY <2>1, <2>7, <2>8, Zenon
<1>5. CASE ToNobody(TheGrab)
  <2> HIDE DEF grab
  <2> DEFINE kept == [dsp EXCEPT !.pc = "idle"]
  <2>1. gfx' = gfx /\ dsp' = kept /\ src' = taken BY <1>5, Zenon DEF ToNobody, grab
  <2>2. gfx.state # "Ready" BY <1>5 DEF ToNobody, egfx_decision, IInv, ReadyInv
  <2>3. /\ HasFields(kept) /\ kept.pc = "idle" /\ kept.surface = dsp.surface
        /\ kept.pending = dsp.pending /\ kept.rect = dsp.rect /\ kept.holding = dsp.holding
    BY DEF IInv, Shapes, HasFields
  <2>4. kept.pc # "encode" BY <2>3
  <2> HIDE DEF kept, taken
  <2>5. HoldOK(kept) BY <2>3, <2>4, Zenon DEF HoldOK, IInv, Shapes
  <2> QED BY <1>1, <1>2, <2>1, <2>2, <2>3, <2>4, <2>5, ElsewhereStep, Zenon
<1> QED BY <1>1, <1>3, <1>4, <1>5, Zenon

LEMMA GrabFailsStep == IInv /\ (GrabFails \/ GrabLost) => IInv'
<1> SUFFICES ASSUME IInv, GrabFails \/ GrabLost PROVE IInv' OBVIOUS
<1> DEFINE kept == [dsp EXCEPT !.pc = "idle"]
<1>1. dsp' = kept /\ gfx' = gfx /\ scr' = scr /\ dsp.pc = "poll" BY Zenon DEF GrabFails, GrabLost
<1>2. /\ HasFields(kept) /\ kept.pc = "idle" /\ kept.surface = dsp.surface
      /\ kept.pending = dsp.pending /\ kept.rect = dsp.rect /\ kept.holding = dsp.holding
      /\ kept.lost = dsp.lost /\ kept.drawn = dsp.drawn
  BY DEF IInv, Shapes, HasFields
<1>3. kept.pc # "encode" /\ dsp.pc # "encode" BY <1>1, <1>2
<1> HIDE DEF kept
<1>4. HoldOK(kept) BY <1>2, <1>3, Zenon DEF HoldOK, IInv, Shapes
<1>5. \A r \in Row : Owed(dsp, r) => Owed(kept, r) BY <1>2, Zenon DEF Owed
<1>6. CASE GrabFails
  <2>1. src' = [src EXCEPT !.missed = TRUE] BY <1>6, Zenon DEF GrabFails
  <2>2. SrcFields(src') /\ src'.base = src.base /\ src'.h = src.h /\ src'.missed
    BY <2>1 DEF IInv, Shapes, SrcFields
  <2> QED BY <1>1, <1>2, <1>3, <1>4, <1>5, <2>2, IdleStep, Zenon DEF IInv, Shapes, ScreenInv
<1>7. CASE GrabLost
  <2>1. src' = NewSrc BY <1>7, Zenon DEF GrabLost
  <2>2. SrcFields(src') /\ src'.h = 0 /\ src'.force BY <2>1 DEF NewSrc, SrcFields
  <2>3. Shapes' BY <1>1, <1>2, <1>4, <2>2, Zenon DEF IInv, Shapes
  <2>4. ReadyInv' BY <1>1, <1>2, Zenon DEF IInv, ReadyInv
  <2>5. JobInv' BY <1>1, <1>3, Zenon DEF JobInv
  <2>6. \A s \in dsp'.surface : src'.h # s.h
    BY <1>1, <1>2, <2>2, RowsAreInts, Zenon DEF IInv, Shapes
  <2>7. ImageKept' BY <2>6, KeptNext, Zenon
  <2>8. ScreenInv' BY <1>1, <2>2, Zenon DEF IInv, ScreenInv, Unforced
  <2> QED BY <2>3, <2>4, <2>5, <2>7, <2>8, Zenon DEF IInv
<1> QED BY <1>6, <1>7

LEMMA EncodedStep == IInv /\ Encoded => IInv'
<1> SUFFICES ASSUME IInv, Encoded PROVE IInv' OBVIOUS
<1> DEFINE j == dsp.job[1]
           d == [dsp EXCEPT !.pc = "idle", !.job = << >>]
           Ends(id) == IF j.kind = "clear" THEN ClearEncoded(d, j, id) ELSE H264Encoded(d, j, id)
<1>1. PICK s \in dsp.surface : dsp' = Ends(s.id).d /\ update_in_flight_window(plan, Ends(s.id).g)
  BY Zenon DEF Encoded
<1>2. dsp.pc = "encode" /\ scr' = scr /\ src' = src BY Zenon DEF Encoded
<1>3. src.h \in Row /\ JobOK(dsp, j, src.base, src.h) BY <1>2, Zenon DEF IInv, JobInv
<1>4. GfxFields(gfx) /\ ~dsp.holding BY <1>2, Zenon DEF IInv, Shapes, HoldOK
<1>5. /\ HasFields(d) /\ d.pc = "idle" /\ d.surface = dsp.surface /\ d.lost = dsp.lost
      /\ d.drawn = dsp.drawn /\ d.pending = dsp.pending /\ d.rect = dsp.rect
      /\ d.holding = dsp.holding
  BY DEF IInv, Shapes, HasFields
<1>6. d.pc # "encode" BY <1>5
<1> HIDE DEF d, j
<1>7. \A r : Owed(d, r) <=> Owed(dsp, r) BY <1>5, Zenon DEF Owed
<1>8. JobOK(d, j, src.base, src.h) BY <1>3, <1>5, <1>7, Zenon DEF JobOK, Settled
<1>9. EndOK(d, dsp', src.base, src.h) /\ GfxLike(gfx, gfx')
  <2>1. CASE j.kind = "clear"
    <3> DEFINE o == ClearEncoded(d, j, s.id)
    <3>1. dsp' = o.d /\ update_in_flight_window(plan, o.g) BY <1>1, <2>1, Zenon
    <3>2. EndOK(d, o.d, src.base, src.h) /\ GfxLike(gfx, o.g)
      BY <1>3, <1>4, <1>5, <1>8, <2>1, ClearEncodedOK, Zenon
    <3> HIDE DEF o
    <3> QED BY <3>1, <3>2, WindowLike, Zenon DEF GfxLike
  <2>2. CASE j.kind # "clear"
    <3> DEFINE o == H264Encoded(d, j, s.id)
    <3>1. dsp' = o.d /\ update_in_flight_window(plan, o.g) BY <1>1, <2>2, Zenon
    <3>2. EndOK(d, o.d, src.base, src.h) /\ GfxLike(gfx, o.g)
      BY <1>3, <1>4, <1>5, <1>8, <2>2, H264EncodedOK, Zenon
    <3> HIDE DEF o
    <3> QED BY <3>1, <3>2, WindowLike, Zenon DEF GfxLike
  <2> QED BY <2>1, <2>2, Zenon
<1>10. HoldOK(dsp') BY <1>4, <1>5, <1>9, Zenon DEF EndOK, HoldOK
<1>11. dsp.pc # "poll" BY <1>2
<1> QED BY <1>2, <1>5, <1>6, <1>9, <1>10, <1>11, EndStep, Zenon DEF EndOK

\* A frame that is given up, apart from fields nobody here looks at.
LEMMA GivenUp ==
    ASSUME IInv, scr' = scr, src' = src, GfxLike(gfx, gfx'), dsp.pc = "encode",
           NEW c, HasFields(c), c.surface = dsp.surface, c.holding => dsp.holding,
           Good(c, src.base, src.h), HasFields(dsp'), dsp'.pc = "idle",
           dsp'.surface = c.surface, dsp'.lost = c.lost, dsp'.drawn = c.drawn,
           dsp'.pending = c.pending, dsp'.rect = c.rect, dsp'.holding = c.holding
    PROVE IInv'
<1>1. dsp'.pc # "encode" OBVIOUS
<1>2. \A r : Owed(dsp', r) <=> Owed(c, r) BY Zenon DEF Owed
<1>3. Good(dsp', src.base, src.h) BY <1>2, Zenon DEF Good, Settled
<1>4. HoldOK(dsp') BY Zenon DEF IInv, Shapes, HoldOK
<1>5. dsp.pc # "poll" OBVIOUS
<1> QED BY <1>1, <1>3, <1>4, <1>5, EndStep, Zenon

LEMMA FaultStep == IInv /\ (EncodeDies \/ EncodesNothing \/ FrameStalls) => IInv'
<1> SUFFICES ASSUME IInv, EncodeDies \/ EncodesNothing \/ FrameStalls PROVE IInv' OBVIOUS
<1> DEFINE lost == Lose(dsp, dsp.job[1].damage)
           all == owe_everything(dsp)
           dies == [lost EXCEPT !.enc = FALSE]
           none == [lost EXCEPT !.motion = TRUE, !.linger = TRUE]
           stalls == [all EXCEPT !.enc = FALSE, !.motion = FALSE]
<1>1. NoFrame(dies) \/ NoFrame(none) \/ NoFrame(stalls)
  BY Zenon DEF EncodeDies, EncodesNothing, FrameStalls
<1>2. /\ dsp.pc = "encode" /\ scr' = scr /\ src' = src
      /\ update_in_flight_window(Less(plan, "faults"), gfx)
  BY <1>1, Zenon DEF NoFrame
<1>3. GfxLike(gfx, gfx') BY <1>2, WindowLike, Zenon DEF IInv, Shapes
<1>4. src.h \in Row /\ JobOK(dsp, dsp.job[1], src.base, src.h) BY <1>2, Zenon DEF IInv, JobInv
<1>5. HasFields(dsp) BY Zenon DEF IInv, Shapes
<1>6. EndOK(dsp, lost, src.base, src.h) BY <1>4, <1>5, LoseOK, Zenon DEF JobOK
<1>7. Alike(dsp, all) /\ \A r \in Row : Owed(all, r) BY <1>5, OweEverything, Zenon
<1> HIDE DEF lost, all
<1>8. Good(all, src.base, src.h) BY <1>4, <1>7, RowsAreInts, Zenon DEF Good, Settled
<1>9. EndOK(dsp, all, src.base, src.h) BY <1>7, <1>8, Zenon DEF EndOK, Alike
<1>10. \E c : /\ EndOK(dsp, c, src.base, src.h)
              /\ HasFields(dsp') /\ dsp'.pc = "idle" /\ dsp'.surface = c.surface
              /\ dsp'.lost = c.lost /\ dsp'.drawn = c.drawn /\ dsp'.pending = c.pending
              /\ dsp'.rect = c.rect /\ dsp'.holding = c.holding
  <2>1. CASE NoFrame(dies)
    <3>1. dsp' = [dies EXCEPT !.pc = "idle", !.job = << >>] BY <2>1, Zenon DEF NoFrame
    <3> QED BY <1>6, <3>1 DEF EndOK, HasFields
  <2>2. CASE NoFrame(none)
    <3>1. dsp' = [none EXCEPT !.pc = "idle", !.job = << >>] BY <2>2, Zenon DEF NoFrame
    <3> QED BY <1>6, <3>1 DEF EndOK, HasFields
  <2>3. CASE NoFrame(stalls)
    <3>1. dsp' = [stalls EXCEPT !.pc = "idle", !.job = << >>] BY <2>3, Zenon DEF NoFrame
    <3> QED BY <1>9, <3>1 DEF EndOK, HasFields
  <2> QED BY <1>1, <2>1, <2>2, <2>3, Zenon
<1> QED BY <1>2, <1>3, <1>10, GivenUp, Zenon DEF EndOK

LEMMA SameSelf == ASSUME NEW d, HasFields(d) PROVE Same(d, d)
BY Zenon DEF Same, Alike

LEMMA LapseSame ==
    ASSUME IInv, Lapse
    PROVE Same(dsp, dsp') /\ GfxStep(gfx, gfx')
<1>1. HasFields(dsp) /\ GfxFields(gfx) BY Zenon DEF IInv, Shapes
<1>2. \/ gfx' = gfx /\ \/ dsp' = [dsp EXCEPT !["linger"] = FALSE]
                       \/ dsp' = [dsp EXCEPT !["holding"] = FALSE]
                       \/ dsp' = [dsp EXCEPT !["settling"] = FALSE]
                       \/ dsp' = [dsp EXCEPT !.late = TRUE]
      \/ dsp' = dsp /\ gfx' = [gfx EXCEPT !.fresh = FALSE]
  BY Zenon DEF Lapse
<1>3. Same(dsp, dsp')
  <2>1. CASE dsp' = [dsp EXCEPT !["linger"] = FALSE] BY <1>1, <2>1 DEF Same, Alike, HasFields
  <2>2. CASE dsp' = [dsp EXCEPT !["holding"] = FALSE] BY <1>1, <2>2 DEF Same, Alike, HasFields
  <2>3. CASE dsp' = [dsp EXCEPT !["settling"] = FALSE] BY <1>1, <2>3 DEF Same, Alike, HasFields
  <2>4. CASE dsp' = [dsp EXCEPT !.late = TRUE] BY <1>1, <2>4 DEF Same, Alike, HasFields
  <2>5. CASE dsp' = dsp BY <1>1, <2>5, SameSelf, Zenon
  <2> QED BY <1>2, <2>1, <2>2, <2>3, <2>4, <2>5, Zenon
<1>4. GfxStep(gfx, gfx')
  <2>1. CASE gfx' = gfx BY <2>1, GfxStays, Zenon
  <2>2. CASE gfx' = [gfx EXCEPT !.fresh = FALSE]
    BY <1>1, <2>2 DEF GfxStep, GfxFields, IInv, ReadyInv
  <2> QED BY <1>2, <2>1, <2>2, Zenon
<1> QED BY <1>3, <1>4, Zenon

LEMMA LapseStep == IInv /\ Lapse => IInv'
<1> SUFFICES ASSUME IInv, Lapse PROVE IInv' OBVIOUS
<1>1. src' = src /\ ScrStep(scr, scr') BY Zenon DEF Lapse, IInv, Shapes, ScrStep
<1> QED BY <1>1, LapseSame, QuietStep, Zenon

\* What the handlers of the client's messages do to the pipeline.
LEMMA ProcessStep ==
    ASSUME IInv, gfx.state # "Closed", NEW n, NEW depth
    PROVE /\ GfxStep(gfx, handle_capabilities_advertise(gfx))
          /\ GfxStep(gfx, acknowledge(gfx, n, depth))
          /\ GfxStep(gfx, Closed(gfx))
<1>1. GfxFields(gfx) /\ (gfx.state = "Ready" => gfx.ready = TRUE) BY Zenon DEF IInv, Shapes, ReadyInv
<1>2. GfxStep(gfx, Closed(gfx)) BY <1>1 DEF GfxStep, GfxFields, Closed
<1>3. GfxStep(gfx, acknowledge(gfx, n, depth))
  BY <1>1 DEF GfxStep, GfxFields, acknowledge, ClearFrames
<1>4. GfxStep(gfx, handle_capabilities_advertise(gfx))
  <2>1. CASE ~plan.common BY <1>2, <2>1, Zenon DEF handle_capabilities_advertise
  <2>2. CASE plan.common /\ gfx.state = "Ready"
    BY <1>1, <2>2, Zenon DEF GfxStep, GfxFields, handle_capabilities_advertise, Restarted, ClearFrames
  <2>3. CASE plan.common /\ gfx.state # "Ready"
    BY <1>1, <2>3 DEF GfxStep, GfxFields, handle_capabilities_advertise
  <2> QED BY <2>1, <2>2, <2>3, Zenon
<1> QED BY <1>2, <1>3, <1>4, Zenon

LEMMA ReadsSame ==
    ASSUME IInv, ServerReads
    PROVE Same(dsp, dsp') /\ GfxStep(gfx, gfx')
<1> DEFINE m == Head(up)
<1>1. process(m) BY Zenon DEF ServerReads
<1>2. HasFields(dsp) BY Zenon DEF IInv, Shapes
<1> HIDE DEF m
<1>3. \/ gfx' = gfx
      \/ gfx.state # "Closed" /\ \/ gfx' = handle_capabilities_advertise(gfx)
                                 \/ gfx' = acknowledge(gfx, m.n, m.depth)
                                 \/ gfx' = Closed(gfx)
  BY <1>1 DEF process
<1>4. GfxStep(gfx, gfx')
  <2>1. CASE gfx' = gfx BY <2>1, GfxStays, Zenon
  <2>2. CASE gfx.state # "Closed" /\ gfx' # gfx
    <3>1. /\ GfxStep(gfx, handle_capabilities_advertise(gfx))
          /\ GfxStep(gfx, acknowledge(gfx, m.n, m.depth))
          /\ GfxStep(gfx, Closed(gfx))
      BY <2>2, ProcessStep, Zenon
    <3> QED BY <1>3, <2>2, <3>1, Zenon
  <2> QED BY <1>3, <2>1, <2>2, Zenon
<1>5. (\E off, rows : dsp' = [dsp EXCEPT !.suppressed = off, !.refresh = rows]) \/ dsp' = dsp
  BY <1>1, Zenon DEF process, Redrawn
<1>6. Same(dsp, dsp')
  <2>1. CASE \E off, rows : dsp' = [dsp EXCEPT !.suppressed = off, !.refresh = rows]
    BY <1>2, <2>1 DEF Same, Alike, HasFields
  <2>2. CASE dsp' = dsp BY <1>2, <2>2, SameSelf, Zenon
  <2> QED BY <1>5, <2>1, <2>2, Zenon
<1> QED BY <1>4, <1>6, Zenon

LEMMA ReadsStep == IInv /\ ServerReads => IInv'
<1> SUFFICES ASSUME IInv, ServerReads PROVE IInv' OBVIOUS
<1>1. src' = src /\ ScrStep(scr, scr') BY Zenon DEF ServerReads, IInv, Shapes, ScrStep
<1> QED BY <1>1, ReadsSame, QuietStep, Zenon

LEMMA ScreenStep == IInv /\ (Change \/ ScreenResize) => IInv'
<1> SUFFICES ASSUME IInv, Change \/ ScreenResize PROVE IInv' OBVIOUS
<1>1. dsp' = dsp /\ gfx' = gfx /\ src' = src BY Zenon DEF Change, ScreenResize
<1>2. HasFields(dsp) /\ ScrStep(scr, scr) BY Zenon DEF IInv, Shapes, ScrStep
<1>3. Same(dsp, dsp') /\ GfxStep(gfx, gfx') BY <1>1, <1>2, SameSelf, GfxStays, Zenon
<1>4. ScrStep(scr, scr')
  <2>1. \/ \E img : scr' = Drawn([scr EXCEPT !.img = img])
        \/ \E h \in Row : \E img : scr' = Drawn([scr EXCEPT !.h = h, !.img = img])
    BY Zenon DEF Change, ScreenResize
  <2>2. ScrFields(scr) /\ (scr.damaged => scr.event) /\ scr.h \in Row
    BY Zenon DEF IInv, Shapes, ScreenInv
  <2>3. CASE \E img : scr' = Drawn([scr EXCEPT !.img = img])
    BY <2>2, <2>3, Zenon DEF Drawn, ScrFields, ScrStep
  <2>4. CASE \E h \in Row : \E img : scr' = Drawn([scr EXCEPT !.h = h, !.img = img])
    BY <2>2, <2>4, Zenon DEF Drawn, ScrFields, ScrStep
  <2> QED BY <2>1, <2>3, <2>4, Zenon
<1> QED BY <1>1, <1>3, <1>4, QuietStep, Zenon

\* What goes on between the event loop and the client.
LEMMA ClientStep == IInv /\ (dispatch \/ Client \/ ClientReads) => IInv'
<1> SUFFICES ASSUME IInv, dispatch \/ Client \/ ClientReads PROVE IInv' OBVIOUS
<1>1. dsp' = dsp /\ gfx' = gfx /\ src' = src /\ scr' = scr
  BY Zenon DEF dispatch, Client, ClientReads, ClientOpens, ClientRefuses, ClientRestarts,
     ClientCloses, ClientAsks, ClientHides, ClientShows, ClientResumes, Says
<1>2. HasFields(dsp) /\ ScrStep(scr, scr) BY Zenon DEF IInv, Shapes, ScrStep
<1>3. Same(dsp, dsp') /\ GfxStep(gfx, gfx') BY <1>1, <1>2, SameSelf, GfxStays, Zenon
<1> QED BY <1>1, <1>2, <1>3, QuietStep, Zenon

LEMMA StepOK == IInv /\ [Next]_vars => IInv'
<1> SUFFICES ASSUME IInv, [Next]_vars PROVE IInv' OBVIOUS
<1>1. CASE Change \/ ScreenResize BY <1>1, ScreenStep, Zenon
<1>2. CASE Display BY <1>2, UpdateStep, GrabStep, EncodedStep, Zenon DEF Display
<1>3. CASE Faults BY <1>3, GrabFailsStep, FaultStep, Zenon DEF Faults
<1>4. CASE Lapse BY <1>4, LapseStep, Zenon
<1>5. CASE dispatch \/ Client \/ ClientReads BY <1>5, ClientStep, Zenon
<1>6. CASE ServerReads BY <1>6, ReadsStep, Zenon
<1>7. CASE UNCHANGED vars
  <2>1. dsp' = dsp /\ gfx' = gfx /\ src' = src /\ scr' = scr BY <1>7, Zenon DEF vars
  <2>2. HasFields(dsp) /\ ScrStep(scr, scr) BY Zenon DEF IInv, Shapes, ScrStep
  <2>3. Same(dsp, dsp') /\ GfxStep(gfx, gfx') BY <2>1, <2>2, SameSelf, GfxStays, Zenon
  <2> QED BY <2>1, <2>2, <2>3, QuietStep, Zenon
<1> QED BY <1>1, <1>2, <1>3, <1>4, <1>5, <1>6, <1>7, Zenon DEF Next

LEMMA Stale == IInv => NothingStale
<1> SUFFICES ASSUME IInv, Between, ~GrabDue, ~src.missed, NEW s \in dsp.surface
             PROVE s.h = scr.h /\ \A r \in 1 .. s.h : Kept(r) \/ r \in dsp.lost
  BY Zenon DEF NothingStale
<1>1. dsp.pc # "poll" /\ dsp.pc # "encode" BY DEF Between
<1>2. Unforced /\ ~scr.event BY <1>1, Zenon DEF Unforced, GrabDue
<1>3. gfx.state = "Ready" /\ s.id \in gfx.surfaces BY Zenon DEF Between
<1>4. s.h = src.h /\ src.h = scr.h /\ \A r \in 1 .. scr.h : src.base[r] = scr.img[r]
  BY <1>2, <1>3, Zenon DEF IInv, ScreenInv
<1>5. \A r \in 1 .. s.h : Owed(dsp, r) \/ r \in dsp.lost \/ dsp.drawn[r] = src.base[r]
  BY <1>1, <1>3, <1>4, Zenon DEF IInv, ImageKept
<1> QED BY <1>4, <1>5, Zenon DEF Kept

\* Whatever comes between the screen and the pipeline (poll and egfx_frame in
\* gfx_display.rs), every row of the screen is on the surface as it is, owed, or
\* about to be looked at again; after a fault the rows are at least excused by
\* name. What the client makes of the surface is not part of it.
THEOREM RowsAccounted == Spec => []NothingStale
<1>1. Init => IInv BY InitOK
<1>2. IInv /\ [Next]_vars => IInv' BY StepOK
<1>3. IInv => NothingStale BY Stale
<1> QED BY <1>1, <1>2, <1>3, PTL DEF Spec

-----------------------------------------------------------------------------
(* Without faults.                                                         *)

\* No fault is to come, and none has left anything behind. The frame that is
\* being encoded may still be turned down.
Unharmed ==
    /\ {"faults", "x264"} \subseteq DOMAIN plan /\ plan.faults = 0 /\ plan.x264 = TRUE
    /\ dsp.lost = {} /\ src.missed = FALSE
    /\ dsp.pc = "encode" => Safe(dsp, dsp.job[1])

\* Only faults are charged to the faults.
Calm(p, q) == {"faults", "x264"} \subseteq DOMAIN q /\ q.faults = p.faults /\ q.x264 = p.x264

LEMMA LessCalm ==
    ASSUME NEW p, {"faults", "x264"} \subseteq DOMAIN p, NEW b, b \notin {"faults", "x264"}
    PROVE Calm(p, Less(p, b))
BY DEF Calm, Less

LEMMA BudgetCalm ==
    ASSUME Unharmed
    PROVE /\ UNCHANGED plan => Calm(plan, plan')
          /\ \A b \in {"changes", "resizes", "resets", "closes", "suspends", "refreshes", "hides",
                       "lags"} : Budget(b) => Calm(plan, plan')
          /\ \A g : update_in_flight_window(plan, g) => Calm(plan, plan')
<1>1. {"faults", "x264"} \subseteq DOMAIN plan BY Zenon DEF Unharmed
<1>2. \A b \in {"changes", "resizes", "resets", "closes", "suspends", "refreshes", "hides", "lags",
               "windows"} : b \notin {"faults", "x264"}
  OBVIOUS
<1>3. Calm(plan, plan) BY <1>1, Zenon DEF Calm
<1> QED BY <1>1, <1>2, <1>3, LessCalm, Zenon DEF Budget, update_in_flight_window

\* Steps that leave the loop alone.
LEMMA QuietHarms ==
    ASSUME Unharmed, Calm(plan, plan'), Same(dsp, dsp'), src' = src
    PROVE Unharmed'
<1>1. \A r : Owed(dsp', r) <=> Owed(dsp, r) BY Zenon DEF Same, Owed
<1>2. Safe(dsp, dsp.job[1]) => Safe(dsp', dsp'.job[1]) BY <1>1, Zenon DEF Safe, Same
<1> QED BY <1>2, Zenon DEF Unharmed, Calm, Same, Alike

LEMMA ScreenHarms == IInv /\ Unharmed /\ (Change \/ ScreenResize) => Unharmed'
<1> SUFFICES ASSUME IInv, Unharmed, Change \/ ScreenResize PROVE Unharmed' OBVIOUS
<1>1. dsp' = dsp /\ src' = src /\ (Budget("changes") \/ Budget("resizes"))
  BY Zenon DEF Change, ScreenResize
<1>2. Calm(plan, plan') BY <1>1, BudgetCalm, Zenon
<1>3. Same(dsp, dsp') BY <1>1, SameSelf, Zenon DEF IInv, Shapes
<1> QED BY <1>1, <1>2, <1>3, QuietHarms, Zenon

LEMMA ClientHarms == IInv /\ Unharmed /\ (dispatch \/ Client \/ ClientReads) => Unharmed'
<1> SUFFICES ASSUME IInv, Unharmed, dispatch \/ Client \/ ClientReads PROVE Unharmed' OBVIOUS
<1>1. dsp' = dsp /\ src' = src
  BY Zenon DEF dispatch, Client, ClientReads, ClientOpens, ClientRefuses, ClientRestarts,
     ClientCloses, ClientAsks, ClientHides, ClientShows, ClientResumes, Says
<1>2. Calm(plan, plan')
  <2>1. CASE dispatch BY <2>1, BudgetCalm, Zenon DEF dispatch
  <2>2. CASE Client
    BY <2>2, BudgetCalm, Zenon DEF Client, ClientOpens, ClientRefuses, ClientRestarts,
       ClientCloses, ClientAsks, ClientHides, ClientShows, ClientResumes
  <2>3. CASE ClientReads
    <3>1. \/ UNCHANGED plan
          \/ \E c, m : Answers(c, m)
      BY <2>3, Zenon DEF ClientReads
    <3>2. ASSUME NEW c, NEW m, Answers(c, m)
          PROVE UNCHANGED plan \/ Budget("lags") \/ Budget("suspends")
      BY <3>2 DEF Answers
    <3> QED BY <3>1, <3>2, BudgetCalm, Zenon
  <2> QED BY <2>1, <2>2, <2>3, Zenon
<1>3. Same(dsp, dsp') BY <1>1, SameSelf, Zenon DEF IInv, Shapes
<1> QED BY <1>1, <1>2, <1>3, QuietHarms, Zenon

LEMMA GrabHarms == IInv /\ Unharmed /\ Grab => Unharmed'
<1> SUFFICES ASSUME IInv, Unharmed, Grab PROVE Unharmed' OBVIOUS
<1> DEFINE grab == TheGrab
           taken == [src EXCEPT !.base = grab.data, !.h = grab.h, !.missed = FALSE]
<1>1. taken.missed = FALSE /\ NewSrc.missed = FALSE BY DEF IInv, Shapes, SrcFields, NewSrc
<1>2. CASE ToEgfx(TheGrab)
  <2>1. FrameOK(dsp, gfx, dsp', gfx', TheGrab) BY <1>2, ToEgfxOK, Zenon DEF Grab
  <2>2. src' = taken BY <1>2, Zenon DEF ToEgfx
  <2>3. Calm(plan, plan') BY <1>2, BudgetCalm, Zenon DEF ToEgfx
  <2> HIDE DEF taken, grab
  <2> QED BY <1>1, <2>1, <2>2, <2>3, Zenon DEF Unharmed, Calm, FrameOK
<1>3. CASE ToLegacy(TheGrab) \/ ToNobody(TheGrab)
  <2> HIDE DEF grab
  <2> DEFINE new == [NewDsp(grab.h, dsp.refresh) EXCEPT !.suppressed = dsp.suppressed, !.met = dsp.met]
             kept == [dsp EXCEPT !.pc = "idle", !.legacy_refresh = {}]
             held == [dsp EXCEPT !.pc = "idle"]
  <2>1. /\ \/ dsp' = new /\ src' = NewSrc
           \/ dsp' \in {kept, held} /\ src' = taken
        /\ plan' = plan
    BY <1>3, Zenon DEF ToLegacy, ToNobody, grab
  <2>2. /\ new.pc = "idle" /\ new.lost = {}
        /\ kept.pc = "idle" /\ kept.lost = dsp.lost
        /\ held.pc = "idle" /\ held.lost = dsp.lost
    BY DEF NewDsp, IInv, Shapes, HasFields
  <2> HIDE DEF new, kept, held, taken
  <2>3. dsp'.pc = "idle" /\ dsp'.lost = {} /\ src'.missed = FALSE
    BY <1>1, <2>1, <2>2, Zenon DEF Unharmed
  <2>4. dsp'.pc # "encode" BY <2>3
  <2> QED BY <2>1, <2>3, <2>4, Zenon DEF Unharmed
<1> QED BY <1>2, <1>3, Zenon DEF Grab

LEMMA EncodedHarms == IInv /\ Unharmed /\ Encoded => Unharmed'
<1> SUFFICES ASSUME IInv, Unharmed, Encoded PROVE Unharmed' OBVIOUS
<1> DEFINE j == dsp.job[1]
           d == [dsp EXCEPT !.pc = "idle", !.job = << >>]
           Ends(id) == IF j.kind = "clear" THEN ClearEncoded(d, j, id) ELSE H264Encoded(d, j, id)
<1>1. PICK s \in dsp.surface : dsp' = Ends(s.id).d /\ update_in_flight_window(plan, Ends(s.id).g)
  BY Zenon DEF Encoded
<1>2. dsp.pc = "encode" /\ src' = src BY Zenon DEF Encoded
<1>3. Calm(plan, plan') BY <1>1, BudgetCalm, Zenon
<1>4. HasFields(d) /\ d.pc = "idle" /\ d.lost = {} /\ d.pending = dsp.pending /\ d.rect = dsp.rect
  BY DEF IInv, Shapes, HasFields, Unharmed
<1>5. Safe(d, j)
  <2>1. Safe(dsp, j) BY <1>2, Zenon DEF Unharmed
  <2> HIDE DEF d, j
  <2> QED BY <1>4, <2>1, Zenon DEF Safe, Owed
<1> HIDE DEF d, j
<1>6. dsp'.pc = "idle" /\ dsp'.lost = {}
  <2>1. ASSUME NEW c, Alike(d, c)
        PROVE LET e == Delivered(c, j) IN HasFields(e) /\ e.pc = "idle" /\ e.lost = {}
    BY <1>4, <2>1 DEF Delivered, Alike, HasFields
  <2>2. CASE Takes(gfx, s.id) /\ j.kind = "clear"
    <3> DEFINE b == IF j.repay THEN settle_debt(d, j.rest) ELSE d
               c == Delivered(b, j)
    <3>1. Alike(d, b)
      <4>1. CASE j.repay BY <1>4, <4>1, Settle, Zenon
      <4>2. CASE ~j.repay BY <1>4, <4>2, Zenon DEF Alike
      <4> QED BY <4>1, <4>2, Zenon
    <3>2. dsp' = [c EXCEPT !.seq = @ + 1] BY <1>1, <2>2 DEF ClearEncoded, Outcome
    <3> HIDE DEF b
    <3>3. HasFields(c) /\ c.pc = "idle" /\ c.lost = {} BY <2>1, <3>1, Zenon
    <3> HIDE DEF c
    <3> QED BY <3>2, <3>3 DEF HasFields
  <2>3. CASE Takes(gfx, s.id) /\ j.kind # "clear"
    <3> DEFINE b == settle_debt(d, {})
               c == Delivered(b, j)
    <3>1. Alike(d, b) BY <1>4, Settle, Zenon
    <3>2. dsp' = [c EXCEPT !.n = @ + 1, !.intra = FALSE, !.sent_h264 = TRUE,
                           !.motion = TRUE, !.linger = TRUE]
      BY <1>1, <2>3 DEF H264Encoded, Outcome
    <3> HIDE DEF b
    <3>3. HasFields(c) /\ c.pc = "idle" /\ c.lost = {} BY <2>1, <3>1, Zenon
    <3> HIDE DEF c
    <3> QED BY <3>2, <3>3 DEF HasFields
  <2>4. CASE ~Takes(gfx, s.id) /\ j.kind = "clear"
    <3> DEFINE c == owe_region(d, j.rows)
    <3>1. dsp' = Lose(c, j.damage) BY <1>1, <2>4 DEF ClearEncoded, Outcome
    <3>2. OwesMore(d, c) /\ \A r \in Row : r \in j.rows => Owed(c, r) BY <1>4, OweRegion, Zenon
    <3> HIDE DEF c
    <3>3. \A r \in j.damage : Owed(c, r) BY <1>5, <2>4, <3>2, Zenon DEF Safe, OwesMore
    <3>4. {r \in j.damage : ~Owed(c, r)} = {} BY <3>3, Zenon
    <3>5. HasFields(c) /\ c.pc = "idle" /\ c.lost = {} BY <1>4, <3>2, Zenon DEF OwesMore, Alike
    <3>6. dsp' = [c EXCEPT !.lost = @ \cup {}] BY <3>1, <3>4, Zenon DEF Lose
    <3> QED BY <3>5, <3>6 DEF HasFields
  <2>5. CASE ~Takes(gfx, s.id) /\ j.kind # "clear"
    <3> DEFINE c == owe_region(d, j.damage)
    <3>1. dsp' = [c EXCEPT !.n = @ + 1, !.intra = TRUE] BY <1>1, <2>5 DEF H264Encoded, Outcome
    <3>2. OwesMore(d, c) BY <1>4, OweRegion, Zenon
    <3> HIDE DEF c
    <3>3. HasFields(c) /\ c.pc = "idle" /\ c.lost = {} BY <1>4, <3>2, Zenon DEF OwesMore, Alike
    <3> QED BY <3>1, <3>3 DEF HasFields
  <2> QED BY <2>2, <2>3, <2>4, <2>5, Zenon
<1>7. dsp'.pc # "encode" BY <1>6
<1> QED BY <1>2, <1>3, <1>6, <1>7, Zenon DEF Unharmed, Calm

LEMMA HarmStep == IInv /\ Unharmed /\ [Next]_vars => Unharmed'
<1> SUFFICES ASSUME IInv, Unharmed, [Next]_vars PROVE Unharmed' OBVIOUS
<1>1. CASE Change \/ ScreenResize BY <1>1, ScreenHarms, Zenon
<1>2. CASE next_update
  <2>1. dsp'.pc # "encode" /\ dsp'.lost = dsp.lost BY <1>2, UpdateKeeps, Zenon
  <2>2. plan' = plan /\ (src' = src \/ src' = [src EXCEPT !.force = FALSE])
    BY <1>2, Zenon DEF next_update
  <2>3. src'.missed = src.missed BY <2>2 DEF IInv, Shapes, SrcFields
  <2> QED BY <2>1, <2>2, <2>3, Zenon DEF Unharmed
<1>3. CASE Display BY <1>2, <1>3, GrabHarms, EncodedHarms, Zenon DEF Display
<1>4. CASE Faults
  <2>1. plan.faults > 0
    BY <1>4, Zenon DEF Faults, GrabFails, GrabLost, EncodeDies, EncodesNothing, FrameStalls,
       NoFrame, Budget
  <2> QED BY <2>1 DEF Unharmed
<1>5. CASE Lapse \/ ServerReads \/ UNCHANGED vars
  <2>1. plan' = plan /\ src' = src BY <1>5, Zenon DEF Lapse, ServerReads, vars
  <2>2. Same(dsp, dsp') BY <1>5, LapseSame, ReadsSame, SameSelf, Zenon DEF IInv, Shapes, vars
  <2>3. Calm(plan, plan') BY <2>1, BudgetCalm, Zenon
  <2> QED BY <2>1, <2>2, <2>3, QuietHarms, Zenon
<1>6. CASE dispatch \/ Client \/ ClientReads BY <1>6, ClientHarms, Zenon
<1> QED BY <1>1, <1>3, <1>4, <1>5, <1>6, Zenon DEF Next

\* While every grab succeeds and every encoder works, no change of the screen is
\* forgotten: whenever the loop is between two frames and no grab is due, the
\* surface has the size of the screen and each of its rows is as on the screen,
\* or owed (owe_region, settle_debt in gfx_display.rs).
THEOREM NoRowForgotten == Spec /\ plan.faults = 0 /\ plan.x264 => []Unforgotten
<1>1. Init => IInv BY InitOK
<1>2. IInv /\ [Next]_vars => IInv' BY StepOK
<1>3. Init /\ plan.faults = 0 /\ plan.x264 => Unharmed
  <2> SUFFICES ASSUME Init, plan.faults = 0, plan.x264 PROVE Unharmed OBVIOUS
  <2>1. plan \in Scenario BY GraphicsAssumption, Zenon DEF Init
  <2>2. {"faults", "x264"} \subseteq DOMAIN plan /\ plan.x264 = TRUE BY <2>1 DEF Scenario
  <2>3. dsp.pc # "encode" /\ dsp.lost = {} /\ src.missed = FALSE BY DEF Init, NewDsp, NewSrc
  <2> QED BY <2>2, <2>3, Zenon DEF Unharmed
<1>4. IInv /\ Unharmed /\ [Next]_vars => Unharmed' BY HarmStep
<1>5. IInv /\ Unharmed => Unforgotten BY Stale, Zenon DEF Unharmed, NothingStale, Unforgotten
<1> QED BY <1>1, <1>2, <1>3, <1>4, <1>5, PTL DEF Spec
=============================================================================
