------------------------ MODULE ReassemblyMap_proofs ------------------------
(***************************************************************************)
(* Reassembly is exact, proved for every set of streams, messages and      *)
(* frames, every width of the offsets and any number of RESETs.  The facts *)
(* about a single partial are those of Fragments_proofs.                   *)
(***************************************************************************)
EXTENDS ReassemblyMap, Fragments_proofs

MapInv == TypeOK /\ CoverageExact /\ EmittedWhole /\ NothingCompleteHeld

-----------------------------------------------------------------------------
LEMMA InitMapInv == Init => MapInv
<1> SUFFICES ASSUME Init PROVE MapInv
  OBVIOUS
<1>1. DOMAIN partials = {} /\ out = NoMessage
  BY DEF Init
<1>2. resets \in [Streams -> 0 .. MaxResets]
  BY FragmentsAssumption DEF Init
<1> QED
  BY <1>1, <1>2
  DEF MapInv, TypeOK, CoverageExact, EmittedWhole, NothingCompleteHeld

(* The partial a frame works on is exact, before and after.                *)
LEMMA UpdatedExact ==
  ASSUME MapInv, NEW f \in Frames
  PROVE  /\ FrameKey(f) \in Keys
         /\ f.stream_id \in Streams /\ f.msg_id \in Msgs
         /\ resets[f.stream_id] \in 0 .. MaxResets
         /\ Updated(f) \in PartialMessage
         /\ Updated(f).stream_id = f.stream_id
         /\ Updated(f).msg_id = f.msg_id
         /\ HoldsWhatItClaims(Updated(f), resets[f.stream_id])
<1> DEFINE key == FrameKey(f)
           e   == resets[f.stream_id]
           p   == IF key \in DOMAIN partials THEN partials[key] ELSE Fresh(key)
<1>1. f.stream_id \in Streams /\ f.msg_id \in Msgs
  BY Landing DEF DataFrame
<1>2. e \in 0 .. MaxResets
  BY <1>1 DEF MapInv, TypeOK
<1>3. key = << f.stream_id, f.msg_id >> /\ key \in Keys
      /\ key[1] = f.stream_id /\ key[2] = f.msg_id
  BY <1>1 DEF FrameKey, Keys
<1>4. /\ p \in PartialMessage
      /\ p.stream_id = f.stream_id /\ p.msg_id = f.msg_id
      /\ HoldsWhatItClaims(p, e)
  <2>1. CASE key \in DOMAIN partials
    BY <2>1, <1>3 DEF MapInv, TypeOK, CoverageExact
  <2>2. CASE key \notin DOMAIN partials
    <3>1. p = Fresh(<< f.stream_id, f.msg_id >>)
      BY <2>2, <1>3
    <3> QED
      BY <3>1, <1>1, <1>2, FreshExact
  <2> QED
    BY <2>1, <2>2
<1>5. Updated(f) = WithFragment(p, f, e)
  BY DEF Updated
<1> HIDE DEF p, e, key
<1>6. /\ WithFragment(p, f, e) \in PartialMessage
      /\ WithFragment(p, f, e).stream_id = f.stream_id
      /\ WithFragment(p, f, e).msg_id = f.msg_id
      /\ HoldsWhatItClaims(WithFragment(p, f, e), e)
  BY <1>2, <1>4, FragmentExact
<1> QED
  BY <1>1, <1>2, <1>3, <1>5, <1>6 DEF e, key

(* What a frame adds to the partial it works on, p.                        *)
Extends(f, p, q) ==
  /\ p \in PartialMessage /\ q \in PartialMessage
  /\ FrameKey(f) \in DOMAIN partials => p = partials[FrameKey(f)]
  /\ FrameKey(f) \notin DOMAIN partials =>
       p.ranges = {} /\ p.high_water = 0 /\ p.total_len = 0 /\ ~p.have_fin
  /\ q.ranges = p.ranges \cup (Begin(f) .. (End(f) - 1))
  /\ q.high_water = Bigger(p.high_water, End(f))
  /\ q.total_len = IF f.fin THEN q.high_water ELSE p.total_len
  /\ q.have_fin <=> p.have_fin \/ f.fin

LEMMA UpdatedExtends ==
  ASSUME MapInv, NEW f \in Frames
  PROVE  \E p : Extends(f, p, Updated(f))
<1>1. PICK key, e, p :
         /\ key = FrameKey(f) /\ e = resets[f.stream_id]
         /\ p = IF key \in DOMAIN partials THEN partials[key] ELSE Fresh(key)
  BY Zenon
<1>2. /\ f.stream_id \in Streams /\ f.msg_id \in Msgs /\ e \in 0 .. MaxResets
  BY <1>1, UpdatedExact
<1>3. /\ key \notin DOMAIN partials =>
           /\ p \in PartialMessage /\ Len(p.buffer) \in Offsets
           /\ p.ranges = {} /\ p.high_water = 0 /\ p.total_len = 0 /\ ~p.have_fin
  <2> SUFFICES ASSUME key \notin DOMAIN partials
               PROVE  /\ p \in PartialMessage /\ Len(p.buffer) \in Offsets
                      /\ p.ranges = {} /\ p.high_water = 0 /\ p.total_len = 0 /\ ~p.have_fin
    OBVIOUS
  <2>1. p = Fresh(<< f.stream_id, f.msg_id >>)
    BY <1>1 DEF FrameKey
  <2>2. p \in PartialMessage
    BY <1>2, <2>1, FreshExact
  <2>a. p = [stream_id |-> f.stream_id, msg_id |-> f.msg_id, buffer |-> << >>,
             ranges |-> {}, high_water |-> 0, total_len |-> 0,
             have_fin |-> FALSE, compressed |-> FALSE]
    BY <2>1 DEF Fresh
  <2>b. p.ranges = {} /\ p.high_water = 0 /\ p.total_len = 0 /\ p.buffer = << >>
    BY <2>a
  <2>3. /\ p.ranges = {} /\ p.high_water = 0 /\ p.total_len = 0 /\ p.have_fin = FALSE
        /\ p.buffer = << >>
    BY <2>a, <2>b, Zenon
  <2>4. Len(<< >>) \in Offsets
    BY CoverageAssumption DEF Offsets
  <2> QED
    BY <2>2, <2>3, <2>4, Zenon
<1>4. key \in DOMAIN partials =>
        p = partials[key] /\ p \in PartialMessage /\ Len(p.buffer) \in Offsets
  BY <1>1 DEF MapInv, TypeOK, CoverageExact, HoldsWhatItClaims, PartialMessage
<1>5. Updated(f) = WithFragment(p, f, e)
  BY <1>1, Zenon DEF Updated
<1>6. p \in PartialMessage /\ Len(p.buffer) \in Offsets
  BY <1>3, <1>4
<1>7. PICK q : q = WithFragment(p, f, e)
  OBVIOUS
<1>8. /\ q \in PartialMessage
      /\ q.ranges = add_range(p.ranges, Begin(f), End(f))
      /\ q.high_water = Bigger(p.high_water, End(f))
      /\ q.total_len = IF f.fin THEN q.high_water ELSE p.total_len
      /\ q.have_fin <=> p.have_fin \/ f.fin
  BY <1>2, <1>6, <1>7, WithFragmentFields
<1>9. Extends(f, p, q)
  BY <1>1, <1>3, <1>4, <1>6, <1>8 DEF Extends, add_range
<1> QED
  BY <1>5, <1>7, <1>9

LEMMA FillMapInv ==
  ASSUME MapInv, NEW f \in Frames, Fill(f)
  PROVE  MapInv'
<1> DEFINE key == FrameKey(f)
<1>1. key[1] = f.stream_id /\ key[2] = f.msg_id
  BY DEF FrameKey
<1>2. /\ DOMAIN partials' = DOMAIN partials \cup {key}
      /\ \A k \in DOMAIN partials' :
           partials'[k] = IF k = key THEN Updated(f) ELSE partials[k]
      /\ ~is_complete(Updated(f))
      /\ out' = NoMessage /\ resets' = resets
  BY DEF Fill
<1> HIDE DEF key
<1>3. TypeOK'
  BY <1>1, <1>2, UpdatedExact DEF MapInv, TypeOK, key
<1>4. CoverageExact'
  BY <1>1, <1>2, UpdatedExact DEF MapInv, CoverageExact
<1>5. EmittedWhole'
  BY <1>2 DEF EmittedWhole
<1>6. NothingCompleteHeld'
  BY <1>2 DEF MapInv, NothingCompleteHeld
<1> QED
  BY <1>3, <1>4, <1>5, <1>6 DEF MapInv

LEMMA EmitMapInv ==
  ASSUME MapInv, NEW f \in Frames, Emit(f)
  PROVE  MapInv'
<1>1. /\ DOMAIN partials' \subseteq DOMAIN partials
      /\ \A k \in DOMAIN partials' : partials'[k] = partials[k]
      /\ is_complete(Updated(f))
      /\ out' = Emitted(Updated(f), f) /\ resets' = resets
  BY DEF Emit
<1>2. /\ out' \in Message
      /\ out'.stream_id = f.stream_id
      /\ \A j \in 0 .. (Len(out'.data) - 1) :
           out'.data[j + 1] = << out'.stream_id, out'.msg_id, resets[f.stream_id], j >>
  BY <1>1, UpdatedExact, EmittedExact
<1>3. TypeOK'
  BY <1>1, <1>2 DEF MapInv, TypeOK
<1>4. CoverageExact'
  BY <1>1 DEF MapInv, CoverageExact
<1>5. EmittedWhole'
  BY <1>1, <1>2 DEF EmittedWhole
<1>6. NothingCompleteHeld'
  BY <1>1 DEF MapInv, NothingCompleteHeld
<1> QED
  BY <1>3, <1>4, <1>5, <1>6 DEF MapInv

LEMMA ResetMapInv ==
  ASSUME MapInv, NEW s \in Streams, Reset(s)
  PROVE  MapInv'
<1>1. /\ DOMAIN partials' \subseteq DOMAIN partials
      /\ \A k \in DOMAIN partials' : partials'[k] = partials[k] /\ k[1] # s
      /\ out' = NoMessage
      /\ resets' = [resets EXCEPT ![s] = @ + 1] /\ resets[s] < MaxResets
  BY DEF Reset
<1>2. resets' \in [Streams -> 0 .. MaxResets]
  BY <1>1, FragmentsAssumption DEF MapInv, TypeOK
<1>3. TypeOK'
  BY <1>1, <1>2 DEF MapInv, TypeOK
<1>4. CoverageExact'
  <2> SUFFICES ASSUME NEW k \in DOMAIN partials'
               PROVE  HoldsWhatItClaims(partials'[k], resets'[k[1]])
    BY DEF CoverageExact
  <2>1. k \in Keys /\ k[1] \in Streams /\ k[1] # s
    BY <1>1 DEF MapInv, TypeOK, Keys
  <2>2. resets'[k[1]] = resets[k[1]]
    BY <1>1, <2>1 DEF MapInv, TypeOK
  <2> QED
    BY <1>1, <2>2 DEF MapInv, CoverageExact
<1>5. EmittedWhole'
  BY <1>1 DEF EmittedWhole
<1>6. NothingCompleteHeld'
  BY <1>1 DEF MapInv, NothingCompleteHeld
<1> QED
  BY <1>3, <1>4, <1>5, <1>6 DEF MapInv

LEMMA StepMapInv == MapInv /\ [Next]_vars => MapInv'
<1> SUFFICES ASSUME MapInv, [Next]_vars PROVE MapInv'
  OBVIOUS
<1>1. CASE Next
  BY <1>1, FillMapInv, EmitMapInv, ResetMapInv DEF Next
<1>2. CASE UNCHANGED vars
  BY <1>2
  DEF vars, MapInv, TypeOK, CoverageExact, EmittedWhole, NothingCompleteHeld
<1> QED
  BY <1>1, <1>2

LEMMA MapInvariant == Spec => []MapInv
  BY InitMapInv, StepMapInv, PTL DEF Spec

-----------------------------------------------------------------------------
(* The reassembler's state is well formed: in particular no offset, length *)
(* or buffer exceeds the u32 range (accept_data clamps every end).         *)
THEOREM MapTypeCorrect == Spec => []TypeOK
<1>1. MapInv => TypeOK
  BY DEF MapInv
<1> QED
  BY <1>1, MapInvariant, PTL

(* Every partial holds exactly the bytes its ranges claim, whatever the    *)
(* order, overlap or repetition of the fragments (accept_data).            *)
THEOREM CoverageExactAlways == Spec => []CoverageExact
<1>1. MapInv => CoverageExact
  BY DEF MapInv
<1> QED
  BY <1>1, MapInvariant, PTL

(* Every emitted message is made of its own bytes, each at its offset,     *)
(* and of none that arrived before the stream's last RESET.                *)
THEOREM EmittedWholeAlways == Spec => []EmittedWhole
<1>1. MapInv => EmittedWhole
  BY DEF MapInv
<1> QED
  BY <1>1, MapInvariant, PTL

(* accept_data never leaves a complete message in flight.                  *)
THEOREM NothingCompleteHeldAlways == Spec => []NothingCompleteHeld
<1>1. MapInv => NothingCompleteHeld
  BY DEF MapInv
<1> QED
  BY <1>1, MapInvariant, PTL
=============================================================================
