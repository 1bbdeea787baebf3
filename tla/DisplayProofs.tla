--------------------------- MODULE DisplayProofs ---------------------------
(***************************************************************************)
(* Proofs about the buffers of the rescue GUI.  The inductive invariant    *)
(* says that the fields of drm name exactly the objects the process has,   *)
(* that the buffers the loop may choose are mapped, and that the front     *)
(* buffer is the one on its way to the screen.                             *)
(***************************************************************************)
EXTENDS Display, TLAPS

Building == {"create", "addfb", "map", "mmap"}
Looping  == {"frame", "draw", "present"}

\* The fields and the kernel agree on what exists.
FieldsInv ==
    /\ dumbs = handle
    /\ fbs = fb_id
    /\ maps = {b \in Bufs : buffer[b] = "mapped"}
    /\ pc \in Building => i \notin maps /\ 1 \notin maps
    /\ pc = "closed" => dumbs = {} /\ fbs = {} /\ maps = {}

\* The first buffer is mapped before the second is tried, and both are when
\* the loop uses both.
MappedInv ==
    /\ pc \in Building /\ i = 1 => 0 \in maps
    /\ pc \in {"save", "setcrtc"} \cup Looping =>
           0 \in maps /\ (double_buffered = 1 => 1 \in maps)
    /\ pc \in {"draw", "present"} => back_buf \in maps

\* The front buffer is the one on the screen or on its way there.
FrontInv ==
    /\ pc \in Building \cup {"save", "setcrtc"} => front_buf = 0
    /\ pc \in Looping /\ double_buffered = 1 /\ missed = 0 => Shown = front_buf
    /\ pc \in {"draw", "present"} /\ double_buffered = 1 => back_buf = 1 - front_buf

Inv == TypeOK /\ FieldsInv /\ MappedInv /\ FrontInv

\* The state init_drm starts its buffers in satisfies the invariant.
LEMMA InitInv == Init => Inv
<1> SUFFICES ASSUME Init PROVE Inv
  OBVIOUS
<1>1. TypeOK
  BY DEF Init, TypeOK, Bufs, Desktop, Off, NoFlip, Steps
<1>2. FieldsInv
  <2>1. \A b \in Bufs : buffer[b] # "mapped"
    BY DEF Init
  <2> QED BY <2>1 DEF Init, FieldsInv
<1>3. MappedInv
  BY DEF Init, MappedInv, Building, Looping
<1>4. FrontInv
  BY DEF Init, FrontInv, Building, Looping
<1> QED BY <1>1, <1>2, <1>3, <1>4 DEF Inv

\* What the proofs use of the indices of the buffers and the other CRTC states.
LEMMA BufFacts ==
    /\ 0 \in Bufs /\ 1 \in Bufs /\ 1 # 0
    /\ \A b \in Bufs : b = 0 \/ b = 1
    /\ \A b \in Bufs : 1 - b \in Bufs /\ 1 - b # b
    /\ Desktop \notin Bufs /\ Off \notin Bufs /\ NoFlip \notin Bufs
  BY DEF Bufs, Desktop, Off, NoFlip

\* Every step of init_drm, of the loop, of cleanup_drm and of the kernel keeps
\* the types.
LEMMA TypeStep == TypeOK /\ [Next]_vars => TypeOK'
<1> SUFFICES ASSUME TypeOK, [Next]_vars PROVE TypeOK'
  OBVIOUS
<1> USE DEF TypeOK, Goto, drmVars, frameVars, objVars
<1>0. Shown \in Bufs \cup {Desktop, Off}
  BY BufFacts DEF Shown
<1>1. CASE init_drm
  <2>1. CASE CreateDumb BY <2>1 DEF CreateDumb, FailedBuffer, Steps
  <2>2. CASE AddFb BY <2>2 DEF AddFb, FailedBuffer, DropSecond, Keep, Steps
  <2>3. CASE MapDumb BY <2>3 DEF MapDumb, FailedBuffer, DropSecond, Keep, Steps
  <2>4. CASE Mmap BY <2>4, BufFacts DEF Mmap, FailedBuffer, DropSecond, Keep, Steps
  <2>5. CASE SaveCrtc BY <2>5 DEF SaveCrtc, Steps
  <2>6. CASE SetCrtc BY <2>6, BufFacts DEF SetCrtc, SETCRTC, Steps
  <2> QED BY <1>1, <2>1, <2>2, <2>3, <2>4, <2>5, <2>6 DEF init_drm
<1>2. CASE BeginFrame BY <1>2, BufFacts DEF BeginFrame, Steps
<1>3. CASE Draw BY <1>3 DEF Draw, Steps
<1>4. CASE Leave BY <1>4 DEF Leave
<1>5. CASE execute_sleep BY <1>5 DEF execute_sleep, SETCRTC
<1>6. CASE Present
  <2>1. CASE PresentFirst BY <2>1 DEF PresentFirst, EndFrame, SETCRTC, Steps
  <2>2. CASE PageFlip BY <2>2 DEF PageFlip, EndFrame, Steps
  <2>3. CASE PageFlipFails
    BY <2>3, BufFacts DEF PageFlipFails, EndFrame, SETCRTC, Steps
  <2>4. CASE PresentSingle BY <2>4 DEF PresentSingle, EndFrame, Steps
  <2> QED BY <1>6, <2>1, <2>2, <2>3, <2>4 DEF Present
<1>7. CASE cleanup_drm
  <2>1. CASE RestoreCrtc BY <2>1 DEF RestoreCrtc, SETCRTC, Steps
  <2>2. CASE ReleaseBuffers BY <1>0, <2>2 DEF ReleaseBuffers, SETCRTC, Steps
  <2> QED BY <1>7, <2>1, <2>2 DEF cleanup_drm
<1>8. CASE VBlank BY <1>8 DEF VBlank, SETCRTC
<1>9. CASE Done \/ UNCHANGED vars BY <1>9 DEF Done, vars
<1> QED BY <1>1, <1>2, <1>3, <1>4, <1>5, <1>6, <1>7, <1>8, <1>9 DEF Next

\* The same steps keep the agreement of the fields with the kernel.
LEMMA FieldsStep == TypeOK /\ FieldsInv /\ [Next]_vars => FieldsInv'
<1> SUFFICES ASSUME TypeOK, FieldsInv, [Next]_vars PROVE FieldsInv'
  OBVIOUS
<1> USE DEF TypeOK, FieldsInv, Bufs, Building, Goto, drmVars, objVars
<1>1. CASE init_drm
  <2>1. CASE CreateDumb BY <2>1 DEF CreateDumb, FailedBuffer
  <2>2. CASE AddFb BY <2>2 DEF AddFb, FailedBuffer, DropSecond, Keep
  <2>3. CASE MapDumb BY <2>3 DEF MapDumb, FailedBuffer, DropSecond, Keep
  <2>4. CASE Mmap
    <3>1. pc = "mmap"
      BY <2>4 DEF Mmap, FailedBuffer
    <3>0. i \notin maps /\ 1 \notin maps
      BY <3>1
    <3>2. CASE buffer' = [buffer EXCEPT ![i] = "mapped"] /\ maps' = maps \cup {i}
               /\ i' = 1 /\ pc' = (IF i = 0 THEN "create" ELSE "save") /\ Keep
      <4>1. maps' = {b \in Bufs : buffer'[b] = "mapped"}
        BY <3>2
      <4>2. pc' \in Building => i' \notin maps' /\ 1 \notin maps'
        <5>1. CASE i = 0
          <6>1. maps' = maps \cup {0} /\ i' = 1
            BY <3>2, <5>1
          <6>2. 1 \notin maps'
            BY <3>0, <6>1, BufFacts, Zenon
          <6> QED BY <6>1, <6>2, Zenon
        <5>2. CASE i = 1
          <6>1. pc' = "save"
            BY <3>2, <5>2, BufFacts, Zenon
          <6>2. pc' \notin Building
            BY <6>1
          <6> QED BY <6>2, Zenon
        <5> QED BY <5>1, <5>2
      <4> QED BY <3>2, <4>1, <4>2 DEF Keep
    <3>3. CASE buffer' = [buffer EXCEPT ![i] = "MAP_FAILED"] /\ FailedBuffer("mmap")
               /\ (IF i = 1 THEN DropSecond ELSE Keep) /\ UNCHANGED <<i, maps>>
      <4>1. maps' = {b \in Bufs : buffer'[b] = "mapped"}
        BY <3>3, <3>0
      <4> QED BY <3>3, <3>0, <4>1 DEF FailedBuffer, DropSecond, Keep
    <3> QED BY <2>4, <3>2, <3>3 DEF Mmap
  <2>5. CASE SaveCrtc BY <2>5 DEF SaveCrtc
  <2>6. CASE SetCrtc BY <2>6 DEF SetCrtc
  <2> QED BY <1>1, <2>1, <2>2, <2>3, <2>4, <2>5, <2>6 DEF init_drm
<1>2. CASE BeginFrame BY <1>2 DEF BeginFrame
<1>3. CASE Draw BY <1>3 DEF Draw
<1>4. CASE Leave BY <1>4 DEF Leave
<1>5. CASE execute_sleep BY <1>5 DEF execute_sleep
<1>6. CASE Present
  BY <1>6 DEF Present, PresentFirst, PageFlip, PageFlipFails, PresentSingle, EndFrame
<1>7. CASE cleanup_drm
  <2>1. CASE RestoreCrtc BY <2>1 DEF RestoreCrtc
  <2>2. CASE ReleaseBuffers BY <2>2 DEF ReleaseBuffers
  <2> QED BY <1>7, <2>1, <2>2 DEF cleanup_drm
<1>8. CASE VBlank BY <1>8 DEF VBlank
<1>9. CASE Done \/ UNCHANGED vars BY <1>9 DEF Done, vars
<1> QED BY <1>1, <1>2, <1>3, <1>4, <1>5, <1>6, <1>7, <1>8, <1>9 DEF Next

\* They keep the buffers the loop may choose mapped.
LEMMA MappedStep == TypeOK /\ MappedInv /\ [Next]_vars => MappedInv'
<1> SUFFICES ASSUME TypeOK, MappedInv, [Next]_vars PROVE MappedInv'
  OBVIOUS
<1> USE BufFacts DEF TypeOK, MappedInv, Building, Looping, Goto, drmVars, frameVars, objVars
<1>1. CASE init_drm
  <2>1. CASE CreateDumb BY <2>1 DEF CreateDumb, FailedBuffer
  <2>2. CASE AddFb BY <2>2 DEF AddFb, FailedBuffer, DropSecond, Keep
  <2>3. CASE MapDumb BY <2>3 DEF MapDumb, FailedBuffer, DropSecond, Keep
  <2>4. CASE Mmap BY <2>4 DEF Mmap, FailedBuffer, DropSecond, Keep
  <2>5. CASE SaveCrtc BY <2>5 DEF SaveCrtc
  <2>6. CASE SetCrtc BY <2>6 DEF SetCrtc
  <2> QED BY <1>1, <2>1, <2>2, <2>3, <2>4, <2>5, <2>6 DEF init_drm
<1>2. CASE BeginFrame BY <1>2 DEF BeginFrame
<1>3. CASE Draw BY <1>3 DEF Draw
<1>4. CASE Leave BY <1>4 DEF Leave
<1>5. CASE execute_sleep BY <1>5 DEF execute_sleep
<1>6. CASE Present
  BY <1>6 DEF Present, PresentFirst, PageFlip, PageFlipFails, PresentSingle, EndFrame
<1>7. CASE cleanup_drm BY <1>7 DEF cleanup_drm, RestoreCrtc, ReleaseBuffers
<1>8. CASE VBlank BY <1>8 DEF VBlank
<1>9. CASE Done \/ UNCHANGED vars BY <1>9 DEF Done, vars
<1> QED BY <1>1, <1>2, <1>3, <1>4, <1>5, <1>6, <1>7, <1>8, <1>9 DEF Next

\* They keep the front buffer the one on its way to the screen.
LEMMA FrontStep == TypeOK /\ FrontInv /\ [Next]_vars => FrontInv'
<1> SUFFICES ASSUME TypeOK, FrontInv, [Next]_vars PROVE FrontInv'
  OBVIOUS
<1> USE BufFacts DEF TypeOK, FrontInv, Building, Looping, Goto, SETCRTC, Shown, drmVars,
                     frameVars
<1>1. CASE init_drm
  <2>1. CASE CreateDumb BY <2>1 DEF CreateDumb, FailedBuffer
  <2>2. CASE AddFb BY <2>2 DEF AddFb, FailedBuffer, DropSecond, Keep
  <2>3. CASE MapDumb BY <2>3 DEF MapDumb, FailedBuffer, DropSecond, Keep
  <2>4. CASE Mmap BY <2>4 DEF Mmap, FailedBuffer, DropSecond, Keep
  <2>5. CASE SaveCrtc BY <2>5 DEF SaveCrtc
  <2>6. CASE SetCrtc BY <2>6 DEF SetCrtc
  <2> QED BY <1>1, <2>1, <2>2, <2>3, <2>4, <2>5, <2>6 DEF init_drm
<1>2. CASE BeginFrame BY <1>2 DEF BeginFrame
<1>3. CASE Draw BY <1>3 DEF Draw
<1>4. CASE Leave BY <1>4 DEF Leave
<1>5. CASE execute_sleep BY <1>5 DEF execute_sleep
<1>6. CASE Present
  <2>1. CASE PresentFirst
    <3>1. missed' = 0 => crtc' = front_buf' /\ pending' = NoFlip
      BY <2>1 DEF PresentFirst, EndFrame
    <3>2. pc' \in {"frame", "restore"}
      BY <2>1 DEF PresentFirst, EndFrame
    <3> QED BY <3>1, <3>2
  <2>2. CASE PageFlip BY <2>2 DEF PageFlip, EndFrame
  <2>3. CASE PageFlipFails BY <2>3 DEF PageFlipFails, EndFrame
  <2>4. CASE PresentSingle BY <2>4 DEF PresentSingle, EndFrame
  <2> QED BY <1>6, <2>1, <2>2, <2>3, <2>4 DEF Present
<1>7. CASE cleanup_drm BY <1>7 DEF cleanup_drm, RestoreCrtc, ReleaseBuffers
<1>8. CASE VBlank BY <1>8 DEF VBlank
<1>9. CASE Done \/ UNCHANGED vars BY <1>9 DEF Done, vars
<1> QED BY <1>1, <1>2, <1>3, <1>4, <1>5, <1>6, <1>7, <1>8, <1>9 DEF Next

\* The invariant holds in every state of every behaviour.
LEMMA Invariance == Spec => []Inv
<1>1. Inv /\ [Next]_vars => Inv'
  BY TypeStep, FieldsStep, MappedStep, FrontStep DEF Inv
<1> QED BY InitInv, <1>1, PTL DEF Spec

\* init_drm, the render loop and cleanup_drm keep every variable in its type.
THEOREM TypeCorrect == Spec => []TypeOK
<1>1. Inv => TypeOK BY DEF Inv
<1> QED BY Invariance, <1>1, PTL

\* No frame is drawn through a pointer that is not a mapping, whatever ioctl or
\* mmap of init_drm failed and whenever the loop fell back to one buffer.
THEOREM NeverDrawsUnmapped == Spec => []DrawsMapped
<1>1. Inv => DrawsMapped BY DEF Inv, MappedInv, DrawsMapped
<1> QED BY Invariance, <1>1, PTL

\* cleanup_drm leaves no dumb buffer, framebuffer or mapping behind, whichever
\* step of init_drm led to it.
THEOREM NothingLeaks == Spec => []AllReleased
<1>1. Inv => AllReleased BY DEF Inv, FieldsInv, AllReleased
<1> QED BY Invariance, <1>1, PTL

\* With two buffers, and no failed SETCRTC, the frame is drawn into the buffer
\* that is not on its way to the screen, also right after execute_sleep.
THEOREM DrawsOffScreen == Spec => []OffScreenDrawing
<1>1. Inv => OffScreenDrawing
  BY BufFacts DEF Inv, TypeOK, FrontInv, OffScreenDrawing, Looping
<1> QED BY Invariance, <1>1, PTL
=============================================================================
