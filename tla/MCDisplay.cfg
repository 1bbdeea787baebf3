SPECIFICATION Spec
INVARIANT DrawsMapped
INVARIANT AllReleased
INVARIANT OffScreenDrawing
