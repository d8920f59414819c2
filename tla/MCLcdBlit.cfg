SPECIFICATION Spec
CONSTANT MaxFrames = 3
INVARIANTS TypeOK TearFree WholeFrames NoStrandedFrame
PROPERTIES FrameShown GuardsOpen HandoffSpec
