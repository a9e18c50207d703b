\* The multi-field AXI-Lite layouts: fields overlap at bit 0.
CONSTANTS
    Layouts <- MC_AxiLiteLayouts
    Samples <- MC_Samples
SPECIFICATION Spec
INVARIANT PackedLsbFirst
