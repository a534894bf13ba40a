CONSTANTS
    Threads = {t1, t2}
    MaxFrames = 2
SPECIFICATION Spec
INVARIANTS NeverReplayed NoImplicitFallback StrictNeverWeakened Reversible
