CONSTANTS
    Thread = {t1, t2, t3, t4, t5}
    GlobalLimit = 1
    QueueLimit = 1
SYMMETRY MCSymmetry
SPECIFICATION AdmissionSpec
INVARIANT
    AdmissionRespectsBounds
