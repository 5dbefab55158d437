SPECIFICATION Spec
CONSTANT Media = {m1, m2}
INVARIANT ConversionOutlivesStorage
