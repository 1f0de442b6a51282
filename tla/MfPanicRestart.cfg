SPECIFICATION Spec
PROPERTY FaultIsReported
CONSTANT Captures = {c1, c2}
