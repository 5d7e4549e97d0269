SPECIFICATION Spec
CONSTANT MaxWritten = 3
INVARIANT HandshakeErrorsAreRejections
