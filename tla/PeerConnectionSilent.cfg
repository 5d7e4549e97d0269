SPECIFICATION FairSpec
CONSTANT MaxWritten = 3
PROPERTY HandshakeSettles
