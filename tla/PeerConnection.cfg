SPECIFICATION FairRemoteSpec
CONSTANT MaxWritten = 4
INVARIANTS TypeOK HeartbeatOwned OneLifeline HelloFirst FieldsAgree
PROPERTIES FreshParserPerSession Recovers
