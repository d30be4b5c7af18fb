CONSTANTS
  u1 = u1
  u2 = u2
  h1 = h1
  h2 = h2
  Users <- TwoUsers
  Handlers <- TwoHandlers
  Bot = Bot
  NoUser = NoUser
  Challenges = {1, 2}
  ReferralPoints = 3
SPECIFICATION Spec
INVARIANTS TypeOK PointsBacked NoReferralCycle NeverOvercounted ParticipantsAccepted
PROPERTY RecordsStay
CONSTRAINT Small
SYMMETRY Symmetry
