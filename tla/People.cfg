SPECIFICATION MCSpec
CONSTANTS
  w1 = w1
  w2 = w2
  u1 = u1
  u2 = u2
  NewIds = {u1, u2}
  OldMember = old
  OldSocial = old_social
  google = google
  kakao = kakao
  Socials = {google, kakao}
  Review = review
  ReviewEnabled = TRUE
  Requests = {w1, w2}
  NoUser = NoUser
  NoSocial = NoSocial
  Nobody = Nobody
  Responses = {u1, u2}
  Forms <- SomeForms
  Day = 3
  KoreaOffset = 1
  Validity = 2
  MaxTime = 5
  MaxAttempts = 3
  NoResponse = NoResponse
  NoForm = NoForm
  NoAnswer = NoAnswer
SYMMETRY Symmetry
CONSTRAINT FewChanges
INVARIANTS
  UsersAreFunded
  SessionsTellTheKind
  SurveyRewardedOnce
  DailyRewardKept
PROPERTIES
  ConnectionsHold
CHECK_DEADLOCK FALSE
