SPECIFICATION Spec
CONSTANTS
  web = web
  job = job
  bucket = bucket
  table = table
  file = file
  admin = admin
  reader = reader
  app = app
  data = data
  aws_s3_bucket_b = aws_s3_bucket_b
  aws_s3_bucket_c = aws_s3_bucket_c
  Root = Root
  None = None
  Unlabelled = Unlabelled
  Bare = Bare
  Star = Star
  Roles <- TwoRoles
  Resources <- OneResource
  Objects <- OnlyBare
  Attachments <- TwoAttachments
  Modules <- OneModule
  Parent <- ModulesInRoot
  Labels <- TwoLabels
  Naming <- OwnNames
  Projects <- OneFile
  Advised <- SmallAdvice
  CanFail = FALSE
INVARIANT PlannedRolesAreDetached
