CONSTANTS
  None = None
  Nil = Nil
  ServiceLabels = {"localhost", "auth", "local"}
  Plural <- Plurals
  DefaultScopes <- ReadOnly
  Urls <- SomeUrls
  Responses <- SomeResponses
  Keys = {None, "", "items"}
  Setups <- SomeSetups
  Deployments <- SomeDeployments
  Paths <- SomePaths
SPECIFICATION Spec
INVARIANTS ClearTextStaysInside SafetyMonotone FailureIsReported ListIsTheOneAskedFor CredentialsPresent AdvertisedResourceAccepted PreflightAnswered DocumentsAgree
